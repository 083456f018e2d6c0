SPECIFICATION FairSpec
CONSTANTS
  Workers = {w1, w2, w3}
  Connections = {c1, c2, c3}
  Jobs = {j1, j2, j3}
  None = None
INVARIANTS PoolSound FlushedByClear
PROPERTIES EveryJobRuns ClearReturns
\* the pool is cleared
CHECK_DEADLOCK FALSE
