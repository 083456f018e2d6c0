SPECIFICATION FairSpec
CONSTANTS
  Sessions = {s1, s2}
  Accepts = {e1}
  Workers = {w1, w2}
  Timeout = 0
  MaxSweep = 1
  MaxDepth = 2
  None = None
INVARIANTS ReleasedOnce RecvExclusive PostedIsHeld ListenerKeepsAccepting ListedIsServed
PROPERTIES SweeperSparesActive SilentIsSwept
\* a crashed process stops
CHECK_DEADLOCK FALSE
