SPECIFICATION FairSpec
CONSTANTS
  Threads = {t1, t2, t3}
  Jobs = {j1, j2, j3}
  Nobody = Nobody
INVARIANTS OneAtATime CountKept ProgramOrder
PROPERTIES ImplementsSerial EveryJobRuns
\* every job has been pushed and has run
CHECK_DEADLOCK FALSE
