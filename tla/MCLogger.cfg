SPECIFICATION FairSpec
CONSTANTS
  Producers = {p1, p2}
  Levels = {"Trace", "Error"}
  capacity = 2
  MaxCalls = 3
  MaxTroubles = 1
CONSTRAINT Few
INVARIANTS RecordsKept WrittenInOrder PromiseKept DropsReported
PROPERTY EveryRecordIsWritten
\* all records are written, or the process crashed
CHECK_DEADLOCK FALSE
