SPECIFICATION FairSpec
CONSTANTS
  SessionCount = 2
  DbWorkers = 2
  StartGold = 1
  MaxMails = 1
  MaxGains = 1
  MaxFailures = 1
  MaxPending = 2
INVARIANT LeftIsSaved
PROPERTY EarnedIsSaved
\* nobody is connected, or the server stopped
CHECK_DEADLOCK FALSE
