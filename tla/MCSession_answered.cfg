SPECIFICATION FairSpec
CONSTANTS
  ConcealCount = 1
  InitialRetryCounts <- MCNoRetry
  MaxStarts = 1
  MaxStops = 1
  MaxSends = 2
  MaxIndexes = 2
  Faults = {"connect_error", "connect_failure", "write_error", "drop", "fragment"}
  Paced = TRUE
PROPERTIES
  StartAnswered
  StopAnswered
CHECK_DEADLOCK FALSE
