SPECIFICATION Spec
CONSTANTS
  ConcealCount = 1
  InitialRetryCounts <- MCFreshRetryCount
  MaxStarts = 1
  MaxStops = 0
  MaxSends = 0
  MaxIndexes = 0
  Faults = {"connect_failure"}
  Paced = FALSE
INVARIANTS
  RunningHasSocket
CHECK_DEADLOCK FALSE
