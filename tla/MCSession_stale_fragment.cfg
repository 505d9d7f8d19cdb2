SPECIFICATION Spec
CONSTANTS
  ConcealCount = 1
  InitialRetryCounts <- MCFreshRetryCount
  MaxStarts = 2
  MaxStops = 0
  MaxSends = 0
  MaxIndexes = 1
  Faults = {"drop", "fragment"}
  Paced = FALSE
PROPERTIES
  MessagesReassembled
CHECK_DEADLOCK FALSE
