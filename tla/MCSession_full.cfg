SPECIFICATION Spec
CONSTANTS
  ConcealCount = 1
  InitialRetryCounts <- MCInitialRetryCounts
  MaxStarts = 2
  MaxStops = 2
  MaxSends = 1
  MaxIndexes = 2
  Faults <- FaultKinds
  Paced = FALSE
INVARIANTS
  TypeOK
  ConnectedMeansOpen
  LeaveUnderway
  JoinedOnThisSocket
  FirstRunKeepsSocket
  CleanDialogue
  DeadHasReported
PROPERTIES
  LifecycleSpec
  FirstRunReassembled
CHECK_DEADLOCK FALSE
