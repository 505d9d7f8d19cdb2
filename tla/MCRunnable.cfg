SPECIFICATION FairSpec
CONSTANT MaxRuns = 3
INVARIANTS
  TypeOK
  OnlyCarelessTerminates
  OnePoller
  StoppedMeansQuiet
PROPERTIES
  StopRunReturns
CHECK_DEADLOCK FALSE
