SPECIFICATION Spec
CONSTANT MaxRuns = 1
INVARIANTS ObserverMayStopRun
CHECK_DEADLOCK FALSE
