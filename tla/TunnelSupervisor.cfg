SPECIFICATION Spec
CONSTANT MaxRuns = 3
CHECK_DEADLOCK FALSE
INVARIANTS
  OneClient
  StopIsFinal
  NeverAbandoned
