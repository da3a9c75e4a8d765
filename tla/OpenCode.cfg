SPECIFICATION Spec
CONSTANTS
  Calls = {"c1", "c2"}
  Reqs = {"r1", "r2"}
  Batches <- MCBatches
  Mixes <- MCMixes
  MaxWorkers = 1
  MaxSessions = 5
  MaxCalls = 2
  MaxFaults = 1
  MaxAsks = 1
  MaxClients = 4
CHECK_DEADLOCK FALSE
INVARIANTS
  StartedOnce
  CeilingRespected
  ContinueSerial
PROPERTIES
  EveryCallAnswered
