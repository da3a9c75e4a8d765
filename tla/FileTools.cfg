CONSTANTS
  Paths <- MCPaths
  Inside <- MCInside
  Heavy = {"big"}
  Crlf <- MCCrlf
  Calls = {1, 2}
  MaxFaults = 2
  MaxEdits = 2
  Mixes <- MCMixes
SPECIFICATION Spec
CHECK_DEADLOCK FALSE
INVARIANTS
  RollbackTruthful
  VerifiedApplies
  ExtractionAccounted
PROPERTIES
  SeenBeforeReplaced
