CONSTANTS
  Paths <- MCPaths
  Inside <- MCInside
  Heavy = {"big"}
  Crlf <- MCCrlf
  Calls = {1, 2}
  MaxFaults = 1
  MaxEdits = 1
  Mixes <- MCNative
SPECIFICATION Spec
PROPERTY ExternalEditWins
CHECK_DEADLOCK FALSE
