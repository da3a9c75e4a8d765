SPECIFICATION Spec
CONSTANTS
  w1 = w1
  w2 = w2
  MaxCalls = 2
  Tty <- MCFirstTty
  Writers <- MCOneWriter
  MaxChunks = 1
  MaxLive = 1
  Budget = 1
CHECK_DEADLOCK FALSE
INVARIANTS
  LiveWithinCapacity
  TablesAgree
