SPECIFICATION FairSpec
CONSTANTS
  w1 = w1
  w2 = w2
  MaxCalls = 1
  Tty <- MCNoTty
  Writers <- MCTwoWriters
  MaxChunks = 3
  MaxLive = 1
  Budget = 3
CHECK_DEADLOCK FALSE
INVARIANTS
  OutputDelivered
PROPERTIES
  CallsAnswered
