SPECIFICATION FairSpec
CONSTANTS
  Clients = {c1, c2, c3, c4, c5}
  NoOne = NoOne
PROPERTIES
  ExclusiveSpec
  LockServed
