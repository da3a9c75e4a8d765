SPECIFICATION MCSpec
CONSTANTS
  a = a
  Ids <- OneId
  Found <- NoneOrOne
  Installer = new
  Kinds = {"child", "oauth", "native"}
  NativeStates = {"ready", "error"}
  NewKinds = {"child"}
  MaxConns = 4
  MaxOps = 2
  MaxFaults = 1
CHECK_DEADLOCK FALSE
INVARIANTS
  ServersAccounted
  RowsKept
  Settles
