SPECIFICATION Spec
CONSTANTS
  Conns = {"c1", "c2"}
  Tasks = {"token", "other"}
  Home <- MCHome
  Device <- MCDevice
  Deadline = {"token"}
  Asks = {"token"}
  Tokens = {"token"}
  ReadLimit = 1
  MaxWindow = 1
  NoTask = "nobody"
INVARIANTS
  NoOrphan
PROPERTIES
  DispatchReturns
  RequestReturns
  ComesBack
  UsesLinks
