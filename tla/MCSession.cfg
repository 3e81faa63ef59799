SPECIFICATION Spec
CONSTANTS
  Grants <- MCGrants
  Sizes = {1, 2}
  AckSize = 1
  CreditCap = 3
  HandlerLimit = 2
  MaxTimeouts = 1
  Backoffs = {7}
  ReconnectRate = 3
  HonorServer = TRUE
  Disconnects = TRUE
INVARIANTS
  CleanSlate
  CreditRespected
  SlotAccounting
PROPERTIES
  DeadSessionEnds
  Reconnects
  ImplementsLink
