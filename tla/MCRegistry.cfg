SPECIFICATION RGSpec
CONSTANTS
  Connections = 1
  MaxObjects = 2
  MaxRegs = 3
  MaxCrashes = 1
  MaxCloud = 4
  Handlers = {h1, h2}
  None = none
CHECK_DEADLOCK FALSE
INVARIANTS
  Findable
  Budget
PROPERTIES
  ComesUp
