SPECIFICATION Spec
CONSTANTS
  Ports = {p1}
  Jobs = {"eth", "fc"}
  Handlers = {h1, h2}
  MaxInputs = 2
  None = none
CHECK_DEADLOCK FALSE
INVARIANTS
  EachOnce
  StartsChildren
PROPERTIES
  Refreshed
