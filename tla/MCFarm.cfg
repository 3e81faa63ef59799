SPECIFICATION Spec
CONSTANTS
  Bases = {b1}
  Handlers = {h1, h2}
  MaxRequests = 4
  MaxFailures = 1
  None = none
SYMMETRY Symmetry
CHECK_DEADLOCK FALSE
INVARIANTS
  HasService
  NoLeak
