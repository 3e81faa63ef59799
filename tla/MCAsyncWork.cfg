SPECIFICATION Spec
CONSTANTS
  Keys = {k1, k2, k3, k4}
  QueueSize = 2
  NoKey = none
INVARIANTS
  DedupExact
PROPERTY
  ImplementsWork
CHECK_DEADLOCK FALSE
