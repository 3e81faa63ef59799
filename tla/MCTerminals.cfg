SPECIFICATION TMSpec
CONSTANTS
  MaxInputs = 1
  ErrCap = 0
CHECK_DEADLOCK FALSE
INVARIANTS
  OutputClosedLast
  NothingLost
  Reaped
PROPERTIES
  SessionEnds
