SPECIFICATION Spec
CONSTANTS
  Devices = {d1, d2}
  Names = {n1, n2}
  MaxSessions = 2
  None = none
INVARIANTS
  NotForgotten
PROPERTIES
  OneRunner
  Runs
