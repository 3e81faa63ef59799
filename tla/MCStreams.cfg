SPECIFICATION Spec
CONSTANTS
  n1 = n1
  n2 = n2
  t1 = t1
  o1 = o1
  o2 = o2
  Names = {n1, n2}
  Types = {t1}
  Ops = {o1, o2}
  Starts = {s1, s2}
  TypeOf <- MCTypeOf
  OpType <- MCOpType
  MaxSessions = 2
  None = none
INVARIANTS
  OneLivePerType
  MapsExact
PROPERTIES
  CancelledEnds
