SPECIFICATION CISpec
CONSTANTS
  board = board
  blade = blade
  chassis = chassis
  slot = slot
  twin = twin
  frame = frame
  shelf = shelf
  Rels = {slot, twin, frame, shelf}
  Types = {board, blade, chassis}
  PerType = 1
  RelType <- MCRelType
  Inits <- MCInits
  Batch = 2
  MaxStreams = 2
  MaxVersion = 2
  NoType = none
CHECK_DEADLOCK FALSE
INVARIANTS
  OneProcessor
  InSync
PROPERTIES
  RelationsFirst
  Collected
