SPECIFICATION Spec
INVARIANTS
  InOrder
SYMMETRY Symmetry
CONSTRAINT FirstStays
CONSTANTS
  Clients = {a, b}
  Kinds = {"text"}
  CacheMax = 3
  RingMax = 2
  BytePressure = FALSE
  RoomMayEmpty = FALSE
  MaxConns = 3
  MaxPublished = 3
  MaxOther = 2
  UpMax = 1
CHECK_DEADLOCK FALSE
