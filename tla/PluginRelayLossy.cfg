SPECIFICATION Spec
INVARIANTS
  TypeOK
  CacheIsTail
  CursorSound
SYMMETRY Symmetry
CONSTANTS
  Clients = {a, b}
  Kinds = {"text", "bin"}
  CacheMax = 2
  RingMax = 2
  BytePressure = FALSE
  RoomMayEmpty = TRUE
  MaxConns = 3
  MaxPublished = 2
  MaxOther = 1
  UpMax = 1
CHECK_DEADLOCK FALSE
