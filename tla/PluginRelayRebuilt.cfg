SPECIFICATION Spec
INVARIANTS
  MissedArrives
CONSTANTS
  Clients = {a, b}
  Kinds = {"text"}
  CacheMax = 2
  RingMax = 9
  BytePressure = FALSE
  RoomMayEmpty = TRUE
  MaxConns = 4
  MaxPublished = 2
  MaxOther = 0
  UpMax = 1
CHECK_DEADLOCK FALSE
