SPECIFICATION FairSpec
PROPERTIES
  StashDrains
  CatchesUp
  ImplementsFeed
CONSTANTS
  Clients = {a, b}
  Kinds = {"text"}
  CacheMax = 1
  RingMax = 9
  BytePressure = FALSE
  RoomMayEmpty = FALSE
  MaxConns = 3
  MaxPublished = 2
  MaxOther = 0
  UpMax = 1
CHECK_DEADLOCK FALSE
