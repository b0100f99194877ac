SPECIFICATION Spec
INVARIANTS
  TypeOK
  OneOwner
  DeviceOnce
  RemovedAreKicked
  RevokedAreKicked
CONSTANTS
  Users = {u, v}
  Devices = {"d"}
  Spaces = {"s"}
  Conns = {"c"}
  Nobody = "nobody"
  Ids = {1, 2}
  Codes = {"k"}
  InviteRoles = {"viewer"}
  Limits = {0, 1}
  MaxTasks = 2
SYMMETRY Symmetry
CHECK_DEADLOCK FALSE
