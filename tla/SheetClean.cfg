SPECIFICATION SheetSpec
INVARIANTS
  CleanIsOnDisk
CONSTANTS
  Members = {a}
  Cards = {p, q}
  UndoDepth = 1
  MaxSaves = 2
  Budgets <- mcAlone
CHECK_DEADLOCK FALSE
