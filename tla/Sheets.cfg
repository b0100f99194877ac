SPECIFICATION SheetSpec
INVARIANTS
  SheetTypeOK
  CleanIsSaved
  OnlyOwnChanges
  Agreement
  UnsavedSaidKept
CONSTANTS
  Members = {a, b}
  Cards = {p, q}
  UndoDepth = 1
  MaxSaves = 2
  Budgets <- mcBudgets
SYMMETRY SheetSymmetry
CHECK_DEADLOCK FALSE
