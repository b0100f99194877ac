SPECIFICATION FairSpec
INVARIANTS
  TypeOK
  CallsSwept
  HeldSwept
  OneProcess
  StopHolds
CONSTRAINT InTurn
PROPERTIES
  SilenceEnds
  DeathNoticed
CONSTANTS
  Calls = {c}
  CrashLimit = 2
  MaxGen = 3
  MaxTokens = 4
CHECK_DEADLOCK FALSE
