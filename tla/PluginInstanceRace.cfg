SPECIFICATION Spec
INVARIANT RestartsVoided
CONSTANTS
  Calls = {c}
  CrashLimit = 2
  MaxGen = 3
  MaxTokens = 4
CHECK_DEADLOCK FALSE
