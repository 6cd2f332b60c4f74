CONSTANTS
  a1 = a1
  a2 = a2
  Accounts = {a1, a2}
  MaxGeneration = 1
  MaxFetches = 2
  MaxSetups = 1
SPECIFICATION Spec
INVARIANTS OnlyStoreFailedLoses
CHECK_DEADLOCK FALSE
