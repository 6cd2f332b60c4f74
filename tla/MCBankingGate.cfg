CONSTANTS
  Vaults = {v1, v2}
  NoVault = none
  MaxFetches = 3
SPECIFICATION Spec
INVARIANTS TypeOK PinIsOwn
PROPERTIES ShutdownEnds
CHECK_DEADLOCK FALSE
