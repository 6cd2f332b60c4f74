CONSTANTS
  f1 = f1
  f2 = f2
  none = none
  a1 = a1
  a2 = a2
  b1 = b1
  nobody = nobody
  Files = {f1, f2}
  NoFile = none
  Accounts = {a1, a2, b1}
  NoAccount = nobody
  HomeOf <- MCHomeOf
  Held <- MCHeld
  PageSize = 2
  MaxBookings = 3
  MaxGeneration = 1
  MaxActs = 2
  MaxSetups = 1
SPECIFICATION Spec
PROPERTIES ChoiceIsPutBack
CHECK_DEADLOCK FALSE
