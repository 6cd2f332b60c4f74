CONSTANTS
  a1 = a1
  a2 = a2
  b1 = b1
  b2 = b2
  b3 = b3
  i1 = i1
  i2 = i2
  none = none
  A = A
  B = B
  Accounts = {a1, a2}
  Bookings = {b1, b2, b3}
  AccountOf <- Account
  DayOf <- Day
  Lead = 1
  Identifiers = {i1, i2}
  NoId = none
  Fingerprints = {A, B}
  MaxOrders = 2
  MaxRuns = 4
SYMMETRY Orders
SPECIFICATION Spec
INVARIANTS TypeOK OneRowPerIdentifier NoGap FiguresAreOwn
PROPERTIES AnswerIsTheHolding CountIsTrue
CHECK_DEADLOCK FALSE
