CONSTANTS
  r1 = r1
  r2 = r2
  w1 = w1
  w2 = w2
  f1 = f1
  f2 = f2
  none = none
  Readers = {r1, r2}
  Writers = {w1, w2}
  Files = {f1, f2}
  NoFile = none
  MaxGeneration = 3
SPECIFICATION FairSpec
INVARIANTS TypeOK AnswersAreOwn NoForeignHolding
PROPERTIES EveryCallEnds ImplementsContract
CHECK_DEADLOCK FALSE
