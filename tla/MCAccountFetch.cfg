CONSTANTS
  a1 = a1
  a2 = a2
  Accounts = {a1, a2}
  MaxGeneration = 1
  MaxFetches = 2
  MaxSetups = 1
SPECIFICATION Spec
INVARIANTS TypeOK PhaseIsOwn NothingBeforeTheAnswer BalancesFollowBookings TellsTheTruth FiguresAreTrue
PROPERTIES GetsOn EveryFetchEnds CallsAsAssumed
CHECK_DEADLOCK FALSE
