CONSTANTS
  MaxAccount = 3
  MaxFetches = 2
  MaxSetups = 1
  MaxFalls = 1
SPECIFICATION Spec
INVARIANTS TypeOK OnlyAnswersMark TellsTheTruth FiguresAddUp
PROPERTIES GetsOn EveryFetchEnds KeepsTheContract
CHECK_DEADLOCK FALSE
