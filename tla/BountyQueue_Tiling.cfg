SPECIFICATION Spec
CONSTANTS
  Players = 1
  Bounties = 3
  MaxNow = 2
  MaxGame = 1
  MaxEdit = 0
  MaxUpset = 0
INVARIANTS
  GamesCountOnce
CHECK_DEADLOCK FALSE
