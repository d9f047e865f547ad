SPECIFICATION Spec
CONSTANTS
  None = None
  Player <- MCPlayer
  Points <- MCPoints
  HourTicks = 4
  Timeout = 2
  Margin = 2
  PassTime = 1
  LastRound = 1
  MaxHour = 5
  MaxRound = 3
  MaxUpset = 2
INVARIANTS
  HourWonOnce
  BoardsAgree
PROPERTY
  EveryHourIsWon
CHECK_DEADLOCK FALSE
