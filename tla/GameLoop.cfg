SPECIFICATION FairSpec
CONSTANTS
  a = a
  b = b
  Player <- Pair
  Pauser <- Alone
  Pointer <- Alone
  Rounds = 2
INVARIANTS
  ArrivalIsNotMissed
  RosterIsFrozen
  FlaggedOncePerGame
  BustedSentNoCursor
PROPERTIES
  PausedEngineWakes
  CrowdGetsToRace
