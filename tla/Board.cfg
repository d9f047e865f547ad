SPECIFICATION Spec
CONSTANTS
  a = a
  b = b
  Player <- MCPlayer
  ClicksPerPlayer = 1
  MinClicks = 0
  Crowd <- MCCrowd
  X = 2
  SlotMod = 8
  ClickBuf = 2
  Ticking = TRUE
  Rounds = 2
  MaxGame = 1
  MaxSubmit = 4
  MaxTick = 1
SYMMETRY Symmetry
INVARIANTS
  TypeOK
  MirrorsAgree
  OneClaimPerButton
  BoardKeptFull
  LogMatchesScored
  ReplayRebuildsBoard
PROPERTIES
  ImplementsRace
CHECK_DEADLOCK FALSE
