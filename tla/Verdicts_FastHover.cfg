SPECIFICATION Spec
CONSTANTS
  Player <- MCPlayer
  N <- MCN
  RTT <- MCRTT
  ButtonsOnScreen = 1
  ArmMin = 1
  ArmMax = 2
  RaceMax = 3
  FastClickMs = 1
  ReactionMinMs = 1
  DominantRunnerUpMin = 1
  FactorTenths = 10
  Milli = 2
  Lag = 1
  MaxTouch = 1
INVARIANTS
  HoverMeansFast
CHECK_DEADLOCK FALSE
