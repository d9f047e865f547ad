SPECIFICATION Spec
CONSTANTS
  a = a
  b = b
  Player <- Alone
  Threshold = 2
  Grace = 1
  MaxBump = 2
  ExtBuf = 1
  AnswerBuf = 2
  MaxBounty = 2
  MaxCheck = 3
  MaxWrite = 1
  MaxUpset = 1
INVARIANTS
  RungsExclusive
  RungFollowsCount
PROPERTIES
  OnlyTheAnswerFrees
  ArmingShowsTheRung
