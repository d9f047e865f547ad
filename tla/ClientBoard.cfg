SPECIFICATION CSpec
CONSTANTS
  a = a
  b = b
  Player <- MCPlayer
  Viewer <- MCViewer
  ClicksPerPlayer = 1
  MinClicks = 0
  Crowd <- MCCrowd
  X = 1
  SlotMod = 8
  ClickBuf = 1
  Ticking = TRUE
  Rounds = 2
  MaxGame = 1
  MaxSubmit = 2
  MaxTick = 2
  SendBuf = 2
  MaxConn = 1
INVARIANTS
  WholeClientConverges
  PressMeansWhatIsShown
  CountRecovers
  BenchedSeesNoLiveButton
CHECK_DEADLOCK FALSE
