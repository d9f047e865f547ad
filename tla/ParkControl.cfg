SPECIFICATION Spec
CONSTANTS
  MaxUp = 1
  MaxDown = 2
  MaxReconnect = 1
PROPERTIES
  EngineParkIsSeen
  ResumeBringsBack
