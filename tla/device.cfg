SPECIFICATION Spec
CONSTANTS
  Wrap = 16
  Second = 5
  BlueAfter = 5
  GreenAfter = 6
  SetupTime = 7
  Word = 16
  Minute = 1
  MaxError = 2
  NoFile = NoFile
  OldTime = OldTime
INVARIANTS TypeOK CardSeenInASecond LogFollowsClock
PROPERTY BlinksWhileLogging
CHECK_DEADLOCK TRUE
