SPECIFICATION Spec
CONSTANTS
  MaxLog = 3
  NameBase = 4
  MaxSize = 1
  MinFree = 3
  Capacity = 6
  Configs = {FALSE, TRUE}
  InitialLogs = {0, 2}
  UserDeletes = FALSE
  NumBound = 5
INVARIANTS TypeOK NumbersPersisted OnlyLogOneReopened RoomForLog
PROPERTIES RemovalNeedsConsent
CHECK_DEADLOCK TRUE
