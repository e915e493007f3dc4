SPECIFICATION FairSpec
CONSTANTS
  MaxLog = 3
  NameBase = 4
  MaxSize = 1
  MinFree = 3
  Capacity = 6
  Configs = {TRUE}
  InitialLogs = {0}
  UserDeletes = FALSE
  NumBound = 5
PROPERTY FreeSpaceCheckReturns
CHECK_DEADLOCK TRUE
