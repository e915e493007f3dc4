SPECIFICATION Spec
CONSTANTS
  MaxLog = 4
  NameBase = 5
  MaxSize = 1
  MinFree = 3
  Capacity = 6
  Configs = {TRUE}
  InitialLogs = {0}
  UserDeletes = FALSE
  NumBound = 5
INVARIANT ResetOnlyOnClearedCard
CHECK_DEADLOCK TRUE
