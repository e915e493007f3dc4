SPECIFICATION UploaderSpec
CONSTANTS
  MaxLog = 3
  NameBase = 4
  MaxSize = 1
  MinFree = 3
  Capacity = 8
  Configs = {FALSE}
  InitialLogs = {0}
  UserDeletes = FALSE
  NumBound = 6
  DeleteConfigs = {FALSE}
  Faults = TRUE
INVARIANT OpenLogNotSent
CHECK_DEADLOCK TRUE
