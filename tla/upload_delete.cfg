SPECIFICATION UploaderSpec
CONSTANTS
  MaxLog = 2
  NameBase = 3
  MaxSize = 1
  MinFree = 2
  Capacity = 5
  Configs = {FALSE}
  InitialLogs = {0}
  UserDeletes = FALSE
  NumBound = 4
  DeleteConfigs = {TRUE}
  Faults = TRUE
PROPERTY IsDelivery
CHECK_DEADLOCK TRUE
