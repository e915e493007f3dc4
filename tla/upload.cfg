SPECIFICATION UploaderFairSpec
CONSTANTS
  MaxLog = 3
  NameBase = 4
  MaxSize = 1
  MinFree = 2
  Capacity = 5
  Configs = {FALSE}
  InitialLogs = {0}
  UserDeletes = FALSE
  NumBound = 5
  DeleteConfigs = {FALSE}
  Faults = TRUE
INVARIANTS UploaderTypeOK SentWhole NothingElseSkipped
PROPERTY UploadEnds
CHECK_DEADLOCK TRUE
