SPECIFICATION FairSpec
CONSTANTS
  MaxLog = 3
  NameBase = 4
  MaxSize = 1
  MinFree = 3
  Capacity = 6
  Configs = {FALSE}
  InitialLogs = {0}
  UserDeletes = TRUE
  NumBound = 5
INVARIANTS TypeOK NumbersPersisted OnlyLogOneReopened RoomForLog OldestLogOnCard
PROPERTIES RemovalNeedsConsent StartReturns
CHECK_DEADLOCK TRUE
