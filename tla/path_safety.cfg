SPECIFICATION FairSpec
CONSTANTS
  BufferLen = 3
  MaxSize = 3
  MaxChunks = 1
  IOErrors = FALSE
  MaxFrames = 4
  MaxLogs = 3
  MaxUploads = 2
INVARIANTS TypeOK FramesInOrder WritesAtEnd RightLog
PROPERTIES LossPoints IsLossyFifo BufferDrains
CHECK_DEADLOCK TRUE
