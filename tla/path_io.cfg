SPECIFICATION Spec
CONSTANTS
  BufferLen = 3
  MaxSize = 3
  MaxChunks = 1
  IOErrors = TRUE
  MaxFrames = 4
  MaxLogs = 3
  MaxUploads = 2
INVARIANTS TypeOK
PROPERTIES LossPoints
CHECK_DEADLOCK TRUE
