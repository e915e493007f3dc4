SPECIFICATION Spec
CONSTANTS
  BufferLen = 3
  MaxSize = 3
  MaxChunks = 1
  IOErrors = FALSE
  MaxFrames = 4
  MaxLogs = 3
  MaxUploads = 2
PROPERTY ClearLosesNothing
CHECK_DEADLOCK TRUE
