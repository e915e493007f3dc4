SPECIFICATION Spec
CONSTANTS
  BufferLen = 2
  MaxSize = 1
  MaxChunks = 1
  IOErrors = FALSE
  MaxFrames = 5
  MaxLogs = 2
  MaxUploads = 1
PROPERTY RotatesAtLimit
CHECK_DEADLOCK TRUE
