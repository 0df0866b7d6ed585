SPECIFICATION Spec
CONSTANTS
  Options <- KeepingOptions
  NumToRead = 2
  StreamBuf = 36
  MaxBytes = 1
  MaxReads = 3
INVARIANT BoundaryPtrInBuffer
CHECK_DEADLOCK FALSE
