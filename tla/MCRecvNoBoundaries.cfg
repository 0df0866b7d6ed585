SPECIFICATION Spec
CONSTANTS
  Options <- KeepingOptions
  NumToRead = 2
  StreamBuf = 36
  MaxBytes = 1
  MaxReads = 2
INVARIANT BoundariesFileNeeded
CHECK_DEADLOCK FALSE
