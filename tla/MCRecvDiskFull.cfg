SPECIFICATION Spec
CONSTANTS
  Options <- LiveOptions
  NumToRead = 2
  StreamBuf = 36
  MaxBytes = 2
  MaxReads = 0
INVARIANT SuccessIsOnDisk
CHECK_DEADLOCK FALSE
