SPECIFICATION Spec
CONSTANTS
  Options <- LiveOptions
  NumToRead = 2
  StreamBuf = 36
  MaxBytes = 3
  MaxReads = 0
PROPERTY ProgressForward
CHECK_DEADLOCK FALSE
