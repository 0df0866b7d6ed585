SPECIFICATION Spec
CONSTANTS
  Options <- MCOptions
  NumToRead = 2
  StreamBuf = 36
  MaxBytes = 5
  MaxReads = 3
INVARIANT CaptureInv
INVARIANT CaptureWindow
INVARIANT ReadFits
INVARIANT BoundariesFaithful
INVARIANT UnplugKeepsFile
INVARIANT RoomForRecords
INVARIANT ProgressHonest
PROPERTY ImplementsCapture
CHECK_DEADLOCK FALSE
