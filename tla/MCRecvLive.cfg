SPECIFICATION Spec
CONSTANTS
  Options <- LiveAndKeeping
  NumToRead = 2
  StreamBuf = 153
  MaxBytes = 2
  MaxReads = 10
INVARIANT BoundariesFaithful
INVARIANT RoomForRecords
PROPERTY ProgressConverges
PROPERTY QuitMovesOn
PROPERTY QuitExits
PROPERTY FullBufferStops
CHECK_DEADLOCK FALSE
