SPECIFICATION Spec
CONSTANTS
  SendCommands <- MCSendCommands
  RecvCommands <- MCRecvCommands
  Windows = FALSE
  RxQueue = 1
  Controls = {1}
  Inputs <- MCInputs
  ChunkSize = 2
  QueueSize = 1
  OpenLimit = 3
  NumToRead = 2
  StreamBuf = 9
  MaxBytes = 3
  MaxReads = 0
INVARIANT TypeOK
INVARIANT BufferUsable
INVARIANT NothingInvented
INVARIANT NothingMissing
INVARIANT TransferWhole
PROPERTY ImplementsTransfer
PROPERTY SenderReleased
PROPERTY CountArrives
CHECK_DEADLOCK FALSE
