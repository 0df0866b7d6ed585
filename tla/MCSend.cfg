SPECIFICATION Spec
CONSTANTS
  Inputs <- MCInputs
  ChunkSize = 3
  QueueSize = 2
  OpenLimit = 3
INVARIANT TypeOK
INVARIANT NothingDropped
INVARIANT FilesInOrder
PROPERTY ImplementsTransmission
PROPERTY SendMovesOn
PROPERTY SendEnds
CHECK_DEADLOCK FALSE
