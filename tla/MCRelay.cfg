SPECIFICATION RelaySpec
CONSTANTS
  MaxPending = 2
  Chunk = 2
  Window = 1
  MaxBytes = 3
CHECK_DEADLOCK FALSE
PROPERTIES ImplementsStreams Progress
