\* A frame that takes the whole buffer.
SPECIFICATION Spec
CONSTANTS
  Files <- MCFiles
  MaxFileSize = 5
  BufferSize = 4
  StreamMaxSize = 4
  InitialFound <- Zeroed
INVARIANTS
  RejectionAsStated
CHECK_DEADLOCK FALSE
