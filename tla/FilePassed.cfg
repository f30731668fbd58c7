SPECIFICATION Spec
CONSTANTS
  Files <- MCFiles
  MaxFileSize = 5
  BufferSize = 4
  StreamMaxSize = 4
  InitialFound <- Zeroed
INVARIANTS
  PassedMeansWholeFile
CHECK_DEADLOCK FALSE
