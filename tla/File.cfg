SPECIFICATION FairSpec
CONSTANTS
  Files <- MCFiles
  MaxFileSize = 8
  BufferSize = 4
  StreamMaxSize = 4
  InitialFound <- Zeroed
INVARIANTS
  TypeOK
  FramesFaithful
  RejectionJustified
  LostTailBounded
PROPERTIES
  Terminates
\* The process exits at the end of the file.
CHECK_DEADLOCK FALSE
