SPECIFICATION CustomSpec
CONSTANTS
  Inputs <- MCInputs
  MaxUnits = 7
  MaxOddUnits = 4
  FrameMaxCount = 4
  BufferSize = 9
  StreamMaxSize = 9
  InitialFound <- Zeroed
  StdioBuffer = 2
INVARIANTS
  TypeOK
  ReadsWithinFile
  WritesAccessUnits
  EveryFrameWritten
  CustomFramesFaithful
  CustomTailBounded
\* The process may exit, crash, or come to the end of the file.
CHECK_DEADLOCK FALSE
