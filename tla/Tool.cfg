SPECIFICATION ToolFairSpec
CONSTANTS
  BufferNumber = 2
  FrameLens <- MCFrameLens
  ExitCodes <- MCExitCodes
  MaxFrames = 6
  Files <- MCFiles
  MaxUnits = 4
  MaxOddUnits = 2
  BufferSize = 5
  StreamMaxSize = 5
  InitialFound <- Zeroed
  Frames <- MCFrames
  Modulus = 128
  InitialCounts <- Zeroed
  Delay = 1
  MayFail = FALSE
  MayDrop = FALSE
INVARIANTS
  ParsesTheFile
  FewUnchecked
  PassedCoversFile
PROPERTIES
  ImplementsParts
  ToolEnds
\* After exit() nothing runs.
CHECK_DEADLOCK FALSE
