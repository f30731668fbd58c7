SPECIFICATION CheckerFairSpec
CONSTANTS
  Frames <- Kinds
  Modulus = 128
  InitialCounts <- Zeroed
  MaxFrames = 4
  Delay = 2
  MayFail = TRUE
  MayDrop = TRUE
INVARIANTS
  CheckerTypeOK
  DecoderDrained
  EveryPacketAccountedFor
  JudgedByIncreases
  VerdictCoversPlainStream
  VerdictExact
  PassedCountIsPrefix
PROPERTY
  CheckStreamReturns
\* The last packet of the model has been checked.
CHECK_DEADLOCK FALSE
