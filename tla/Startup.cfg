SPECIFICATION FairSpec
CONSTANTS
  BufferNumber = 3
  Options <- MCOptions
  Memory <- Zeroed
INVARIANTS
  CheckerReadyForFrames
  ReceiverWaitsUntilOpen
PROPERTY
  RealRecvStreamReached
\* The process may exit.
CHECK_DEADLOCK FALSE
