SPECIFICATION FairSpec
CONSTANTS
  Payload <- MCPayload
  Streams <- MCStreams
  BufferSize = 6
  SockLens <- Garbage
  Faults <- AllFaults
  MaxFaults = 2
INVARIANTS
  TypeOK
  FramesIntact
  Resynchronises
  ExitJustified
PROPERTIES
  EveryFrameDelivered
\* recvfrom blocks once the sender has stopped, and exit() stops the receiver.
CHECK_DEADLOCK FALSE
