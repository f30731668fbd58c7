\* Every frame ends with an AUD, one datagram holds the end of a frame and
\* the beginning of the next.
SPECIFICATION Spec
CONSTANTS
  Payload <- MCPayload
  Streams <- Coalesced
  BufferSize = 12
  SockLens <- Zeroed
  Faults <- NoFaults
  MaxFaults = 0
INVARIANTS
  SingleFrames
CHECK_DEADLOCK FALSE
