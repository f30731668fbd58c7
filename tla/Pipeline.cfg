\* recvStream may end the process at any call, with either exit code.
SPECIFICATION FairSpec
CONSTANTS
  BufferNumber = 3
  FrameLens <- MCFrameLens
  ExitCodes <- MCExitCodes
  MaxFrames = 5
INVARIANTS
  TypeOK
  LockDiscipline
  Ownership
  InOrder
  CheckerSeesFilled
PROPERTIES
  StableWhileChecked
  ReceiverServed
  ImplementsChannel
\* After exit() nothing runs.
CHECK_DEADLOCK FALSE
