\* The counters start with what the memory holds.
SPECIFICATION Spec
CONSTANTS
  Frames <- FewFrames
  Modulus = 64
  InitialCounts <- Garbage
  MaxFrames = 3
INVARIANTS
  PassedMeansAllPassed
