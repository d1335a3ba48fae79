SPECIFICATION FairSpec
CONSTANTS
  NumTypes = 3
  ByteBits = 8
  Wanted <- MCWanted
  Modems <- MCModems
  Kernels <- MCKernels
  Tplink = TRUE
  MaxDuration = 300
  FirstDelay = 1
  MaxDelay = 50
  MaxNoise = 2
  MaxRestarts = 1
INVARIANTS Patience LogsAreOn
PROPERTY StartEnds
CHECK_DEADLOCK FALSE
