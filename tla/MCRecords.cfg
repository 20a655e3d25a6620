SPECIFICATION Spec
CONSTANTS
  Threads = {t1, t2}
  MaxPayload = 3
  Step = 2
  FirstLimits = {1}
  ResetAfter = 1
  Batch = 4
  ChunkMin = 1
  ChunkInitial = 1
  ChunkStep = 1
  ChunkMax = 3
  ChunkJitter = 0
  ChunkBuckets = {}
  FirstCap = 2
  IdleReset = 0
  Sizes = {2, 4}
  Vectors <- Pairs
  MaxCalls = 3
  MaxClock = 2
SYMMETRY Symmetry
INVARIANTS
  TypeOK
  LimitsValid
  NoncesAgree
  WholeCalls
  CallsComplete
  SlowStart
  MTUAccepted
CHECK_DEADLOCK FALSE
