SPECIFICATION FairSpec
CONSTANTS
  Sessions = {s1}
  Conns = {c1, c2}
  PoolSize = 1
  MaxAge = 0
  MaxData = 0
  DiscardLimit = 2
  InFlight = 1
  KeepConns = {}
  ReaderPauses = FALSE
  LateWrites = FALSE
  ReadsPastEOF = FALSE
  Events = {"time", "close", "reset"}
  Ticker = Ticker
  Resetter = Resetter
  Shutter = Shutter
  Nobody = Nobody
  Nowhere = Nowhere
INVARIANTS
  ExpireLoopRuns
PROPERTIES
  ClosedIsFinal
  CloseReturns
  WaitingEnds
  AllReleased
CHECK_DEADLOCK FALSE
