SPECIFICATION Spec
CONSTANTS
  Sessions = {s1}
  Conns = {c1}
  PoolSize = 1
  MaxAge = 0
  MaxData = 1
  DiscardLimit = 2
  InFlight = 1
  KeepConns = {}
  ReaderPauses = FALSE
  LateWrites = FALSE
  ReadsPastEOF = FALSE
  Events = {}
  Ticker = Ticker
  Resetter = Resetter
  Shutter = Shutter
  Nobody = Nobody
  Nowhere = Nowhere
SYMMETRY Symmetry
INVARIANTS
  WaitingIsRead
CHECK_DEADLOCK FALSE
