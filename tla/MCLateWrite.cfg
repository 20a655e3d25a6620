SPECIFICATION Spec
CONSTANTS
  Sessions = {s1}
  Conns = {c1}
  PoolSize = 1
  MaxAge = 0
  MaxData = 0
  DiscardLimit = 2
  InFlight = 1
  KeepConns = {}
  ReaderPauses = FALSE
  LateWrites = TRUE
  ReadsPastEOF = FALSE
  Events = {}
  Ticker = Ticker
  Resetter = Resetter
  Shutter = Shutter
  Nobody = Nobody
  Nowhere = Nowhere
SYMMETRY Symmetry
INVARIANTS
  NoMisread
CHECK_DEADLOCK FALSE
