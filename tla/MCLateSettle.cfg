SPECIFICATION Spec
CONSTANTS
  Sessions = {s1}
  Conns = {c1, c2, c3}
  PoolSize = 1
  MaxAge = 0
  MaxData = 0
  DiscardLimit = 2
  InFlight = 1
  KeepConns = {}
  ReaderPauses = TRUE
  LateWrites = FALSE
  ReadsPastEOF = FALSE
  Events = {}
  Ticker = Ticker
  Resetter = Resetter
  Shutter = Shutter
  Nobody = Nobody
  Nowhere = Nowhere
SYMMETRY Symmetry
INVARIANTS
  DrainWaits
CHECK_DEADLOCK FALSE
