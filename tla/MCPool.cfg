SPECIFICATION Spec
CONSTANTS
  Sessions = {s1, s2}
  Conns = {c1, c2}
  PoolSize = 1
  MaxAge = 0
  MaxData = 0
  DiscardLimit = 2
  InFlight = 0
  KeepConns = {}
  ReaderPauses = TRUE
  LateWrites = FALSE
  ReadsPastEOF = FALSE
  Events = {"close"}
  Ticker = Ticker
  Resetter = Resetter
  Shutter = Shutter
  Nobody = Nobody
  Nowhere = Nowhere
SYMMETRY Symmetry
INVARIANTS
  SoleHolder
  NoneLost
CHECK_DEADLOCK FALSE
