SPECIFICATION Spec
CONSTANTS
  Sessions = {s1}
  Conns = {c1, c2, c3}
  PoolSize = 1
  MaxAge = 0
  MaxData = 2
  DiscardLimit = 1
  InFlight = 1
  KeepConns = {}
  ReaderPauses = FALSE
  LateWrites = FALSE
  ReadsPastEOF = FALSE
  Events = {}
  Ticker = Ticker
  Resetter = Resetter
  Shutter = Shutter
  Nobody = Nobody
  Nowhere = Nowhere
SYMMETRY Symmetry
INVARIANTS
  Custody
  SingleReader
  OwnResponse
  DrainWaits
  ReadyIsClean
  NoMisread
CHECK_DEADLOCK FALSE
