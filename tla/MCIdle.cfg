SPECIFICATION Spec
CONSTANTS
  Sessions = {s1}
  Conns = {c1, c2}
  PoolSize = 1
  MaxAge = 0
  MaxData = 0
  DiscardLimit = 2
  InFlight = 0
  KeepConns = {c1}
  ReaderPauses = FALSE
  LateWrites = FALSE
  ReadsPastEOF = FALSE
  Events = {"idle", "break"}
  Ticker = Ticker
  Resetter = Resetter
  Shutter = Shutter
  Nobody = Nobody
  Nowhere = Nowhere
INVARIANTS
  TypeOK
  DrainsCounted
CHECK_DEADLOCK FALSE
