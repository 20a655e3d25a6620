SPECIFICATION FairSpec
CONSTANTS
  Conns = {c1, c2}
  Nobody = Nobody
  MaxData = 1
  MaxUpload = 2
  Window = 2
  DiscardLimit = 1
  OrderlyClient = TRUE
INVARIANTS
  TypeOK
  ResponseOrder
  WriteOrder
  OwnRequest
  OnCloseOnce
PROPERTIES
  HandlerReleased
  ServeGoesOn
  FarEnd
CHECK_DEADLOCK FALSE
