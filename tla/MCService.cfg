SPECIFICATION Spec
CONSTANTS
  s1 = s1
  s2 = s2
  s3 = s3
  s4 = s4
  Salts = {s1, s2, s3, s4}
  Bits <- SaltBits
  Generation = 2
  Kinds <- AllKinds
  Conns = {c1, c2}
  Nobody = Nobody
  Keys = {k1}
  BadKey = BadKey
  Users = {u1}
  k1 = k1
  u1 = u1
  Updates <- UserUpdates
  MaxUpdates = 1
  MaxRequests = 2
  MaxAccepted = 5
SYMMETRY Symmetry
INVARIANTS
  ReplayFar
  RefusedForRecent
  UserCurrent
  OneOwner
CHECK_DEADLOCK FALSE
