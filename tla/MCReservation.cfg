SPECIFICATION ReservationSpec
CONSTANTS
  Nothing = Nothing
  p1 = p1
  p2 = p2
  w1 = w1
  w2 = w2
  Service = {1, 2}
  Principal = {p1, p2}
  Admins = {}
  AuthRequired = TRUE
  Worker = {w1, w2}
  Counts = {2}
  Ttls = {1, 2}
  MaxTime = 2
SYMMETRY Symmetry
INVARIANTS PromiseKept NoDoubleGrant
PROPERTIES LeaseChangesForItsHolder ExtendMovesOnlyLiveLeases
CHECK_DEADLOCK TRUE
