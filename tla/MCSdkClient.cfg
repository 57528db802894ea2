CONSTANTS
  Client = {c1, c2}
  AsyncClient = {c2}
  Agent = {a1}
  Leased = {s1}
  Leader = {l1, l2}
  Endpoint = {e1, e2}
  Thread = {t1, t2}
  Renewer = {r1, r2}
  MaxCalls = 4
  MaxFaults = 1
SPECIFICATION Spec
INVARIANTS OwnershipSurvives   NoOrphanRenewer
SYMMETRY Symmetry
CHECK_DEADLOCK FALSE
