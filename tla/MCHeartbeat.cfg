SPECIFICATION FairSpec
CONSTANTS
  None = None
  Absent = Absent
  NoLease = NoLease
  s1 = s1
  r1 = r1
  r2 = r2
  Sid = {s1}
  Request = {r1, r2}
  Ttls = {1, 2}
  Grace = 1
INVARIANTS TypeOK PromisedLeaseStays 
 
CHECK_DEADLOCK TRUE
