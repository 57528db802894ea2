--------------------------- MODULE HeartbeatProofs ---------------------------
(***************************************************************************)
(* Proofs about Heartbeat for every set of services, number of requests in *)
(* flight, ttls and grace period.                                          *)
(***************************************************************************)
EXTENDS Heartbeat, TLAPS

(* What a request holds at each step of its handler. *)
RequestOK ==
  \A r \in Request :
    /\ request[r].pc # "idle" => request[r].sid \in Sid
    /\ request[r].pc \in {"validated", "registered"} => request[r].entry \in Entry
    /\ request[r].pc = "registered" => request[r].entry.ttl \in Ttls

IInv == TypeOK /\ RequestOK /\ PromisedLeaseStays /\ LeasedServiceIsWatched

USE LeaseTableAssumption, NoLeaseAssumption, HeartbeatAssumption
    DEF LeaseTableAssumption, NoLeaseAssumption, HeartbeatAssumption

-----------------------------------------------------------------------------
(* The operations of the lease table. *)
LEMMA GrantedIsLease ==
  ASSUME NEW ttl \in Ttls
  PROVE  /\ Granted(ttl) \in Lease
         /\ Granted(ttl).graceLeft = ttl + Grace
BY DEF Granted, Lease

LEMMA ExpiredIsLease ==
  ASSUME NEW ttl \in Ttls
  PROVE  /\ Expired(ttl) \in Lease
         /\ Expired(ttl).graceLeft = Grace
BY DEF Expired, Lease

LEMMA AgedIsLease ==
  ASSUME NEW l \in Lease
  PROVE  /\ Aged(l) \in Lease
         /\ Aged(l).graceLeft = Less(l.graceLeft)
<1>1. l # NoLease
  OBVIOUS
<1>2. Less(l.ttlLeft) \in Nat /\ Less(l.graceLeft) \in Nat
  BY DEF Less, Lease
<1>. QED BY <1>1, <1>2 DEF Aged, Lease

(* A sweep takes away a lease only when its time is up, and never changes   *)
(* how much time it has.                                                   *)
LEMMA SweptIsLease ==
  ASSUME NEW l \in Lease
  PROVE  /\ Due(l) => Swept(l) = NoLease /\ l.graceLeft = 0
         /\ ~Due(l) => Swept(l) \in Lease /\ Swept(l).graceLeft = l.graceLeft
<1>1. l # NoLease
  OBVIOUS
<1>2. Marked(l) \in Lease /\ Marked(l).graceLeft = l.graceLeft
  BY DEF Marked, Lease
<1>. QED BY <1>1, <1>2 DEF Swept, Due

(* A leased entry has a ttl the table can be given. *)
LEMMA LeasedHasTtl ==
  ASSUME TypeOK, NEW s \in Sid, Leased(s)
  PROVE  entries[s].ttl \in Ttls
BY DEF TypeOK, Leased, Entry

-----------------------------------------------------------------------------
(* One lemma per action. *)
LEMMA TickStep == ASSUME IInv, Tick PROVE IInv'
<1>1. ASSUME NEW s \in Sid, lease[s] = NoLease
      PROVE  lease'[s] = NoLease
  BY <1>1 DEF Tick, Aged
<1>2. ASSUME NEW s \in Sid, lease[s] # NoLease
      PROVE  /\ lease'[s] \in Lease
             /\ lease'[s] # NoLease
             /\ lease'[s].graceLeft = Less(lease[s].graceLeft)
  BY <1>2, AgedIsLease DEF IInv, TypeOK, Tick
<1>3. ASSUME NEW s \in Sid
      PROVE  /\ owed'[s] = Less(owed[s]) /\ owed'[s] \in Nat
             /\ owed'[s] > 0 => owed[s] > 0
  BY DEF IInv, TypeOK, Tick, Less
<1>4. lease' \in [Sid -> Lease \cup {NoLease}] /\ owed' \in [Sid -> Nat]
  BY <1>1, <1>2, <1>3 DEF Tick
<1>5. TypeOK' /\ RequestOK'
  BY <1>4 DEF IInv, TypeOK, RequestOK, Tick
<1>6. PromisedLeaseStays'
  BY <1>2, <1>3 DEF IInv, PromisedLeaseStays
<1>7. LeasedServiceIsWatched'
  BY <1>2 DEF IInv, LeasedServiceIsWatched, Leased, InFlight, Tick
<1>. QED BY <1>5, <1>6, <1>7 DEF IInv

LEMMA SetEnabledStep == ASSUME IInv, SetEnabled PROVE IInv'
BY DEF IInv, TypeOK, RequestOK, PromisedLeaseStays, LeasedServiceIsWatched,
       Leased, InFlight, SetEnabled

LEMMA ValidateStep ==
  ASSUME IInv, NEW r \in Request, NEW s \in Sid, NEW e \in Entry, Validate(r, s, e)
  PROVE  IInv'
<1>1. RequestAt("validated", s, e) \in RequestState
  BY DEF RequestAt, RequestState
<1>2. TypeOK' /\ RequestOK'
  BY <1>1 DEF IInv, TypeOK, RequestOK, Validate, RequestAt
<1>3. \A q \in Sid : InFlight(q) => InFlight(q)'
  BY DEF IInv, TypeOK, InFlight, Validate, Idle, RequestAt
<1>. QED BY <1>2, <1>3
         DEF IInv, PromisedLeaseStays, LeasedServiceIsWatched, Leased, Validate

LEMMA RegisterEntryStep ==
  ASSUME IInv, NEW r \in Request, RegisterEntry(r)
  PROVE  IInv'
<1>1. PICK s \in Sid, e \in Entry : s = request[r].sid /\ e = request[r].entry
  BY DEF IInv, RequestOK, RegisterEntry
<1>2. /\ RequestAt("registered", s, e) \in RequestState
      /\ Idle \in RequestState
  BY <1>1 DEF Idle, RequestAt, RequestState
<1>3. TypeOK'
  BY <1>1, <1>2 DEF IInv, TypeOK, RegisterEntry
<1>4. RequestOK'
  BY <1>1 DEF IInv, TypeOK, RequestOK, RegisterEntry, Idle, RequestAt, Entry
<1>5. ASSUME NEW q \in Sid, Leased(q)', ~InFlight(q)'
      PROVE  Leased(q) /\ ~InFlight(q)
  <2>1. q # s
    <3>1. CASE e.ttl = None
      BY <1>1, <1>5, <3>1 DEF IInv, TypeOK, Leased, RegisterEntry
    <3>2. CASE e.ttl # None
      BY <1>1, <1>5, <3>2 DEF IInv, TypeOK, InFlight, RegisterEntry, RequestAt
    <3>. QED BY <3>1, <3>2
  <2>2. Leased(q)
    BY <1>1, <1>5, <2>1 DEF IInv, TypeOK, Leased, RegisterEntry
  <2>3. ~InFlight(q)
    BY <1>1, <1>5, <2>1 DEF IInv, TypeOK, InFlight, RegisterEntry
  <2>. QED BY <2>2, <2>3
<1>6. LeasedServiceIsWatched'
  BY <1>5 DEF IInv, LeasedServiceIsWatched, RegisterEntry
<1>. QED BY <1>3, <1>4, <1>6 DEF IInv, PromisedLeaseStays, RegisterEntry

(* Install, Renew and RevokeSoft put a lease in the table and owe just the  *)
(* time it has.                                                            *)
LEMMA PutLease ==
  ASSUME IInv, NEW s \in Sid, NEW l \in Lease,
         lease' = [lease EXCEPT ![s] = l],
         owed' = [owed EXCEPT ![s] = l.graceLeft],
         \A q \in Sid \ {s} : InFlight(q) => InFlight(q)',
         loaded' = loaded, entries' = entries, doomed' = doomed,
         abandoned \subseteq abandoned' \cup {s}
  PROVE  PromisedLeaseStays' /\ LeasedServiceIsWatched'
<1>1. lease'[s] # NoLease /\ lease'[s].graceLeft = owed'[s]
  BY DEF IInv, TypeOK
<1>2. ASSUME NEW q \in Sid \ {s}
      PROVE  lease'[q] = lease[q] /\ owed'[q] = owed[q]
  BY DEF IInv, TypeOK
<1>3. PromisedLeaseStays'
  BY <1>1, <1>2 DEF IInv, PromisedLeaseStays
<1>4. LeasedServiceIsWatched'
  BY <1>1, <1>2 DEF IInv, LeasedServiceIsWatched, Leased
<1>. QED BY <1>3, <1>4

LEMMA InstallStep ==
  ASSUME IInv, NEW r \in Request, Install(r)
  PROVE  IInv'
<1>0. PICK s \in Sid, ttl \in Ttls :
        s = request[r].sid /\ ttl = request[r].entry.ttl
  BY DEF IInv, RequestOK, Install
<1>. DEFINE l == Granted(ttl)
<1>2. l \in Lease /\ l.graceLeft = ttl + Grace /\ l.graceLeft \in Nat
  BY GrantedIsLease DEF Lease
<1>3. lease' = [lease EXCEPT ![s] = l] /\ owed' = [owed EXCEPT ![s] = l.graceLeft]
  BY <1>0, <1>2 DEF Install, Grant
<1>4. Idle \in RequestState
  BY DEF Idle, RequestAt, RequestState
<1>5. TypeOK'
  BY <1>0, <1>2, <1>3, <1>4 DEF IInv, TypeOK, Install, Grant
<1>6. RequestOK'
  BY DEF IInv, TypeOK, RequestOK, Install, Idle, RequestAt
<1>7. \A q \in Sid \ {s} : InFlight(q) => InFlight(q)'
  BY <1>0 DEF IInv, TypeOK, InFlight, Install
<1>8. loaded' = loaded /\ entries' = entries /\ doomed' = doomed
      /\ abandoned \subseteq abandoned' \cup {s}
  BY <1>0 DEF Install, Grant
<1>9. PromisedLeaseStays' /\ LeasedServiceIsWatched'
  BY <1>2, <1>3, <1>7, <1>8, PutLease
<1>. QED BY <1>5, <1>6, <1>9 DEF IInv

LEMMA RenewStep ==
  ASSUME IInv, NEW s \in Sid, Renew(s)
  PROVE  IInv'
<1>1. PICK ttl \in Ttls : ttl = lease[s].ttl
  BY DEF IInv, TypeOK, Renew, Lease
<1>. DEFINE l == Granted(ttl)
<1>2. l \in Lease /\ l.graceLeft = ttl + Grace /\ l.graceLeft \in Nat
  BY GrantedIsLease DEF Lease
<1>3. lease' = [lease EXCEPT ![s] = l] /\ owed' = [owed EXCEPT ![s] = l.graceLeft]
  BY <1>1, <1>2 DEF Renew, Grant
<1>4. TypeOK' /\ RequestOK'
  BY <1>2, <1>3 DEF IInv, TypeOK, RequestOK, Renew, Grant
<1>5. \A q \in Sid \ {s} : InFlight(q) => InFlight(q)'
  BY DEF InFlight, Renew
<1>6. loaded' = loaded /\ entries' = entries /\ doomed' = doomed
      /\ abandoned \subseteq abandoned' \cup {s}
  BY DEF Renew, Grant
<1>7. PromisedLeaseStays' /\ LeasedServiceIsWatched'
  BY <1>2, <1>3, <1>5, <1>6, PutLease
<1>. QED BY <1>4, <1>7 DEF IInv

LEMMA RevokeSoftStep ==
  ASSUME IInv, NEW s \in Sid, RevokeSoft(s)
  PROVE  IInv'
<1>1. PICK ttl \in Ttls : ttl = lease[s].ttl
  BY DEF IInv, TypeOK, RevokeSoft, Lease
<1>. DEFINE l == Expired(ttl)
<1>2. l \in Lease /\ l.graceLeft = Grace
  BY ExpiredIsLease
<1>3. lease' = [lease EXCEPT ![s] = l] /\ owed' = [owed EXCEPT ![s] = l.graceLeft]
  BY <1>1, <1>2 DEF RevokeSoft
<1>4. TypeOK' /\ RequestOK'
  BY <1>2, <1>3 DEF IInv, TypeOK, RequestOK, RevokeSoft
<1>5. \A q \in Sid \ {s} : InFlight(q) => InFlight(q)'
  BY DEF InFlight, RevokeSoft
<1>6. loaded' = loaded /\ entries' = entries /\ doomed' = doomed
      /\ abandoned \subseteq abandoned' \cup {s}
  BY DEF RevokeSoft
<1>7. PromisedLeaseStays' /\ LeasedServiceIsWatched'
  BY <1>2, <1>3, <1>5, <1>6, PutLease
<1>. QED BY <1>4, <1>7 DEF IInv

(* Removing an entry leaves it unleased, and the others as they were. *)
LEMMA RemoveTypes ==
  ASSUME TypeOK, NEW s \in Sid, Remove(s)
  PROVE  /\ entries' \in [Sid -> Entry \cup {Absent}]
         /\ disk' \in [Sid -> Entry \cup {Absent}]
         /\ \A q \in Sid : Leased(q)' => q # s /\ Leased(q)
<1>1. entries' = [entries EXCEPT ![s] = Absent]
      /\ disk' \in {disk, [disk EXCEPT ![s] = Absent]}
  BY DEF Remove
<1>. QED BY <1>1 DEF TypeOK, Leased

LEMMA RevokePermanentStep ==
  ASSUME IInv, NEW r \in Request, NEW s \in Sid, RevokePermanent(r, s)
  PROVE  IInv'
<1>1. RequestAt("dropped", s, Absent) \in RequestState
  BY DEF RequestAt, RequestState
<1>2. TypeOK' /\ RequestOK'
  BY <1>1 DEF IInv, TypeOK, RequestOK, RevokePermanent, RequestAt
<1>3. PromisedLeaseStays'
  BY DEF IInv, TypeOK, PromisedLeaseStays, RevokePermanent
<1>4. InFlight(s)'
  BY DEF IInv, TypeOK, InFlight, RevokePermanent, RequestAt
<1>5. \A q \in Sid \ {s} : InFlight(q) => InFlight(q)'
  BY DEF IInv, TypeOK, InFlight, RevokePermanent, Idle, RequestAt
<1>6. LeasedServiceIsWatched'
  BY <1>4, <1>5 DEF IInv, TypeOK, LeasedServiceIsWatched, Leased, RevokePermanent
<1>. QED BY <1>2, <1>3, <1>6 DEF IInv

LEMMA DeregisterRevokedStep ==
  ASSUME IInv, NEW r \in Request, DeregisterRevoked(r)
  PROVE  IInv'
<1>0. PICK s \in Sid : s = request[r].sid
  BY DEF IInv, RequestOK, DeregisterRevoked
<1>1. Remove(s) /\ Idle \in RequestState
  BY <1>0 DEF DeregisterRevoked, Idle, RequestAt, RequestState
<1>2. TypeOK' /\ \A q \in Sid : Leased(q)' => q # s /\ Leased(q)
  BY <1>1, RemoveTypes DEF IInv, TypeOK, DeregisterRevoked
<1>3. RequestOK'
  BY DEF IInv, TypeOK, RequestOK, DeregisterRevoked, Idle, RequestAt
<1>4. \A q \in Sid \ {s} : InFlight(q) => InFlight(q)'
  BY <1>0 DEF IInv, TypeOK, InFlight, DeregisterRevoked
<1>5. LeasedServiceIsWatched'
  BY <1>2, <1>4 DEF IInv, LeasedServiceIsWatched, DeregisterRevoked
<1>. QED BY <1>2, <1>3, <1>5 DEF IInv, PromisedLeaseStays, DeregisterRevoked

LEMMA RevocationRefusedStep ==
  ASSUME IInv, NEW r \in Request, RevocationRefused(r)
  PROVE  IInv'
<1>0. PICK s \in Sid : s = request[r].sid
  BY DEF IInv, RequestOK, RevocationRefused
<1>1. Idle \in RequestState
  BY DEF Idle, RequestAt, RequestState
<1>2. TypeOK'
  BY <1>0, <1>1 DEF IInv, TypeOK, RevocationRefused
<1>3. RequestOK'
  BY DEF IInv, TypeOK, RequestOK, RevocationRefused, Idle, RequestAt
<1>4. \A q \in Sid \ {s} : InFlight(q) => InFlight(q)'
  BY <1>0 DEF IInv, TypeOK, InFlight, RevocationRefused
<1>5. Leased(s)' => s \in abandoned'
  BY <1>0 DEF Leased, RevocationRefused
<1>6. \A q \in Sid : (Leased(q)' => Leased(q)) /\ (q \in abandoned => q \in abandoned')
  BY DEF Leased, RevocationRefused
<1>7. LeasedServiceIsWatched'
  BY <1>4, <1>5, <1>6 DEF IInv, LeasedServiceIsWatched, RevocationRefused
<1>. QED BY <1>2, <1>3, <1>7 DEF IInv, PromisedLeaseStays, RevocationRefused

LEMMA DeregisterStep ==
  ASSUME IInv, NEW s \in Sid, Deregister(s)
  PROVE  IInv'
<1>1. TypeOK' /\ \A q \in Sid : Leased(q)' => q # s /\ Leased(q)
  BY RemoveTypes DEF IInv, TypeOK, Deregister
<1>2. LeasedServiceIsWatched'
  BY <1>1 DEF IInv, LeasedServiceIsWatched, InFlight, Deregister
<1>. QED BY <1>1, <1>2 DEF IInv, RequestOK, PromisedLeaseStays, Deregister

LEMMA SweepTickStep == ASSUME IInv, SweepTick PROVE IInv'
<1>1. ASSUME NEW s \in Sid
      PROVE  /\ lease'[s] \in Lease \cup {NoLease}
             /\ s \notin doomed' /\ lease[s] # NoLease =>
                  lease'[s] \in Lease /\ lease'[s].graceLeft = lease[s].graceLeft
             /\ s \in doomed' => lease[s] # NoLease /\ lease[s].graceLeft = 0
  <2>1. CASE lease[s] = NoLease
    BY <2>1 DEF SweepTick, Swept, Due
  <2>2. CASE lease[s] \in Lease
    BY <2>2, SweptIsLease DEF SweepTick
  <2>. QED BY <2>1, <2>2 DEF IInv, TypeOK
<1>2. lease' \in [Sid -> Lease \cup {NoLease}] /\ doomed' \subseteq Sid
  BY <1>1 DEF SweepTick
<1>3. TypeOK' /\ RequestOK'
  BY <1>2 DEF IInv, TypeOK, RequestOK, SweepTick
<1>4. PromisedLeaseStays'
  <2>. SUFFICES ASSUME NEW s \in Sid, owed'[s] > 0
                PROVE  lease'[s] # NoLease /\ lease'[s].graceLeft = owed'[s]
    BY DEF PromisedLeaseStays
  <2>1. owed'[s] = owed[s] /\ owed[s] \in Nat
    BY DEF SweepTick, IInv, TypeOK
  <2>2. lease[s] # NoLease /\ lease[s].graceLeft = owed[s]
    BY <2>1 DEF IInv, PromisedLeaseStays
  <2>. QED BY <1>1, <2>1, <2>2
<1>5. LeasedServiceIsWatched'
  BY <1>1 DEF IInv, LeasedServiceIsWatched, Leased, InFlight, SweepTick
<1>. QED BY <1>3, <1>4, <1>5 DEF IInv

LEMMA HardDeleteStep ==
  ASSUME IInv, NEW s \in Sid, HardDelete(s)
  PROVE  IInv'
<1>1. /\ entries' \in [Sid -> Entry \cup {Absent}]
      /\ disk' \in [Sid -> Entry \cup {Absent}]
      /\ \A q \in Sid : Leased(q)' => q # s /\ Leased(q)
  <2>1. CASE entries[s] = Absent
    BY <2>1 DEF HardDelete, IInv, TypeOK, Leased
  <2>2. CASE entries[s] # Absent
    BY <2>2, RemoveTypes DEF HardDelete, IInv
  <2>. QED BY <2>1, <2>2
<1>2. TypeOK'
  BY <1>1 DEF IInv, TypeOK, HardDelete
<1>3. LeasedServiceIsWatched'
  BY <1>1 DEF IInv, LeasedServiceIsWatched, InFlight, HardDelete
<1>. QED BY <1>2, <1>3 DEF IInv, RequestOK, PromisedLeaseStays, HardDelete

LEMMA RestartStep == ASSUME IInv, Restart PROVE IInv'
<1>1. Idle \in RequestState
  BY DEF Idle, RequestAt, RequestState
<1>2. TypeOK'
  BY <1>1 DEF IInv, TypeOK, Restart
<1>3. RequestOK'
  BY DEF RequestOK, Restart, Idle, RequestAt
<1>. QED BY <1>2, <1>3 DEF IInv, PromisedLeaseStays, LeasedServiceIsWatched, Restart

LEMMA RecoverStep == ASSUME IInv, Recover PROVE IInv'
<1>1. ASSUME NEW s \in Sid
      PROVE  /\ lease'[s] \in Lease \cup {NoLease} /\ owed'[s] \in Nat
             /\ Leased(s) => lease'[s] # NoLease /\ lease'[s].graceLeft = owed'[s]
             /\ owed'[s] > 0 => Leased(s)
  <2>1. CASE Leased(s)
    <3>1. lease'[s] = Expired(entries[s].ttl) /\ owed'[s] = Grace
      BY <2>1 DEF Recover
    <3>2. entries[s].ttl \in Ttls
      BY <2>1, LeasedHasTtl DEF IInv
    <3>3. Expired(entries[s].ttl) \in Lease /\ Expired(entries[s].ttl).graceLeft = Grace
      BY <3>2, ExpiredIsLease
    <3>. QED BY <2>1, <3>1, <3>3
  <2>2. CASE ~Leased(s)
    BY <2>2 DEF Recover
  <2>. QED BY <2>1, <2>2
<1>2. TypeOK' /\ RequestOK'
  BY <1>1 DEF IInv, TypeOK, RequestOK, Recover
<1>3. PromisedLeaseStays'
  BY <1>1 DEF PromisedLeaseStays
<1>4. LeasedServiceIsWatched'
  BY <1>1 DEF LeasedServiceIsWatched, Leased, Recover
<1>. QED BY <1>2, <1>3, <1>4 DEF IInv

-----------------------------------------------------------------------------
LEMMA Initially == Init => IInv
<1>1. Idle \in RequestState
  BY DEF Idle, RequestAt, RequestState
<1>. QED BY <1>1 DEF Init, IInv, TypeOK, RequestOK, PromisedLeaseStays,
                     LeasedServiceIsWatched, Leased, Idle, RequestAt

LEMMA Invariance == IInv /\ [Next]_vars => IInv'
<1>. SUFFICES ASSUME IInv, [Next]_vars PROVE IInv'
  OBVIOUS
<1>1. CASE Tick
  BY <1>1, TickStep
<1>2. CASE SetEnabled
  BY <1>2, SetEnabledStep
<1>3. ASSUME NEW r \in Request, NEW s \in Sid, NEW e \in Entry, Validate(r, s, e)
      PROVE  IInv'
  BY <1>3, ValidateStep
<1>4. ASSUME NEW r \in Request, RegisterEntry(r)
      PROVE  IInv'
  BY <1>4, RegisterEntryStep
<1>5. ASSUME NEW r \in Request, Install(r)
      PROVE  IInv'
  BY <1>5, InstallStep
<1>6. ASSUME NEW r \in Request, NEW s \in Sid, RevokePermanent(r, s)
      PROVE  IInv'
  BY <1>6, RevokePermanentStep
<1>7. ASSUME NEW r \in Request, DeregisterRevoked(r)
      PROVE  IInv'
  BY <1>7, DeregisterRevokedStep
<1>8. ASSUME NEW r \in Request, RevocationRefused(r)
      PROVE  IInv'
  BY <1>8, RevocationRefusedStep
<1>9. ASSUME NEW s \in Sid, Renew(s) \/ RevokeSoft(s) \/ Deregister(s) \/ HardDelete(s)
      PROVE  IInv'
  BY <1>9, RenewStep, RevokeSoftStep, DeregisterStep, HardDeleteStep
<1>10. CASE SweepTick
  BY <1>10, SweepTickStep
<1>11. CASE Restart
  BY <1>11, RestartStep
<1>12. CASE Recover
  BY <1>12, RecoverStep
<1>13. CASE UNCHANGED vars
  BY <1>13 DEF IInv, TypeOK, RequestOK, PromisedLeaseStays,
               LeasedServiceIsWatched, Leased, InFlight, vars
<1>. QED
  BY <1>1, <1>2, <1>3, <1>4, <1>5, <1>6, <1>7, <1>8, <1>9, <1>10, <1>11, <1>12,
     <1>13, Zenon DEF Next

THEOREM SpecIInv == Spec => []IInv
BY Initially, Invariance, PTL DEF Spec

-----------------------------------------------------------------------------
(* Every variable always has its type. *)
THEOREM SpecTypeOK == Spec => []TypeOK
BY SpecIInv, PTL DEF IInv

(* The time a holder was granted is honoured, across sweeps, other          *)
(* requests, revocations and restarts.                                     *)
THEOREM SpecPromisedLeaseStays == Spec => []PromisedLeaseStays
BY SpecIInv, PTL DEF IInv

(* No interleaving of registrations, heartbeats, revocations, sweeps and   *)
(* restarts leaves a leased service outside the table, save the refusal of  *)
(* a permanent revocation.                                                 *)
THEOREM SpecLeasedServiceIsWatched == Spec => []LeasedServiceIsWatched
BY SpecIInv, PTL DEF IInv

=============================================================================
