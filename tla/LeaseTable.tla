----------------------------- MODULE LeaseTable -----------------------------
(***************************************************************************)
(* The lease state machine of common/lease.py, one key at a time.  A lease *)
(* is HEALTHY until its ttl has run out, UNHEALTHY for a grace period, and *)
(* then deleted by a sweep.                                                *)
(*                                                                         *)
(* The code stores instants of the monotonic clock and compares them with  *)
(* the present: `now >= expires_at`, `now >= grace_deadline`.  Here a lease *)
(* stores the time left until each, which Aged counts down to zero; the    *)
(* comparisons read `ttlLeft = 0` and `graceLeft = 0`.  The clock is thus  *)
(* unbounded and the table still has finitely many states.                 *)
(***************************************************************************)
EXTENDS Integers

CONSTANTS
  Ttls,    \* the ttl_seconds a lease may be installed with
  Grace,   \* grace_period_seconds
  NoLease  \* the key is not in the table

ASSUME LeaseTableAssumption ==
  /\ Ttls \subseteq Nat \ {0}
  /\ Grace \in Nat

Lease == [ttl: Ttls, ttlLeft: Nat, graceLeft: Nat,
          state: {"healthy", "unhealthy"}]

(* NoLease is chosen so that it is not a lease. *)
ASSUME NoLeaseAssumption == NoLease \notin Lease

(* install, and renew with the ttl the lease was installed with. *)
Granted(ttl) ==
  [ttl |-> ttl, ttlLeft |-> ttl, graceLeft |-> ttl + Grace, state |-> "healthy"]

(* install(expired=True), for restart recovery; revoke has the same effect *)
(* on a lease that is in the table.                                        *)
Expired(ttl) ==
  [ttl |-> ttl, ttlLeft |-> 0, graceLeft |-> Grace, state |-> "unhealthy"]

(* Counting on below zero is a mutation that the properties must catch, and *)
(* so are the other definitions whose names begin with Mutant.             *)
MutantLess(n) == n - 1

Less(n) == IF n = 0 THEN 0 ELSE n - 1

Aged(l) ==
  IF l = NoLease THEN NoLease
  ELSE [l EXCEPT !.ttlLeft = Less(@), !.graceLeft = Less(@)]

(* sweep_tick: the first test may mark the lease, the second then deletes *)
(* it in the same pass.                                                   *)
Marked(l) == IF l.ttlLeft = 0 THEN [l EXCEPT !.state = "unhealthy"] ELSE l

MutantDue(l) == l # NoLease /\ Marked(l).state = "unhealthy"

Due(l) == l # NoLease /\ Marked(l).state = "unhealthy" /\ l.graceLeft = 0

Swept(l) == IF l = NoLease \/ Due(l) THEN NoLease ELSE Marked(l)

IsUnhealthy(l) == l # NoLease /\ l.state = "unhealthy"
=============================================================================
