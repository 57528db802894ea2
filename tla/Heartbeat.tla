----------------------------- MODULE Heartbeat -----------------------------
(***************************************************************************)
(* Heartbeat leases of registered services: the register and DELETE        *)
(* handlers of backend/routers/dataset.py, heartbeat/router.py, the sweeper *)
(* daemon and the recovery at startup, over the table of LeaseTable.       *)
(*                                                                         *)
(* Three kinds of thread interleave: the event loop (validate, install and *)
(* every heartbeat handler), the workers that run RegistryService calls,   *)
(* and the sweeper.  RegistryService.register_* and deregister are single  *)
(* steps here.                                                             *)
(***************************************************************************)
EXTENDS LeaseTable, FiniteSets

CONSTANTS
  Sid,      \* service ids of one namespace
  Request,  \* requests that may be in flight
  None,     \* no lease_ttl (a permanent service); no service
  Absent    \* no entry

Entry == [ttl: Ttls \cup {None}, persistent: BOOLEAN]

ASSUME HeartbeatAssumption ==
  /\ None \notin Ttls
  /\ None \notin Sid
  /\ Absent \notin Entry

VARIABLES
  enabled,    \* lease_config.enabled of the namespace
  loaded,     \* is the heartbeat store set? (it is not while warming up)
  entries,    \* RegistryService._entries
  disk,       \* api_config.json
  lease,      \* the LeaseTable
  request,    \* what each request in flight has done so far
  doomed,     \* to_hard_delete: swept keys the sweeper has yet to deregister
  owed,       \* history: how much longer the holder was told it may be silent
  abandoned   \* history: the permanent revocation of these was refused

vars == <<enabled, loaded, entries, disk, lease, request, doomed,
          owed, abandoned>>

RequestAt(pc, s, e) == [pc |-> pc, sid |-> s, entry |-> e]

Idle == RequestAt("idle", None, Absent)

RequestState ==
  [pc: {"idle", "validated", "registered", "dropped"},
   sid: Sid \cup {None}, entry: Entry \cup {Absent}]

Leased(s) == entries[s] # Absent /\ entries[s].ttl # None

(* The DELETE heartbeat handler does not yield between drop and deregister: *)
(* while it is there the event loop serves nobody else.                     *)
LoopFree == \A r \in Request : request[r].pc # "dropped"

---------------------------------------------------------------------------
Init ==
  /\ enabled \in BOOLEAN
  /\ loaded = TRUE
  /\ entries = [s \in Sid |-> Absent]
  /\ disk = [s \in Sid |-> Absent]
  /\ lease = [s \in Sid |-> NoLease]
  /\ request = [r \in Request |-> Idle]
  /\ doomed = {}
  /\ owed = [s \in Sid |-> 0]
  /\ abandoned = {}

Tick ==
  /\ lease' = [s \in Sid |-> Aged(lease[s])]
  /\ owed' = [s \in Sid |-> Less(owed[s])]
  /\ UNCHANGED <<enabled, loaded, entries, disk, request, doomed, abandoned>>

(* POST lease-config. *)
SetEnabled ==
  /\ enabled' = ~enabled
  /\ UNCHANGED <<loaded, entries, disk, lease, request, doomed, owed, abandoned>>

(* The four corners: a ttl is required where leases are enabled, and not    *)
(* allowed elsewhere, nor before the heartbeat module is loaded.            *)
Accepted(ttl) == IF loaded /\ enabled THEN ttl \in Ttls ELSE ttl = None

Validate(r, s, e) ==
  /\ LoopFree
  /\ request[r] = Idle
  /\ Accepted(e.ttl)
  /\ request' = [request EXCEPT ![r] = RequestAt("validated", s, e)]
  /\ UNCHANGED <<enabled, loaded, entries, disk, lease, doomed, owed, abandoned>>

(* register_* in a worker.  A permanent service has no lease to install.   *)
RegisterEntry(r) ==
  LET s == request[r].sid
      e == request[r].entry
  IN  /\ request[r].pc = "validated"
      /\ entries' = [entries EXCEPT ![s] = e]
      /\ disk' = IF e.persistent THEN [disk EXCEPT ![s] = e] ELSE disk
      /\ request' = [request EXCEPT ![r] =
                       IF e.ttl = None THEN Idle ELSE RequestAt("registered", s, e)]
      /\ UNCHANGED <<enabled, loaded, lease, doomed, owed, abandoned>>

Grant(s, ttl) ==
  /\ lease' = [lease EXCEPT ![s] = Granted(ttl)]
  /\ owed' = [owed EXCEPT ![s] = ttl + Grace]
  /\ abandoned' = abandoned \ {s}

(* _install_lease, back on the event loop. *)
Install(r) ==
  /\ LoopFree
  /\ request[r].pc = "registered"
  /\ Grant(request[r].sid, request[r].entry.ttl)
  /\ request' = [request EXCEPT ![r] = Idle]
  /\ UNCHANGED <<enabled, loaded, entries, disk, doomed>>

(* POST heartbeat; 404 without a lease.  The status it may carry goes       *)
(* through update_service, which leaves lease_ttl alone.                    *)
Renew(s) ==
  /\ LoopFree
  /\ loaded
  /\ lease[s] # NoLease
  /\ Grant(s, lease[s].ttl)
  /\ UNCHANGED <<enabled, loaded, entries, disk, request, doomed>>

(* DELETE heartbeat, permanent=false. *)
RevokeSoft(s) ==
  /\ LoopFree
  /\ loaded
  /\ lease[s] # NoLease
  /\ lease' = [lease EXCEPT ![s] = Expired(lease[s].ttl)]
  /\ owed' = [owed EXCEPT ![s] = Grace]
  /\ UNCHANGED <<enabled, loaded, entries, disk, request, doomed, abandoned>>

(* What deregister does to a service that is there. *)
Remove(s) ==
  /\ entries' = [entries EXCEPT ![s] = Absent]
  /\ disk' = IF entries[s].persistent THEN [disk EXCEPT ![s] = Absent] ELSE disk

(* DELETE heartbeat, permanent=true: first the lease, *)
RevokePermanent(r, s) ==
  /\ LoopFree
  /\ loaded
  /\ request[r] = Idle
  /\ lease' = [lease EXCEPT ![s] = NoLease]
  /\ owed' = [owed EXCEPT ![s] = 0]
  /\ request' = [request EXCEPT ![r] = RequestAt("dropped", s, Absent)]
  /\ UNCHANGED <<enabled, loaded, entries, disk, doomed, abandoned>>

(* then the entry, *)
DeregisterRevoked(r) ==
  LET s == request[r].sid
  IN  /\ request[r].pc = "dropped"
      /\ entries[s] # Absent
      /\ Remove(s)
      /\ request' = [request EXCEPT ![r] = Idle]
      /\ UNCHANGED <<enabled, loaded, lease, doomed, owed, abandoned>>

(* unless it is gone already, or the caller is not its owner: a 400.       *)
RevocationRefused(r) ==
  LET s == request[r].sid
  IN  /\ request[r].pc = "dropped"
      /\ abandoned' = IF entries[s] = Absent THEN abandoned ELSE abandoned \cup {s}
      /\ request' = [request EXCEPT ![r] = Idle]
      /\ UNCHANGED <<enabled, loaded, entries, disk, lease, doomed, owed>>

(* DELETE service, by an operator or the client: the lease is not touched. *)
Deregister(s) ==
  /\ entries[s] # Absent
  /\ Remove(s)
  /\ UNCHANGED <<enabled, loaded, lease, request, doomed, owed, abandoned>>

(* sweep_once: one pass over the table under its lock, *)
SweepTick ==
  /\ loaded
  /\ doomed = {}
  /\ doomed' = {s \in Sid : Due(lease[s])}
  /\ lease' = [s \in Sid |-> Swept(lease[s])]
  /\ UNCHANGED <<enabled, loaded, entries, disk, request, owed, abandoned>>

MutantHardDelete(s) ==
  /\ s \in doomed
  /\ doomed' = doomed \ {s}
  /\ UNCHANGED <<enabled, loaded, entries, disk, lease, request, owed, abandoned>>

(* then one deregister for each key that was due, as the system admin; a    *)
(* service that is gone raises, and the sweeper goes on.                    *)
HardDelete(s) ==
  /\ s \in doomed
  /\ doomed' = doomed \ {s}
  /\ IF entries[s] = Absent THEN UNCHANGED <<entries, disk>> ELSE Remove(s)
  /\ UNCHANGED <<enabled, loaded, lease, request, owed, abandoned>>

(* The process dies and starts again: what is in api_config.json is loaded, *)
(* and requests are served while the warm-up thread is still running.       *)
Restart ==
  /\ entries' = disk
  /\ lease' = [s \in Sid |-> NoLease]
  /\ request' = [r \in Request |-> Idle]
  /\ doomed' = {}
  /\ owed' = [s \in Sid |-> 0]
  /\ abandoned' = {}
  /\ loaded' = FALSE
  /\ UNCHANGED <<enabled, disk>>

MutantRecover ==
  /\ ~loaded
  /\ loaded' = TRUE
  /\ UNCHANGED <<enabled, entries, disk, lease, request, doomed, owed, abandoned>>

(* The warm-up reaches the heartbeat module: every loaded entry with a      *)
(* lease_ttl gets one grace period, then the sweeper starts.                *)
Recover ==
  /\ ~loaded
  /\ loaded' = TRUE
  /\ lease' = [s \in Sid |-> IF Leased(s) THEN Expired(entries[s].ttl) ELSE NoLease]
  /\ owed' = [s \in Sid |-> IF Leased(s) THEN Grace ELSE 0]
  /\ UNCHANGED <<enabled, entries, disk, request, doomed, abandoned>>

Next ==
  \/ Tick
  \/ SetEnabled
  \/ \E r \in Request :
       \/ \E s \in Sid, e \in Entry : Validate(r, s, e)
       \/ RegisterEntry(r)
       \/ Install(r)
       \/ \E s \in Sid : RevokePermanent(r, s)
       \/ DeregisterRevoked(r)
       \/ RevocationRefused(r)
  \/ \E s \in Sid : Renew(s) \/ RevokeSoft(s) \/ Deregister(s) \/ HardDelete(s)
  \/ SweepTick
  \/ Restart
  \/ Recover

Spec == Init /\ [][Next]_vars

(* Time passes; the sweeper is a loop with a period; the warm-up runs to    *)
(* its end; a request that has been accepted is served.  Nothing is assumed *)
(* of clients, operators or crashes.                                        *)
Fairness ==
  /\ WF_vars(Tick)
  /\ WF_vars(SweepTick)
  /\ WF_vars(Recover)
  /\ \A s \in Sid : WF_vars(HardDelete(s))
  /\ \A r \in Request : /\ WF_vars(RegisterEntry(r))
                        /\ WF_vars(Install(r))
                        /\ WF_vars(DeregisterRevoked(r) \/ RevocationRefused(r))

FairSpec == Spec /\ Fairness
---------------------------------------------------------------------------
(* Every variable has its type. *)
TypeOK ==
  /\ enabled \in BOOLEAN
  /\ loaded \in BOOLEAN
  /\ entries \in [Sid -> Entry \cup {Absent}]
  /\ disk \in [Sid -> Entry \cup {Absent}]
  /\ lease \in [Sid -> Lease \cup {NoLease}]
  /\ request \in [Request -> RequestState]
  /\ doomed \subseteq Sid
  /\ owed \in [Sid -> Nat]
  /\ abandoned \subseteq Sid

(* The time a holder was granted (ttl and grace after a registration or a  *)
(* heartbeat, grace after a revocation or a restart) is honoured: until it *)
(* has run out the lease is in the table, with just that much time left.   *)
PromisedLeaseStays ==
  \A s \in Sid :
    owed[s] > 0 => lease[s] # NoLease /\ lease[s].graceLeft = owed[s]

(* What the handlers of s have not finished yet. *)
InFlight(s) ==
  \E r \in Request : request[r].sid = s /\ request[r].pc \in {"registered", "dropped"}

(* A service registered with a ttl is watched: only the refusal of a       *)
(* permanent revocation, which drops the lease before it asks whether the   *)
(* caller may remove the entry, leaves one without a lease.                *)
LeasedServiceIsWatched ==
  \A s \in Sid :
    loaded /\ Leased(s) /\ ~InFlight(s) /\ s \notin doomed \cup abandoned
      => lease[s] # NoLease

(* "Ghost entries" do not stay: a leased service whose holder has been     *)
(* silent for all the time it was granted is removed, also when the        *)
(* registry is restarted, unless the holder is heard of again or the       *)
(* revocation of the service was refused.                                  *)
SilentServiceIsRemoved ==
  \A s \in Sid :
    Leased(s) /\ owed[s] = 0 ~> ~Leased(s) \/ owed[s] > 0 \/ s \in abandoned
=============================================================================
