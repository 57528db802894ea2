------------------------- MODULE ClusterReplication -------------------------
(***************************************************************************)
(* ClusterStore: the replication of one dataset's records between the      *)
(* registries of an open cluster.  A record belongs to the node it was     *)
(* registered at; the others hold copies of it in memory.                  *)
(*                                                                         *)
(* A change is committed by the registry, then stamped with a version by   *)
(* on_local_mutation, then sent to every node there is a session with.     *)
(* Sends are lost, delayed and reordered; anti-entropy repairs.  A node    *)
(* not heard of for HoldTimeout is evicted with all its records.           *)
(*                                                                         *)
(* Time passes in steps, and every time is kept as an age, so that it may   *)
(* pass for ever.                                                          *)
(***************************************************************************)
EXTENDS Integers

CONSTANTS
  Node,
  Owner,         \* bound: the nodes at which records are changed
  Sid,           \* service ids
  Value,         \* what a registration says
  None,          \* no registration
  Wall,          \* readings of the wall clock, in any order
  MaxVersion,    \* bound: of version timestamps
  LastWrite,     \* bound: a record is changed while the clock is below it
  HoldTimeout,   \* in units of time, as is
  Interval,      \* the keepalive interval
  Lag,           \* how long emit_keepalive may keep check_hold waiting
  Timed,         \* whether time passes
  Flaky          \* whether an outage may end unnoticed, an exchange break off,
                 \* and a pass of anti-entropy take long

ASSUME ClusterReplicationAssumption ==
  /\ Owner \subseteq Node
  /\ Wall \subseteq Nat
  /\ {MaxVersion, LastWrite, HoldTimeout, Interval, Lag} \subseteq Nat
  /\ None \notin Value /\ None \notin Node
  /\ {Timed, Flaky} \subseteq BOOLEAN

Key == Node \X Sid           \* <<origin, service id>>
Origin(k) == k[1]
Version == 1 .. MaxVersion

(* The definitions whose names begin with Mutant are plausible mistakes,    *)
(* which the properties must catch.                                        *)
MutantRetention == HoldTimeout

Retention == HoldTimeout + Interval

NoEnv == [version |-> 0, tombstone |-> FALSE, value |-> None]
Envelope == [version: Version, tombstone: BOOLEAN, value: Value \cup {None}]
NoStamp == [version |-> 0, tombstone |-> FALSE]
Write == [version: Version, tombstone: BOOLEAN]
NoSession == -1
NotSweeping == {None}

VARIABLES
  registry,    \* of each record, what its origin's registry says
  stamp,       \* local_versions and tombstones of its origin, on disk
  clock,       \* version_clock of each node, on disk
  hook,        \* the call of on_local_mutation that is to come
  foreign,     \* _foreign of each node
  silence,     \* _sessions: for how long the peer has not been heard of
  suppressed,  \* _evicted_until: for how long yet the peer's records are refused
  sweep,       \* the peers the anti-entropy pass of a node has yet to reach
  up,          \* the processes that run
  cut,         \* the pairs of nodes that do not reach one another
  msgs,        \* envelopes on their way
  calm,        \* nothing is changed, lost or broken any more
  age,         \* how long ago a version was stamped
  published,   \* history: the versions a record has had
  torn         \* history: records changed by a process that died unstamped

local == <<registry, stamp, clock, hook>>
time == <<age, suppressed, silence>>
world == <<up, cut, calm>>
vars == <<registry, stamp, clock, hook, foreign, silence, suppressed, sweep,
          up, cut, msgs, calm, age, published, torn>>

Session(n, p) == silence[n][p] # NoSession
Peers(n) == {p \in Node : Session(n, p)}
Reach(n, p) == n # p /\ {n, p} \subseteq up /\ {n, p} \notin cut

---------------------------------------------------------------------------
(* Versions.                                                               *)

MutantNextTs(n, now) == IF now > clock[n] THEN now ELSE clock[n]

(* _next_ts: past every version so far, though the wall clock step back. *)
NextTs(n, now) == IF now > clock[n] + 1 THEN now ELSE clock[n] + 1

MutantNewer(a, b) == TRUE

(* version_newer.  All versions of a record come from one node, so their    *)
(* timestamps decide; NoEnv has the version 0.                             *)
Newer(a, b) == a.version > b.version

(* _build_local_envelope: the version under the lock, the entry without.    *)
LocalEnvelope(k) ==
  IF stamp[k].tombstone THEN [version |-> stamp[k].version, tombstone |-> TRUE, value |-> None]
  ELSE IF stamp[k] # NoStamp /\ registry[k] # None
  THEN [version |-> stamp[k].version, tombstone |-> FALSE, value |-> registry[k]]
  ELSE NoEnv

(* _build_envelope_for_key; its version is what _full_index says of k. *)
Held(n, k) == IF Origin(k) = n THEN LocalEnvelope(k) ELSE foreign[n][k]

MutantApply(n, k, env, refused) ==
  IF Origin(k) # n /\ Newer(env, foreign[n][k]) THEN env ELSE foreign[n][k]

(* apply_inbound: what node n holds of k when it has been sent env, while   *)
(* it refuses the records of some.                                         *)
Apply(n, k, env, refused) ==
  IF Origin(k) # n /\ Origin(k) \notin refused /\ Newer(env, foreign[n][k])
  THEN env ELSE foreign[n][k]

Refused(n) == {p \in Node : suppressed[n][p] > 0}

(* A stamp is put on k: on disk, and in the history. *)
Stamped(k, w) ==
  /\ w.version \in Version
  /\ stamp' = [stamp EXCEPT ![k] = w]
  /\ clock' = [clock EXCEPT ![Origin(k)] = w.version]
  /\ published' = [published EXCEPT ![k] = @ \cup {w}]
  /\ torn' = torn \ {k}

---------------------------------------------------------------------------
(* No record, no session: the nodes have just been given their cluster. *)
Init ==
  /\ registry = [k \in Key |-> None]
  /\ stamp = [k \in Key |-> NoStamp]
  /\ clock = [n \in Node |-> 0]
  /\ hook = [k \in Key |-> "none"]
  /\ foreign = [n \in Node |-> [k \in Key |-> NoEnv]]
  /\ silence = [n \in Node |-> [p \in Node |-> NoSession]]
  /\ suppressed = [n \in Node |-> [p \in Node |-> 0]]
  /\ sweep = [n \in Node |-> NotSweeping]
  /\ up = Node
  /\ cut = {}
  /\ msgs = {}
  /\ calm = FALSE
  /\ age = [k \in Key |-> [v \in Version |-> 0]]
  /\ published = [k \in Key |-> {}]
  /\ torn = {}

(* The registry commits a registration, an update or a deregistration; one  *)
(* handler at a time changes a record.                                     *)
Mutate(k, value) ==
  /\ ~calm /\ Origin(k) \in up \cap Owner
  /\ hook[k] = "none" /\ clock[Origin(k)] < LastWrite
  /\ registry[k] # value
  /\ registry' = [registry EXCEPT ![k] = value]
  /\ hook' = [hook EXCEPT ![k] = IF value = None THEN "deregister" ELSE "update"]
  /\ UNCHANGED <<stamp, clock, foreign, silence, suppressed, sweep, up, cut, msgs,
                 calm, age, published, torn>>

(* on_local_mutation: stamps the record, saves the state, and sends the     *)
(* envelope to every peer.                                                 *)
OnLocalMutation(k, now) ==
  LET n == Origin(k)
      w == [version |-> NextTs(n, now), tombstone |-> hook[k] = "deregister"]
      env == [version |-> w.version, tombstone |-> w.tombstone, value |-> registry[k]]
  IN  /\ n \in up /\ hook[k] # "none"
      /\ Stamped(k, w)
      /\ hook' = [hook EXCEPT ![k] = "none"]
      /\ msgs' = msgs \cup {[from |-> n, to |-> p, key |-> k, env |-> env] :
                         p \in {q \in Peers(n) : Reach(n, q)}}
      /\ UNCHANGED <<registry, foreign, sweep, world, time>>

(* _ensure_local_versions: an entry that has neither a version nor a        *)
(* tombstone is given a version.                                           *)
Unversioned(k) == registry[k] # None /\ stamp[k] = NoStamp

EnsureLocalVersions(k, now) ==
  /\ Origin(k) \in up /\ Unversioned(k)
  /\ Stamped(k, [version |-> NextTs(Origin(k), now), tombstone |-> FALSE])
  /\ UNCHANGED <<registry, hook, foreign, sweep, msgs, world, time>>

(* Whoever is to send or to compare an index has seen to that first. *)
Ensured(n) == \A k \in Key : Origin(k) = n => ~Unversioned(k)

---------------------------------------------------------------------------
(* Exchanges between two nodes.  They are complete if all is steady, and an  *)
(* outage has been noticed by both before it ends, unless it is flaky.      *)
Steady == calm \/ ~Flaky

Noticed(n, p) == ~Session(n, p) /\ p \notin sweep[n]

(* _touch_peer of node p, when it is called by n. *)
Touched(p, n) == [silence EXCEPT ![p][n] = IF Session(p, n) THEN 0 ELSE @]

(* serve_updates, of one envelope. *)
ServeUpdates(m) ==
  /\ m \in msgs /\ Reach(m.from, m.to)
  /\ msgs' = msgs \ {m}
  /\ silence' = Touched(m.to, m.from)
  /\ foreign' = [foreign EXCEPT ![m.to][m.key] = Apply(m.to, m.key, m.env, Refused(m.to))]
  /\ UNCHANGED <<local, suppressed, sweep, world, age, published, torn>>

(* A call that fails is not made again: fan_out. *)
Lose(m) ==
  /\ m \in msgs
  /\ ~calm \/ ~Reach(m.from, m.to)
  /\ msgs' = msgs \ {m}
  /\ UNCHANGED <<local, foreign, sweep, world, time, published, torn>>

(* The records p has a newer version of than n: those of the buckets whose  *)
(* hashes differ are compared, and buckets of one hash hold one version.   *)
NewerAt(p, n) == {k \in Key : Newer(Held(p, k), Held(n, k))}

(* reconcile of node n with p, when they refuse the records of some: n       *)
(* pulls what is newer at p, then pushes what is newer at n, unless that    *)
(* call is lost.  An envelope is applied if it is newer still, so the calls *)
(* of one exchange count as one step.                                      *)
Exchanged(n, p, byN, byP, pushes) ==
  [foreign EXCEPT
     ![n] = [k \in Key |-> IF k \in NewerAt(p, n)
                           THEN Apply(n, k, Held(p, k), byN) ELSE @[k]],
     ![p] = [k \in Key |-> IF pushes /\ k \in NewerAt(n, p)
                           THEN Apply(p, k, Held(n, k), byP) ELSE @[k]]]

MutantOpened(n, p, both) ==
  /\ silence' = [silence EXCEPT ![p][n] = 0, ![n][p] = IF both THEN 0 ELSE @]
  /\ UNCHANGED suppressed

(* connect_peer and handle_open: a session on both sides, and what each had  *)
(* against the other is lifted; then n reconciles.  The answer to the call, *)
(* and later calls, may be lost: then p alone has a session, or both have   *)
(* and nothing is exchanged.                                               *)
Opened(n, p, both) ==
  /\ silence' = [silence EXCEPT ![p][n] = 0, ![n][p] = IF both THEN 0 ELSE @]
  /\ suppressed' = [suppressed EXCEPT ![p][n] = 0, ![n][p] = IF both THEN 0 ELSE @]

ConnectPeer(n, p) ==
  /\ Reach(n, p) /\ Ensured(n) /\ Ensured(p)
  /\ ~Session(n, p)
  /\ Flaky \/ (Noticed(n, p) /\ Noticed(p, n))
  /\ Opened(n, p, TRUE)
  /\ \E pushes \in {TRUE, Steady} :
       foreign' = Exchanged(n, p, Refused(n) \ {p}, Refused(p) \ {n}, pushes)
  /\ UNCHANGED <<local, sweep, msgs, world, age, published, torn>>

ConnectPeerFails(n, p) ==
  /\ ~Steady /\ Reach(n, p) /\ ~Session(n, p)
  /\ \E both \in BOOLEAN : Opened(n, p, both)
  /\ UNCHANGED <<local, foreign, sweep, msgs, world, age, published, torn>>

(* AntiEntropySweeper.tick: one peer after the other, *)
StartSweep(n) ==
  /\ n \in up /\ sweep[n] = NotSweeping
  /\ sweep' = [sweep EXCEPT ![n] = Peers(n)]
  /\ UNCHANGED <<local, foreign, msgs, world, time, published, torn>>

Sweeping(n, p) == p \in sweep[n]

Reconcile(n, p) ==
  /\ Sweeping(n, p)
  /\ Reach(n, p) /\ Ensured(n) /\ Ensured(p)
  /\ \E pushes \in {TRUE, Steady} :
       foreign' = Exchanged(n, p, Refused(n), Refused(p), pushes)
  /\ silence' = Touched(p, n)
  /\ sweep' = [sweep EXCEPT ![n] = @ \ {p}]
  /\ UNCHANGED <<local, suppressed, msgs, world, age, published, torn>>

ReconcileFails(n, p) ==
  /\ Sweeping(n, p)
  /\ ~Steady \/ ~Reach(n, p)
  /\ sweep' = [sweep EXCEPT ![n] = @ \ {p}]
  /\ UNCHANGED <<local, foreign, msgs, world, time, published, torn>>

Expired(k, w) == w.tombstone /\ age[k][w.version] > Retention

(* then gc_tombstones, of the node's own and of those it holds.            *)
GcTombstones(n) ==
  /\ n \in up /\ sweep[n] = {}
  /\ stamp' = [k \in Key |-> IF Origin(k) = n /\ Expired(k, stamp[k])
                             THEN NoStamp ELSE stamp[k]]
  /\ foreign' = [foreign EXCEPT ![n] =
       [k \in Key |-> IF Expired(k, @[k]) THEN NoEnv ELSE @[k]]]
  /\ sweep' = [sweep EXCEPT ![n] = NotSweeping]
  /\ UNCHANGED <<registry, clock, hook, msgs, world, time, published, torn>>

---------------------------------------------------------------------------
(* Liveness of peers.                                                      *)

(* disconnect_peer of some: their sessions and records go, and for a while  *)
(* nobody brings the records back.                                         *)
Evict(n, gone) ==
  /\ silence' = [silence EXCEPT ![n] = [p \in Node |-> IF p \in gone THEN NoSession ELSE @[p]]]
  /\ foreign' = [foreign EXCEPT ![n] = [k \in Key |-> IF Origin(k) \in gone THEN NoEnv ELSE @[k]]]
  /\ suppressed' = [suppressed EXCEPT ![n] =
       [p \in Node |-> IF p \in gone THEN Retention ELSE @[p]]]

(* DELETE /peers/{node_id}. *)
RemovePeer(n, p) ==
  /\ ~calm /\ n \in up /\ Session(n, p)
  /\ Evict(n, {p})
  /\ UNCHANGED <<local, sweep, msgs, world, age, published, torn>>

(* emit_keepalive and handle_keepalive, of the peers within reach.         *)
EmitKeepalive(n) ==
  /\ silence' = [p \in Node |-> [silence[p] EXCEPT ![n] =
       IF Session(n, p) /\ Reach(n, p) /\ Session(p, n) THEN 0 ELSE @]]
  /\ silence' # silence
  /\ UNCHANGED <<local, foreign, suppressed, sweep, msgs, world, age, published, torn>>

Stale(n) == {p \in Peers(n) : silence[n][p] > HoldTimeout}

CheckHold(n) ==
  /\ n \in up /\ Stale(n) # {}
  /\ Evict(n, Stale(n))
  /\ UNCHANGED <<local, sweep, msgs, world, age, published, torn>>

(* Time passes: not as far as to an Interval after the last look of a       *)
(* KeepaliveMonitor, and its Lag.  A peer that reaches it is not silent for *)
(* so long.  A call is over or given up by then, http_timeout being shorter.*)
Due(n, p) ==
  /\ n \in up /\ Session(n, p)
  /\ silence[n][p] + 1 >=
       Interval + Lag + IF Reach(n, p) /\ Session(p, n) THEN 0 ELSE HoldTimeout

Tick ==
  /\ Timed /\ msgs = {}
  /\ \A n, p \in Node : ~Due(n, p)
  /\ \A n \in up : Flaky \/ sweep[n] = NotSweeping
  /\ silence' = [n \in Node |-> [p \in Node |->
       IF Session(n, p) THEN silence[n][p] + 1 ELSE NoSession]]
  /\ suppressed' = [n \in Node |-> [p \in Node |->
       IF suppressed[n][p] > 0 THEN suppressed[n][p] - 1 ELSE 0]]
  /\ age' = [k \in Key |-> [v \in Version |->
       IF [version |-> v, tombstone |-> TRUE] \in published[k] /\ age[k][v] <= Retention
       THEN age[k][v] + 1 ELSE age[k][v]]]
  /\ UNCHANGED <<local, foreign, sweep, msgs, world, published, torn>>

---------------------------------------------------------------------------
(* What breaks.                                                            *)

(* A process dies: what it held in memory is gone.  A record it had changed *)
(* and not stamped is announced by what it was before, unless it is new.   *)
Crash(n) ==
  /\ ~calm /\ n \in up
  /\ up' = up \ {n}
  /\ foreign' = [foreign EXCEPT ![n] = [k \in Key |-> NoEnv]]
  /\ silence' = [silence EXCEPT ![n] = [p \in Node |-> NoSession]]
  /\ suppressed' = [suppressed EXCEPT ![n] = [p \in Node |-> 0]]
  /\ sweep' = [sweep EXCEPT ![n] = NotSweeping]
  /\ hook' = [k \in Key |-> IF Origin(k) = n THEN "none" ELSE hook[k]]
  /\ torn' = torn \cup {k \in Key : Origin(k) = n /\ hook[k] # "none" /\ stamp[k] # NoStamp}
  /\ msgs' = {m \in msgs : m.to # n}
  /\ UNCHANGED <<registry, stamp, clock, cut, calm, age, published>>

Restart(n) ==
  /\ n \notin up
  /\ Flaky \/ \A p \in Node : Noticed(p, n)
  /\ up' = up \cup {n}
  /\ UNCHANGED <<local, foreign, sweep, cut, msgs, calm, time, published, torn>>

Cut(n, p) ==
  /\ ~calm /\ Reach(n, p)
  /\ cut' = cut \cup {{n, p}}
  /\ UNCHANGED <<local, foreign, sweep, up, msgs, calm, time, published, torn>>

Heal(n, p) ==
  /\ {n, p} \in cut
  /\ Flaky \/ (Noticed(n, p) /\ Noticed(p, n))
  /\ cut' = cut \ {{n, p}}
  /\ UNCHANGED <<local, foreign, sweep, up, msgs, calm, time, published, torn>>

CalmDown ==
  /\ calm' = TRUE
  /\ UNCHANGED <<local, foreign, sweep, up, cut, msgs, time, published, torn>>

Next ==
  \/ \E k \in Key :
       \/ \E value \in Value \cup {None} : Mutate(k, value)
       \/ \E now \in Wall : OnLocalMutation(k, now) \/ EnsureLocalVersions(k, now)
  \/ \E m \in msgs : ServeUpdates(m) \/ Lose(m)
  \/ \E n, p \in Node :
       \/ ConnectPeer(n, p) \/ ConnectPeerFails(n, p)
       \/ Reconcile(n, p) \/ ReconcileFails(n, p)
       \/ RemovePeer(n, p) \/ Cut(n, p) \/ Heal(n, p)
  \/ \E n \in Node :
       \/ StartSweep(n) \/ GcTombstones(n)
       \/ EmitKeepalive(n) \/ CheckHold(n)
       \/ Crash(n) \/ Restart(n)
  \/ Tick
  \/ CalmDown

(* The daemons run on, the roster brings every session back, and a call is  *)
(* answered if nothing is lost.  Nothing makes a process start again or a   *)
(* link heal.                                                              *)
Fairness ==
  /\ \A k \in Key :
       /\ WF_vars(\E now \in Wall : OnLocalMutation(k, now))
       /\ WF_vars(\E now \in Wall : EnsureLocalVersions(k, now))
  /\ \A n, p \in Node :
       WF_vars(ConnectPeer(n, p)) /\ WF_vars(Reconcile(n, p) \/ ReconcileFails(n, p))
  /\ \A n \in Node :
       /\ WF_vars(StartSweep(n)) /\ WF_vars(GcTombstones(n))
       /\ WF_vars(EmitKeepalive(n)) /\ WF_vars(CheckHold(n))
  /\ WF_vars(\E m \in msgs : ServeUpdates(m) \/ Lose(m))
  /\ WF_vars(Tick)

Spec == Init /\ [][Next]_vars

FairSpec == Spec /\ Fairness
---------------------------------------------------------------------------
(* Every variable has its type. *)
TypeOK ==
  /\ registry \in [Key -> Value \cup {None}]
  /\ stamp \in [Key -> Write \cup {NoStamp}]
  /\ clock \in [Node -> 0 .. MaxVersion]
  /\ hook \in [Key -> {"none", "update", "deregister"}]
  /\ foreign \in [Node -> [Key -> Envelope \cup {NoEnv}]]
  /\ silence \in [Node -> [Node -> {NoSession} \cup 0 .. Retention]]
  /\ suppressed \in [Node -> [Node -> 0 .. Retention]]
  /\ sweep \in [Node -> {NotSweeping} \cup SUBSET Node]
  /\ up \subseteq Node
  /\ cut \subseteq SUBSET Node
  /\ msgs \subseteq [from: Node, to: Node, key: Key, env: Envelope]
  /\ calm \in BOOLEAN
  /\ age \in [Key -> [Version -> 0 .. Retention + 1]]
  /\ published \in [Key -> SUBSET Write]
  /\ torn \subseteq Key

(* What a copy says is what the record's origin says, when they have the    *)
(* same version: an exchange that finds equal versions leaves nothing out.  *)
VersionTellsContent ==
  \A n \in Node, k \in Key :
    foreign[n][k] # NoEnv /\ foreign[n][k].version = stamp[k].version
        /\ hook[k] = "none" /\ k \notin torn
      => foreign[n][k].value = registry[k]

(* store.py, disconnect_peer: "the cooldown stops anti-entropy from           *)
(* re-pulling them from another node that hasn't evicted yet".  No envelope  *)
(* of an evicted node's records takes effect until the node is back or the   *)
(* cooldown is over, whoever sent it and however late it comes.              *)
EvictedStayGone ==
  \A n \in Node, k \in Key : suppressed[n][Origin(k)] > 0 => foreign[n][k] = NoEnv

Visible(n, k) == foreign[n][k].value

Connected(n, p) == Reach(n, p) /\ Session(n, p) /\ Session(p, n)

(* gc_tombstones: "GC can't cause a resurrection".  When the origin has      *)
(* forgotten that it deleted a record, no node connected with it shows the  *)
(* record: none would ever be told.  So it is between two nodes; a copy      *)
(* that a third node relayed is not evicted with its origin (README).       *)
GcIsSafe ==
  \A n \in Node, k \in Key :
    Connected(n, Origin(k)) /\ stamp[k] = NoStamp /\ registry[k] = None
      => Visible(n, k) = None

Converged ==
  \A n \in up, k \in Key \ torn : Reach(n, Origin(k)) => Visible(n, k) = registry[k]

(* cluster_design.md: eventual consistency.  Once nothing is changed or     *)
(* lost any more, everyone shows of a record what its origin says, if it    *)
(* reaches the origin.                                                     *)
EventuallyConverged == <>[](calm => Converged)

(* The records are replicated as ClusterRegister says. *)
CopyOf(env) == [version |-> env.version, tombstone |-> env.tombstone]

Register ==
  INSTANCE ClusterRegister WITH
    NoCopy <- NoStamp,
    copy <- [n \in Node |-> [k \in Key |-> CopyOf(foreign[n][k])]]

Replicates == Register!Spec
=============================================================================
