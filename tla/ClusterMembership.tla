------------------------- MODULE ClusterMembership -------------------------
(***************************************************************************)
(* MembershipStore: who belongs to which cluster of registries.            *)
(*                                                                         *)
(* Every node has one record of itself, and copies of the others'; the      *)
(* newer version of a record wins.  An operator adds a node to the cluster  *)
(* (set add: a join call, then the grown roster is pushed to the members),  *)
(* or removes one (set remove: a removal record, an evict call, a push).    *)
(* A node that joins another cluster leaves its old one first.  Calls are   *)
(* lost or answered too late; the sweeper connects the members, disconnects *)
(* whoever is none, and pulls newer records from each.                      *)
(***************************************************************************)
EXTENDS Integers, FiniteSets

CONSTANTS
  Node,       \* registries: numbers, for the order of versions
  Formation,  \* who may be one cluster to begin with
  Skew,       \* of each node, how far its clock is behind
  MaxOps,     \* bound: operations of operators
  MaxFaults,  \* bound: calls lost and processes that die
  MaxClock,   \* bound: of the time
  Orderly,    \* whether an operation begins when no call of an earlier one
              \* is under way any more
  Prompt      \* whether a removal is forgotten only after all have seen it

ASSUME ClusterMembershipAssumption ==
  /\ Node \subseteq Nat \ {0} /\ IsFiniteSet(Node) /\ Formation \subseteq SUBSET Node
  /\ Skew \in [Node -> Nat]
  /\ {MaxOps, MaxFaults, MaxClock} \subseteq Nat
  /\ {Orderly, Prompt} \subseteq BOOLEAN

(* The definitions whose names begin with Mutant are plausible mistakes,    *)
(* which the properties must catch.                                        *)

NoCluster == 0
Founded == MaxOps + 1
Cluster == 1 .. MaxOps + 1   \* but for the first, named for the operation that minted it
Timestamp == 0 .. MaxClock + 3 * MaxOps
Record == [cluster: Cluster \cup {NoCluster}, at: Timestamp, by: Node \cup {0}, removed: BOOLEAN]
Unknown == [cluster |-> NoCluster, at |-> 0, by |-> 0, removed |-> FALSE]
Row == [Node -> Record]
Nobody == [p \in Node |-> Unknown]
Call(type, n, p) == [type |-> type, from |-> n, to |-> p, cluster |-> NoCluster, records |-> Nobody]
NoJoin == [call |-> Call("none", 0, 0), old |-> NoCluster, left |-> {}]
Idle == [stage |-> "idle", member |-> 0, cluster |-> NoCluster, answer |-> Unknown]

VARIABLES
  roster,    \* _roster of each node, its own record included
  clock,     \* version_clock of each node
  sessions,  \* the peers each node has a session with
  adding,    \* the set_add under way at each node
  adopting,  \* the handle_join under way at each node
  disk,      \* cluster_state.json: the record of oneself, last_roster, the clock
  msgs,      \* calls under way
  up,        \* the processes that run
  now,       \* the time, in milliseconds: two versions may be made in one
  ops,       \* operations begun
  faults,    \* calls lost and processes that died
  calm,      \* no operator acts and nothing breaks any more
  lapsed     \* history: the nodes that died with a version given out and not yet saved

node == <<roster, clock, sessions, adding, adopting, disk>>
bounds == <<ops, faults, calm, lapsed>>
vars == <<roster, clock, sessions, adding, adopting, disk, msgs, up, now, ops, faults, calm, lapsed>>

Greater(x, y) == IF x > y THEN x ELSE y

(* version_newer: the later, and of two of one time that of the greater id. *)
Newer(r, s) == r.at > s.at \/ (r.at = s.at /\ r.by > s.by)

Reading(n) == Greater(now - Skew[n], 0)

MutantNextTs(n) == Reading(n)

(* next_version *)
NextTs(n) == Greater(Reading(n), clock[n] + 1)

(* next_version_after: past the record it is to supersede. *)
TsAfter(n, r) == Greater(NextTs(n), r.at + 1)

Made(n, c, ts, gone) == [cluster |-> c, at |-> ts, by |-> n, removed |-> gone]

(* What each of them has when nodes founders are a cluster already. *)
Founding(founders) ==
  [p \in Node |-> IF p \in founders THEN Made(p, Founded, 1, FALSE) ELSE Unknown]

ClusterOf(n, row) == row[n].cluster

(* desired_peers *)
Desired(n, row) ==
  {p \in Node \ {n} : ClusterOf(n, row) # NoCluster
                      /\ row[p].cluster = ClusterOf(n, row) /\ ~row[p].removed}

MutantMerged(n, row, records) ==
  [p \in Node |-> IF p # n /\ records[p] # Unknown THEN records[p] ELSE row[p]]

(* merge: the newer records, never of oneself. *)
Merged(n, row, records) ==
  [p \in Node |-> IF p # n /\ Newer(records[p], row[p]) THEN records[p] ELSE row[p]]

MutantEvicts(n, row, records) == FALSE

(* ... where a newer removal of oneself means that one has been evicted. *)
Evicts(n, row, records) == records[n].removed /\ Newer(records[n], row[n])

MutantSaved(n, row) ==
  [p \in Node |-> IF ClusterOf(n, row) # NoCluster /\ row[p].cluster = ClusterOf(n, row)
                     /\ ~row[p].removed
                  THEN row[p] ELSE Unknown]

(* _persist, and what _init_from_state makes of it. *)
Saved(n, row) ==
  [p \in Node |-> IF ClusterOf(n, row) # NoCluster /\ row[p].cluster = ClusterOf(n, row)
                  THEN row[p] ELSE Unknown]

(* reconcile_connections, with the peers that run: a session on both sides. *)
Connected(n, row, sess) ==
  IF ClusterOf(n, row) = NoCluster THEN sess
  ELSE [p \in Node |->
          IF p = n THEN Desired(n, row) \cap (sess[n] \cup up)
          ELSE IF p \in (Desired(n, row) \ sess[n]) \cap up THEN sess[p] \cup {n} ELSE sess[p]]

Without(n, gone) == [sessions EXCEPT ![n] = @ \ gone]

(* push_to_roster *)
Pushes(n, row, records) ==
  {[type |-> "sync", from |-> n, to |-> p, cluster |-> NoCluster, records |-> records] :
     p \in Desired(n, row)}

Only(p, r) == [Nobody EXCEPT ![p] = r]

(* Node n has the roster row from now on: in memory, on disk.              *)
Has(n, row, ts) ==
  /\ roster' = [roster EXCEPT ![n] = row]
  /\ clock' = [clock EXCEPT ![n] = Greater(@, ts)]
  /\ disk' = [disk EXCEPT ![n] = [roster |-> Saved(n, row), clock |-> Greater(clock[n], ts)]]

Broken == ~calm /\ faults < MaxFaults /\ faults' = faults + 1 /\ UNCHANGED <<ops, calm>>
Fault == Broken /\ UNCHANGED lapsed

Unversioned == UNCHANGED now
Versioned == now' \in {now, now + 1} \cap 1 .. MaxClock

---------------------------------------------------------------------------
(* A cluster that has formed has taken an operation. *)
Init ==
  \E founders \in Formation :
    /\ roster = [n \in Node |-> IF n \in founders THEN Founding(founders) ELSE Nobody]
    /\ clock = [n \in Node |-> IF n \in founders THEN 1 ELSE 0]
    /\ sessions = [n \in Node |-> IF n \in founders THEN founders \ {n} ELSE {}]
    /\ adding = [n \in Node |-> Idle]
    /\ adopting = [n \in Node |-> NoJoin]
    /\ disk = [n \in Node |-> [roster |-> roster[n], clock |-> clock[n]]]
    /\ msgs = {}
    /\ up = Node
    /\ now = 1
    /\ ops = IF founders = {} THEN 0 ELSE 1
    /\ faults = 0
    /\ calm = FALSE
    /\ lapsed = {}

Operate(n) ==
  /\ ~calm /\ n \in up /\ ops < MaxOps
  /\ Orderly => (msgs = {} /\ \A p \in Node : adding[p] = Idle /\ adopting[p] = NoJoin)
  /\ ops' = ops + 1
  /\ UNCHANGED <<faults, calm, lapsed>>

(* set_add of one member: a cluster is minted if there is none, and the     *)
(* member is called to join it.                                            *)
BeginAdd(n, p) ==
  LET minted == ClusterOf(n, roster[n]) = NoCluster
      own == IF minted THEN Made(n, ops + 1, NextTs(n), FALSE) ELSE roster[n][n]
      row == [roster[n] EXCEPT ![n] = own]
      live == [q \in Node |-> IF row[q].removed THEN Unknown ELSE row[q]]
  IN  /\ Operate(n) /\ n # p /\ adding[n] = Idle
      /\ IF minted THEN Versioned ELSE Unversioned
      /\ roster' = [roster EXCEPT ![n] = row]
      /\ clock' = [clock EXCEPT ![n] = IF minted THEN own.at ELSE @]
      /\ adding' = [adding EXCEPT ![n] =
           [stage |-> "joining", member |-> p, cluster |-> own.cluster, answer |-> Unknown]]
      /\ msgs' = msgs \cup {[type |-> "join", from |-> n, to |-> p,
                             cluster |-> own.cluster, records |-> live]}
      /\ UNCHANGED <<sessions, adopting, disk, up>>

(* handle_join, adopt and leave_old: the member tells its old cluster, *)
BeginJoin(m) ==
  LET p == m.to
      old == ClusterOf(p, roster[p])
      left == IF old = m.cluster THEN {} ELSE Desired(p, roster[p])
  IN  /\ m \in msgs /\ m.type = "join" /\ p \in up /\ adopting[p] = NoJoin
      /\ adopting' = [adopting EXCEPT ![p] =
           [call |-> m, old |-> IF old = m.cluster THEN NoCluster ELSE old, left |-> left]]
      /\ msgs' = (msgs \ {m}) \cup {Call("leave", p, q) : q \in left}
      /\ UNCHANGED <<roster, clock, sessions, adding, disk, up, now, bounds>>

(* then drops what it knew of it, has a new record of itself, merges the    *)
(* roster it was sent, connects and announces itself.  Its answer may be lost. *)
Adopt(p) ==
  LET j == adopting[p]
      kept == [q \in Node |-> IF j.old # NoCluster /\ q # p /\ roster[p][q].cluster = j.old
                              THEN Unknown ELSE roster[p][q]]
      own == Made(p, j.call.cluster, NextTs(p), FALSE)
      row == Merged(p, [kept EXCEPT ![p] = own], j.call.records)
      n == j.call.from
  IN  /\ j # NoJoin
      /\ Orderly => \A m \in msgs : ~(m.type = "leave" /\ m.from = p)
      /\ Versioned
      /\ Has(p, row, own.at)
      /\ sessions' = Connected(p, row, Without(p, j.left))
      /\ msgs' = msgs \cup Pushes(p, row, Only(p, own))
      /\ adopting' = [adopting EXCEPT ![p] = NoJoin]
      /\ \/ /\ adding' = [adding EXCEPT ![n] =
               IF @.stage = "joining" /\ @.member = p /\ @.cluster = j.call.cluster
               THEN [@ EXCEPT !.stage = "joined", !.answer = own] ELSE @]
            /\ UNCHANGED bounds
         \/ UNCHANGED adding /\ Fault
      /\ UNCHANGED up

(* set_add goes on, with the member's answer or without: what it stores is  *)
(* what it was answered.  The grown roster is pushed to everyone.          *)
FinishAdd(n) ==
  LET a == adding[n]
      row == IF a.stage = "joined"
             THEN [roster[n] EXCEPT ![a.member] = [a.answer EXCEPT !.cluster = a.cluster]]
             ELSE roster[n]
      gaveUp == /\ \A m \in msgs : ~(m.type = "join" /\ m.from = n)
                /\ \A p \in Node : adopting[p].call.from # n
  IN  /\ n \in up /\ a.stage # "idle"
      /\ a.stage = "joining" /\ Orderly => gaveUp
      /\ Has(n, row, 0)
      /\ sessions' = Connected(n, row, sessions)
      /\ msgs' = msgs \cup Pushes(n, row, row)
      /\ adding' = [adding EXCEPT ![n] = Idle]
      /\ UNCHANGED <<adopting, up, now, bounds>>

(* set_remove of one member. *)
SetRemove(n, p) ==
  LET gone == Made(n, ClusterOf(n, roster[n]), TsAfter(n, roster[n][p]), TRUE)
      row == [roster[n] EXCEPT ![p] = gone]
  IN  /\ Operate(n) /\ p \in Desired(n, roster[n])
      /\ Versioned
      /\ Has(n, row, gone.at)
      /\ sessions' = Without(n, {p})
      /\ msgs' = msgs \cup {Call("evict", n, p)} \cup Pushes(n, row, Only(p, gone))
      /\ UNCHANGED <<adding, adopting, up>>

Known(n) == {p \in Node : roster[n][p] # Unknown}

(* _become_standalone *)
Standalone(n) == Has(n, Nobody, 0) /\ sessions' = Without(n, Known(n))

(* handle_evicted: whoever calls, and whatever cluster it says. *)
Evicted(m) ==
  /\ m \in msgs /\ m.type = "evict" /\ m.to \in up
  /\ Standalone(m.to)
  /\ msgs' = msgs \ {m}
  /\ UNCHANGED <<adding, adopting, up, now, bounds>>

(* handle_evict_self: a member says that it leaves. *)
Leave(m) ==
  LET n == m.to
      p == m.from
      known == roster[n][p] # Unknown
      gone == Made(n, IF known THEN roster[n][p].cluster ELSE ClusterOf(n, roster[n]),
                   TsAfter(n, roster[n][p]), TRUE)
      row == [roster[n] EXCEPT ![p] = gone]
  IN  /\ m \in msgs /\ m.type = "leave" /\ n \in up
      /\ Versioned
      /\ Has(n, row, gone.at)
      /\ sessions' = Without(n, {p})
      /\ msgs' = (msgs \ {m}) \cup Pushes(n, row, Only(p, gone))
      /\ UNCHANGED <<adding, adopting, up, bounds>>

(* serve_set_sync, and merge. *)
Sync(m) ==
  /\ m \in msgs /\ m.type = "sync" /\ m.to \in up
  /\ IF Evicts(m.to, roster[m.to], m.records) THEN Standalone(m.to)
     ELSE /\ IF Merged(m.to, roster[m.to], m.records) # roster[m.to]
             THEN Has(m.to, Merged(m.to, roster[m.to], m.records), 0)
             ELSE UNCHANGED <<roster, clock, disk>>
          /\ UNCHANGED sessions
  /\ msgs' = msgs \ {m}
  /\ UNCHANGED <<adding, adopting, up, now, bounds>>

(* The newest record of each node that the peers have. *)
Newest(peers) ==
  [p \in Node |->
     LET held == {Unknown} \cup {roster[q][p] : q \in peers}
     IN  CHOOSE r \in held : \A s \in held : ~Newer(s, r)]

(* A pass of the sweeper: reconcile_connections, then reconcile_with every  *)
(* peer: what is newer there is pulled and merged.                         *)
Sweep(n) ==
  LET connected == Connected(n, roster[n], sessions)
      row == Newest(connected[n] \cap up)
  IN  /\ n \in up /\ ClusterOf(n, roster[n]) # NoCluster
      /\ IF Evicts(n, roster[n], row)
         THEN /\ Has(n, Nobody, 0)
              /\ sessions' = [connected EXCEPT ![n] = @ \ Known(n)]
         ELSE /\ IF Merged(n, roster[n], row) # roster[n]
                 THEN Has(n, Merged(n, roster[n], row), 0)
                 ELSE UNCHANGED <<roster, clock, disk>>
              /\ sessions' = connected
      /\ UNCHANGED <<adding, adopting, msgs, up, now, bounds>>

(* gc_membership, of one old removal; disk is left as it is. *)
Forget(n, p) ==
  /\ n \in up /\ roster[n][p].removed
  /\ Prompt => /\ \A q \in Node : ~Newer(roster[n][p], roster[q][p])
               /\ \A q \in Node : ~Newer(roster[n][p], disk[q].roster[p])
  /\ roster' = [roster EXCEPT ![n][p] = Unknown]
  /\ UNCHANGED <<clock, sessions, adding, adopting, disk, msgs, up, now, bounds>>

(* check_hold: a peer is silent if it is down or has no session in return.  *)
CheckHold(n, p) ==
  /\ n \in up /\ p \in sessions[n]
  /\ p \notin up \/ n \notin sessions[p]
  /\ sessions' = Without(n, {p})
  /\ UNCHANGED <<roster, clock, adding, adopting, disk, msgs, up, now, bounds>>

---------------------------------------------------------------------------
(* A call fails; one to a node that is down always does. *)
Lose(m) ==
  /\ m \in msgs
  /\ IF m.to \in up THEN Fault ELSE UNCHANGED bounds
  /\ msgs' = msgs \ {m}
  /\ UNCHANGED <<node, up, now>>

Crash(n) ==
  /\ n \in up /\ Broken
  /\ lapsed' = IF clock[n] = disk[n].clock THEN lapsed ELSE lapsed \cup {n}
  /\ up' = up \ {n}
  /\ roster' = [roster EXCEPT ![n] = Nobody]
  /\ clock' = [clock EXCEPT ![n] = 0]
  /\ sessions' = [sessions EXCEPT ![n] = {}]
  /\ adding' = [adding EXCEPT ![n] = Idle]
  /\ adopting' = [adopting EXCEPT ![n] = NoJoin]
  /\ UNCHANGED <<disk, msgs, now>>

(* _init_from_state; old removals are forgotten by Forget. *)
Restart(n) ==
  /\ n \notin up
  /\ now < MaxClock /\ now' = now + 1
  /\ up' = up \cup {n}
  /\ roster' = [roster EXCEPT ![n] = disk[n].roster]
  /\ clock' = [clock EXCEPT ![n] = Greater(disk[n].clock, disk[n].roster[n].at)]
  /\ UNCHANGED <<sessions, adding, adopting, disk, msgs, bounds>>

CalmDown ==
  /\ ~calm /\ calm' = TRUE
  /\ UNCHANGED <<node, msgs, up, now, ops, faults, lapsed>>

Next ==
  \/ \E n, p \in Node : BeginAdd(n, p) \/ SetRemove(n, p) \/ Forget(n, p) \/ CheckHold(n, p)
  \/ \E n \in Node : FinishAdd(n) \/ Adopt(n) \/ Sweep(n) \/ Crash(n) \/ Restart(n)
  \/ \E m \in msgs : BeginJoin(m) \/ Evicted(m) \/ Leave(m) \/ Sync(m) \/ Lose(m)
  \/ CalmDown

Spec == Init /\ [][Next]_vars

(* Some sweeper goes on, the handlers go on, whoever died is started again. *)
Fairness ==
  /\ WF_vars(\E n \in Node : Sweep(n))
  /\ WF_vars(\E n, p \in Node : CheckHold(n, p))
  /\ WF_vars(\/ \E n \in Node : FinishAdd(n) \/ Adopt(n) \/ Restart(n)
             \/ \E m \in msgs : BeginJoin(m) \/ Evicted(m) \/ Leave(m) \/ Sync(m) \/ Lose(m))

FairSpec == Spec /\ Fairness
---------------------------------------------------------------------------
Message ==
  [type: {"join", "evict", "leave", "sync"}, from: Node, to: Node, cluster: Cluster \cup {NoCluster},
   records: Row]

(* Every variable has its type. *)
TypeOK ==
  /\ roster \in [Node -> Row]
  /\ clock \in [Node -> Timestamp]
  /\ sessions \in [Node -> SUBSET Node] /\ \A n \in Node : n \notin sessions[n]
  /\ adding \in [Node -> [stage: {"idle", "joining", "joined"}, member: Node \cup {0},
                          cluster: Cluster \cup {NoCluster}, answer: Record]]
  /\ adopting \in [Node -> {NoJoin} \cup [call: Message, old: Cluster \cup {NoCluster}, left: SUBSET Node]]
  /\ disk \in [Node -> [roster: Row, clock: Timestamp]]
  /\ msgs \subseteq Message
  /\ up \subseteq Node
  /\ now \in 1 .. MaxClock
  /\ ops \in 0 .. MaxOps
  /\ faults \in 0 .. MaxFaults
  /\ calm \in BOOLEAN
  /\ lapsed \subseteq Node

(* Copies of a record that have the same version are the same: an exchange  *)
(* of versions alone leaves no difference unseen.  Not so those of a node    *)
(* that died between minting its record in set_add and saving its clock: it  *)
(* may give out the same version again.                                     *)
VersionTellsRecord ==
  \A n, q, p \in Node :
    LET r == roster[n][p]
        s == roster[q][p]
    IN  r # Unknown /\ s # Unknown /\ r.at = s.at /\ r.by = s.by /\ r.by \notin lapsed => r = s

(* A process that dies comes back a member of the cluster it was in, with   *)
(* the members and the removals it knew of.                                *)
RestartRemembers ==
  \A n \in up : \A p \in Node :
    LET inMemory == roster[n][p]
        onDisk == disk[n].roster[p]
    IN  adding[n] = Idle =>
          /\ onDisk # Unknown /\ ~onDisk.removed => inMemory = onDisk
          /\ inMemory.cluster # NoCluster /\ inMemory.cluster = ClusterOf(n, roster[n])
               => onDisk = inMemory

(* What others push, or have when they are asked, does not undo a removal    *)
(* but by a newer record.  A node that joins another cluster forgets, and   *)
(* set_add stores what the member answered.                                *)
RemovalHolds ==
  [][\A n, p \in Node :
       roster[n][p].removed /\ roster'[n][p] # Unknown /\ n \in up
         /\ adding'[n] = adding[n] /\ adopting'[n] = adopting[n]
         => roster'[n][p] = roster[n][p] \/ Newer(roster'[n][p], roster[n][p])]_vars

Members(n) == Desired(n, roster[n]) \cup {n}

Together(n, p) ==
  ClusterOf(n, roster[n]) # NoCluster /\ ClusterOf(n, roster[n]) = ClusterOf(p, roster[p])

Agreed == \A n, p \in Node : Together(n, p) => Members(n) = Members(p)

(* After the last operation and the last failure the members of a cluster   *)
(* agree on who they are.                                                  *)
RosterConverges == <>[](calm => Agreed)
=============================================================================
