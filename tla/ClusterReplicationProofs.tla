---------------------- MODULE ClusterReplicationProofs ----------------------
(***************************************************************************)
(* Proof that the replication of records implements ClusterRegister, for   *)
(* every set of nodes and services, any wall clock and any bounds, with     *)
(* outages noticed or not; and that between two nodes the collection of      *)
(* tombstones brings nothing back.                                         *)
(***************************************************************************)
EXTENDS ClusterReplication, TLAPS

USE ClusterReplicationAssumption DEF ClusterReplicationAssumption

AnyEnv == [version: Nat, tombstone: BOOLEAN, value: Value \cup {None}]

Typed ==
  /\ registry \in [Key -> Value \cup {None}]
  /\ stamp \in [Key -> Write \cup {NoStamp}]
  /\ clock \in [Node -> Nat]
  /\ foreign \in [Node -> [Key -> AnyEnv]]
  /\ published \in [Key -> SUBSET Write]

(* An envelope says nothing, or what the record's origin has written. *)
Written(k, env) == env = NoEnv \/ CopyOf(env) \in published[k]

(* No write is newer than the clock of its origin. *)
ClockAhead ==
  \A k \in Key : \A w \in published[k] : w.version <= clock[Origin(k)]

StampIsWrite == \A k \in Key : stamp[k] = NoStamp \/ stamp[k] \in published[k]

CopyIsWrite == \A n \in Node, k \in Key : Written(k, foreign[n][k])

MessageIsWrite ==
  \A m \in msgs :
    m.to \in Node /\ m.key \in Key /\ m.env \in AnyEnv /\ Written(m.key, m.env)

IInv == Typed /\ ClockAhead /\ StampIsWrite /\ CopyIsWrite /\ MessageIsWrite

(* What a step does with one record at its origin, and with one copy. *)
Publishes(k) ==
  \/ published'[k] = published[k]
  \/ \E w \in Write : /\ \A x \in published[k] : w.version > x.version
                      /\ published'[k] = published[k] \cup {w}

MovesTo(n, k, env) ==
  \/ env = foreign[n][k]
  \/ env = NoEnv
  \/ CopyOf(env) \in published[k] /\ Newer(env, foreign[n][k])

Good ==
  /\ IInv'
  /\ \A k \in Key : Publishes(k)
  /\ \A n \in Node, k \in Key : MovesTo(n, k, foreign'[n][k])

-----------------------------------------------------------------------------
LEMMA KeyParts ==
  ASSUME NEW k \in Key
  PROVE  Origin(k) \in Node
BY DEF Key, Origin

LEMMA VersionIsNat ==
  ASSUME NEW w \in Write \cup {NoStamp}
  PROVE  w.version \in Nat /\ w.tombstone \in BOOLEAN
<1>1. MaxVersion \in Nat
  OBVIOUS
<1>2. CASE w \in Write
  BY <1>1, <1>2 DEF Write, Version
<1>3. CASE w = NoStamp
  BY <1>3 DEF NoStamp
<1>. QED BY <1>2, <1>3

LEMMA SameParts ==
  ASSUME NEW w \in Write, NEW env, env.version = w.version, env.tombstone = w.tombstone
  PROVE  CopyOf(env) = w
<1>1. w = [version |-> w.version, tombstone |-> w.tombstone]
  BY DEF Write
<1>. QED BY <1>1 DEF CopyOf

LEMMA NoEnvIsEnv == NoEnv \in AnyEnv /\ NoEnv.version = 0
BY DEF NoEnv, AnyEnv

(* What a node shows of a record is nothing, or a write. *)
LEMMA HeldIsWritten ==
  ASSUME IInv, NEW p \in Node, NEW k \in Key
  PROVE  Held(p, k) \in AnyEnv /\ Written(k, Held(p, k))
<1>1. CASE Origin(k) # p
  BY <1>1 DEF IInv, Typed, CopyIsWrite, Held
<1>2. CASE Origin(k) = p
  <2>1. Held(p, k) = LocalEnvelope(k)
    BY <1>2 DEF Held
  <2>2. registry[k] \in Value \cup {None} /\ stamp[k] \in Write \cup {NoStamp}
    BY DEF IInv, Typed
  <2>3. stamp[k].version \in Nat /\ stamp[k].tombstone \in BOOLEAN
    BY <2>2, VersionIsNat
  <2>4. CASE stamp[k].tombstone
    <3>1. stamp[k] # NoStamp
      BY <2>4 DEF NoStamp
    <3>2. stamp[k] \in Write /\ stamp[k] \in published[k]
      BY <2>2, <3>1 DEF IInv, StampIsWrite
    <3>3. LocalEnvelope(k) = [version |-> stamp[k].version, tombstone |-> TRUE, value |-> None]
      BY <2>4 DEF LocalEnvelope
    <3>4. LocalEnvelope(k).version = stamp[k].version /\ LocalEnvelope(k).tombstone = TRUE
      BY <3>3
    <3>5. stamp[k].tombstone = TRUE
      BY <2>3, <2>4
    <3>6. CopyOf(LocalEnvelope(k)) = stamp[k]
      BY <3>2, <3>4, <3>5, SameParts
    <3>. QED BY <2>1, <2>3, <3>2, <3>3, <3>6 DEF AnyEnv, Written
  <2>5. CASE ~stamp[k].tombstone /\ stamp[k] # NoStamp /\ registry[k] # None
    <3>2. stamp[k] \in Write /\ stamp[k] \in published[k]
      BY <2>2, <2>5 DEF IInv, StampIsWrite
    <3>3. LocalEnvelope(k) =
            [version |-> stamp[k].version, tombstone |-> FALSE, value |-> registry[k]]
      BY <2>5 DEF LocalEnvelope
    <3>4. LocalEnvelope(k).version = stamp[k].version /\ LocalEnvelope(k).tombstone = FALSE
      BY <3>3
    <3>5. stamp[k].tombstone = FALSE
      BY <2>3, <2>5
    <3>6. CopyOf(LocalEnvelope(k)) = stamp[k]
      BY <3>2, <3>4, <3>5, SameParts
    <3>. QED BY <2>1, <2>2, <2>3, <3>2, <3>3, <3>6 DEF AnyEnv, Written
  <2>6. CASE ~stamp[k].tombstone /\ ~(stamp[k] # NoStamp /\ registry[k] # None)
    BY <2>1, <2>6, NoEnvIsEnv DEF LocalEnvelope, Written
  <2>. QED BY <2>4, <2>5, <2>6
<1>. QED BY <1>1, <1>2

(* A node that is sent an envelope keeps what it has, or takes a newer write. *)
LEMMA AppliedMoves ==
  ASSUME IInv, NEW n \in Node, NEW k \in Key, NEW env \in AnyEnv, Written(k, env), NEW refused
  PROVE  Apply(n, k, env, refused) \in AnyEnv /\ MovesTo(n, k, Apply(n, k, env, refused))
<1>1. foreign[n][k] \in AnyEnv
  BY DEF IInv, Typed
<1>2. CASE Apply(n, k, env, refused) = foreign[n][k]
  BY <1>1, <1>2 DEF MovesTo
<1>3. CASE Apply(n, k, env, refused) = env /\ Newer(env, foreign[n][k])
  <2>1. env.version > foreign[n][k].version /\ foreign[n][k].version \in Nat
    BY <1>1, <1>3 DEF Newer, AnyEnv
  <2>2. env # NoEnv
    BY <2>1, NoEnvIsEnv
  <2>. QED BY <1>3, <2>2 DEF Written, MovesTo
<1>. QED BY <1>2, <1>3 DEF Apply

(* A step that writes nothing, and takes messages from the wire, is good if  *)
(* it moves every copy as it may.                                          *)
LEMMA CopiesMove ==
  ASSUME IInv,
         UNCHANGED <<clock, published>>,
         registry' \in [Key -> Value \cup {None}],
         stamp' \in [Key -> Write \cup {NoStamp}],
         \A k \in Key : stamp'[k] \in {stamp[k], NoStamp},
         foreign' \in [Node -> [Key -> AnyEnv]],
         \A n \in Node, k \in Key : MovesTo(n, k, foreign'[n][k]),
         msgs' \subseteq msgs
  PROVE  Good
<1>1. Typed'
  BY DEF IInv, Typed
<1>2. ClockAhead' /\ StampIsWrite'
  BY DEF IInv, ClockAhead, StampIsWrite
<1>3. ASSUME NEW n \in Node, NEW k \in Key
      PROVE  foreign'[n][k] = NoEnv \/ CopyOf(foreign'[n][k]) \in published[k]
  <2>1. foreign[n][k] = NoEnv \/ CopyOf(foreign[n][k]) \in published[k]
    BY DEF IInv, CopyIsWrite, Written
  <2>2. MovesTo(n, k, foreign'[n][k])
    OBVIOUS
  <2>. QED BY <2>1, <2>2 DEF MovesTo
<1>4. CopyIsWrite'
  BY <1>3 DEF CopyIsWrite, Written
<1>5. MessageIsWrite'
  BY DEF IInv, MessageIsWrite, Written
<1>6. \A k \in Key : Publishes(k)
  BY DEF Publishes
<1>. QED BY <1>1, <1>2, <1>4, <1>5, <1>6 DEF Good, IInv

LEMMA NothingMoves ==
  ASSUME IInv,
         UNCHANGED <<stamp, clock, published, foreign>>,
         registry' \in [Key -> Value \cup {None}],
         msgs' \subseteq msgs
  PROVE  Good
<1>1. \A n \in Node, k \in Key : MovesTo(n, k, foreign'[n][k])
  BY DEF MovesTo
<1>2. foreign' \in [Node -> [Key -> AnyEnv]] /\ stamp' \in [Key -> Write \cup {NoStamp}]
      /\ \A k \in Key : stamp'[k] \in {stamp[k], NoStamp}
  BY DEF IInv, Typed
<1>. QED BY <1>1, <1>2, CopiesMove

-----------------------------------------------------------------------------
(* A stamp: past every write so far, for the clock is. *)
LEMMA StampIsNewest ==
  ASSUME IInv, NEW k \in Key, NEW now \in Wall
  PROVE  /\ NextTs(Origin(k), now) \in Nat
         /\ NextTs(Origin(k), now) > clock[Origin(k)]
         /\ \A x \in published[k] : NextTs(Origin(k), now) > x.version
<1>1. clock[Origin(k)] \in Nat /\ now \in Nat
  BY KeyParts DEF IInv, Typed
<1>2. NextTs(Origin(k), now) \in Nat /\ NextTs(Origin(k), now) > clock[Origin(k)]
  BY <1>1 DEF NextTs
<1>3. ASSUME NEW x \in published[k]
      PROVE  x.version \in Nat /\ x.version <= clock[Origin(k)]
  <2>1. x \in Write
    BY DEF IInv, Typed
  <2>. QED BY <2>1, VersionIsNat DEF IInv, ClockAhead
<1>. QED BY <1>1, <1>2, <1>3

LEMMA StampedStep ==
  ASSUME IInv, NEW k \in Key, NEW now \in Wall, NEW w,
         w.version = NextTs(Origin(k), now), w.tombstone \in BOOLEAN,
         w = [version |-> w.version, tombstone |-> w.tombstone],
         Stamped(k, w), UNCHANGED <<registry, foreign>>,
         \A m \in msgs' \ msgs :
           m.to \in Node /\ m.key = k /\ m.env \in AnyEnv /\ CopyOf(m.env) = w
  PROVE  Good
<1>1. w \in Write
  BY DEF Stamped, Write
<1>2. /\ stamp' = [stamp EXCEPT ![k] = w]
      /\ clock' = [clock EXCEPT ![Origin(k)] = w.version]
      /\ published' = [published EXCEPT ![k] = @ \cup {w}]
  BY DEF Stamped
<1>3. Origin(k) \in Node /\ clock[Origin(k)] \in Nat /\ w.version \in Nat
      /\ w.version > clock[Origin(k)] /\ \A x \in published[k] : w.version > x.version
  BY KeyParts, StampIsNewest DEF IInv, Typed
<1>4. Typed'
  BY <1>1, <1>2, <1>3 DEF IInv, Typed
<1>5. published'[k] = published[k] \cup {w} /\ \A j \in Key : published[j] \subseteq published'[j]
  BY <1>2 DEF IInv, Typed
<1>6. ClockAhead'
  <2>. SUFFICES ASSUME NEW j \in Key, NEW x \in published'[j]
                PROVE  x.version <= clock'[Origin(j)]
    BY DEF ClockAhead
  <2>1. Origin(j) \in Node /\ clock[Origin(j)] \in Nat /\ clock'[Origin(j)] \in Nat
        /\ clock'[Origin(j)] >= clock[Origin(j)]
    BY KeyParts, <1>2, <1>3 DEF IInv, Typed
  <2>2. CASE x \in published[j]
    <3>1. x \in Write
      BY <2>2 DEF IInv, Typed
    <3>2. x.version \in Nat /\ x.version <= clock[Origin(j)]
      BY <2>2, <3>1, VersionIsNat DEF IInv, ClockAhead
    <3>. QED BY <2>1, <3>2
  <2>3. CASE x \notin published[j]
    <3>1. j = k /\ x = w
      BY <1>2, <2>3 DEF IInv, Typed
    <3>. QED BY <1>2, <1>3, <3>1 DEF IInv, Typed
  <2>. QED BY <2>2, <2>3
<1>7. StampIsWrite'
  BY <1>2, <1>5 DEF IInv, Typed, StampIsWrite
<1>8. CopyIsWrite'
  BY <1>5 DEF IInv, CopyIsWrite, Written
<1>9. MessageIsWrite'
  <2>. SUFFICES ASSUME NEW m \in msgs'
                PROVE  m.to \in Node /\ m.key \in Key /\ m.env \in AnyEnv
                       /\ Written(m.key, m.env)'
    BY DEF MessageIsWrite
  <2>1. CASE m \in msgs
    BY <1>5, <2>1 DEF IInv, MessageIsWrite, Written
  <2>2. CASE m \notin msgs
    BY <1>5, <2>2 DEF Written
  <2>. QED BY <2>1, <2>2
<1>10. ASSUME NEW j \in Key
       PROVE  Publishes(j)
  <2>1. CASE j = k
    BY <1>1, <1>3, <1>5, <2>1 DEF Publishes
  <2>2. CASE j # k
    BY <1>2, <2>2 DEF Publishes, IInv, Typed
  <2>. QED BY <2>1, <2>2
<1>11. \A n \in Node, j \in Key : MovesTo(n, j, foreign'[n][j])
  BY DEF MovesTo
<1>. QED BY <1>4, <1>6, <1>7, <1>8, <1>9, <1>10, <1>11 DEF Good, IInv

LEMMA EnsureStep ==
  ASSUME IInv, NEW k \in Key, NEW now \in Wall, EnsureLocalVersions(k, now)
  PROVE  Good
<1>. DEFINE w == [version |-> NextTs(Origin(k), now), tombstone |-> FALSE]
<1>1. Stamped(k, w) /\ UNCHANGED <<registry, foreign>> /\ msgs' = msgs
  BY DEF EnsureLocalVersions
<1>2. /\ w.version = NextTs(Origin(k), now) /\ w.tombstone \in BOOLEAN
      /\ w = [version |-> w.version, tombstone |-> w.tombstone]
  OBVIOUS
<1>. HIDE DEF w
<1>. QED BY <1>1, <1>2, StampedStep

LEMMA HookStep ==
  ASSUME IInv, NEW k \in Key, NEW now \in Wall, OnLocalMutation(k, now)
  PROVE  Good
<1>. DEFINE w == [version |-> NextTs(Origin(k), now), tombstone |-> hook[k] = "deregister"]
            env == [version |-> w.version, tombstone |-> w.tombstone, value |-> registry[k]]
<1>1. /\ Stamped(k, w) /\ UNCHANGED <<registry, foreign>>
      /\ msgs' = msgs \cup {[from |-> Origin(k), to |-> p, key |-> k, env |-> env] :
                            p \in {q \in Peers(Origin(k)) : Reach(Origin(k), q)}}
  BY DEF OnLocalMutation
<1>2. /\ w.version = NextTs(Origin(k), now) /\ w.tombstone \in BOOLEAN
      /\ w = [version |-> w.version, tombstone |-> w.tombstone]
  OBVIOUS
<1>3. registry[k] \in Value \cup {None} /\ w.version \in Nat
  BY <1>2, StampIsNewest DEF IInv, Typed
<1>4. env \in AnyEnv /\ env.version = w.version /\ env.tombstone = w.tombstone
  BY <1>2, <1>3 DEF AnyEnv
<1>5. w \in Write
  BY <1>1, <1>2 DEF Stamped, Write
<1>. HIDE DEF w, env
<1>6. CopyOf(env) = w
  BY <1>4, <1>5, SameParts
<1>7. ASSUME NEW m \in msgs' \ msgs
      PROVE  m.to \in Node /\ m.key = k /\ m.env \in AnyEnv /\ CopyOf(m.env) = w
  <2>1. PICK p \in Peers(Origin(k)) : m = [from |-> Origin(k), to |-> p, key |-> k, env |-> env]
    BY <1>1
  <2>2. m.to = p /\ m.key = k /\ m.env = env /\ p \in Node
    BY <2>1 DEF Peers
  <2>. QED BY <1>4, <1>6, <2>2
<1>. QED BY <1>1, <1>2, <1>7, StampedStep

-----------------------------------------------------------------------------
(* The exchanges.                                                          *)

LEMMA ServeStep ==
  ASSUME IInv, NEW m \in msgs, ServeUpdates(m)
  PROVE  Good
<1>1. m.to \in Node /\ m.key \in Key /\ m.env \in AnyEnv /\ Written(m.key, m.env)
  BY DEF IInv, MessageIsWrite
<1>. DEFINE applied == Apply(m.to, m.key, m.env, Refused(m.to))
<1>2. applied \in AnyEnv /\ MovesTo(m.to, m.key, applied)
  BY <1>1, AppliedMoves
<1>3. /\ UNCHANGED <<registry, stamp, clock, published>> /\ msgs' \subseteq msgs
      /\ foreign' = [foreign EXCEPT ![m.to][m.key] = applied]
  BY DEF ServeUpdates, local
<1>. HIDE DEF applied
<1>4. foreign \in [Node -> [Key -> AnyEnv]]
  BY DEF IInv, Typed
<1>5. foreign' \in [Node -> [Key -> AnyEnv]]
  BY <1>1, <1>2, <1>3, <1>4
<1>6. ASSUME NEW n \in Node, NEW k \in Key
      PROVE  MovesTo(n, k, foreign'[n][k])
  <2>1. CASE n = m.to /\ k = m.key
    BY <1>1, <1>2, <1>3, <1>4, <2>1
  <2>2. CASE ~(n = m.to /\ k = m.key)
    <3>1. foreign'[n][k] = foreign[n][k]
      BY <1>1, <1>3, <1>4, <2>2
    <3>. QED BY <3>1 DEF MovesTo
  <2>. QED BY <2>1, <2>2
<1>7. stamp' \in [Key -> Write \cup {NoStamp}] /\ registry' \in [Key -> Value \cup {None}]
      /\ \A k \in Key : stamp'[k] \in {stamp[k], NoStamp}
  BY <1>3 DEF IInv, Typed
<1>. QED BY <1>3, <1>5, <1>6, <1>7, CopiesMove

(* An exchange: what each holds of a record, it had or was sent. *)
LEMMA ExchangeStep ==
  ASSUME IInv, NEW n \in Node, NEW p \in Node, n # p, NEW byN, NEW byP, NEW pushes,
         foreign' = Exchanged(n, p, byN, byP, pushes),
         UNCHANGED <<registry, stamp, clock, published, msgs>>
  PROVE  Good
<1>. DEFINE atN(k) == Apply(n, k, Held(p, k), byN)
            atP(k) == Apply(p, k, Held(n, k), byP)
            newN == [k \in Key |-> IF k \in NewerAt(p, n) THEN atN(k) ELSE foreign[n][k]]
            newP == [k \in Key |-> IF pushes /\ k \in NewerAt(n, p) THEN atP(k) ELSE foreign[p][k]]
<1>1. foreign \in [Node -> [Key -> AnyEnv]]
  BY DEF IInv, Typed
<1>2. \A k \in Key : atN(k) \in AnyEnv /\ MovesTo(n, k, atN(k))
  BY HeldIsWritten, AppliedMoves
<1>3. \A k \in Key : atP(k) \in AnyEnv /\ MovesTo(p, k, atP(k))
  BY HeldIsWritten, AppliedMoves
<1>4. foreign' = [foreign EXCEPT ![n] = newN, ![p] = newP]
  BY <1>1 DEF Exchanged
<1>. HIDE DEF atN, atP
<1>5. newN \in [Key -> AnyEnv] /\ newP \in [Key -> AnyEnv]
  BY <1>1, <1>2, <1>3
<1>6. ASSUME NEW k \in Key
      PROVE  MovesTo(n, k, newN[k]) /\ MovesTo(p, k, newP[k])
  <2>1. newN[k] = atN(k) \/ newN[k] = foreign[n][k]
    OBVIOUS
  <2>2. newP[k] = atP(k) \/ newP[k] = foreign[p][k]
    OBVIOUS
  <2>. QED BY <1>2, <1>3, <2>1, <2>2 DEF MovesTo
<1>. HIDE DEF newN, newP
<1>7. foreign' \in [Node -> [Key -> AnyEnv]]
  BY <1>1, <1>4, <1>5
<1>8. ASSUME NEW q \in Node, NEW k \in Key
      PROVE  MovesTo(q, k, foreign'[q][k])
  <2>1. CASE q = n
    BY <1>1, <1>4, <1>6, <2>1
  <2>2. CASE q = p
    BY <1>1, <1>4, <1>6, <2>2
  <2>3. CASE q # n /\ q # p
    <3>1. foreign'[q][k] = foreign[q][k]
      BY <1>1, <1>4, <2>3
    <3>. QED BY <3>1 DEF MovesTo
  <2>. QED BY <2>1, <2>2, <2>3
<1>9. stamp' \in [Key -> Write \cup {NoStamp}] /\ registry' \in [Key -> Value \cup {None}]
      /\ \A k \in Key : stamp'[k] \in {stamp[k], NoStamp}
  BY DEF IInv, Typed
<1>. QED BY <1>7, <1>8, <1>9, CopiesMove

LEMMA ConnectStep ==
  ASSUME IInv, NEW n \in Node, NEW p \in Node, ConnectPeer(n, p)
  PROVE  Good
BY ExchangeStep DEF ConnectPeer, Reach, local

LEMMA ReconcileStep ==
  ASSUME IInv, NEW n \in Node, NEW p \in Node, Reconcile(n, p)
  PROVE  Good
BY ExchangeStep DEF Reconcile, Reach, local

-----------------------------------------------------------------------------
(* What forgets copies.                                                    *)

LEMMA ForgettingStep ==
  ASSUME IInv, NEW n \in Node, NEW forgotten,
         foreign' = [foreign EXCEPT ![n] =
           [k \in Key |-> IF k \in forgotten THEN NoEnv ELSE foreign[n][k]]],
         UNCHANGED <<clock, published, registry>>,
         stamp' \in [Key -> Write \cup {NoStamp}],
         \A k \in Key : stamp'[k] \in {stamp[k], NoStamp},
         msgs' \subseteq msgs
  PROVE  Good
<1>1. foreign \in [Node -> [Key -> AnyEnv]]
  BY DEF IInv, Typed
<1>2. foreign' \in [Node -> [Key -> AnyEnv]]
  BY <1>1, NoEnvIsEnv
<1>3. ASSUME NEW q \in Node, NEW k \in Key
      PROVE  MovesTo(q, k, foreign'[q][k])
  <2>1. foreign'[q][k] = NoEnv \/ foreign'[q][k] = foreign[q][k]
    BY <1>1
  <2>. QED BY <2>1 DEF MovesTo
<1>4. registry' \in [Key -> Value \cup {None}]
  BY DEF IInv, Typed
<1>. QED BY <1>2, <1>3, <1>4, CopiesMove

LEMMA GcStep ==
  ASSUME IInv, NEW n \in Node, GcTombstones(n)
  PROVE  Good
<1>. DEFINE forgotten == {k \in Key : Expired(k, foreign[n][k])}
<1>1. foreign \in [Node -> [Key -> AnyEnv]] /\ stamp \in [Key -> Write \cup {NoStamp}]
  BY DEF IInv, Typed
<1>2. /\ UNCHANGED <<registry, clock, msgs, published>>
      /\ stamp' = [k \in Key |-> IF Origin(k) = n /\ Expired(k, stamp[k])
                                 THEN NoStamp ELSE stamp[k]]
  BY DEF GcTombstones
<1>3. foreign' = [foreign EXCEPT ![n] =
        [k \in Key |-> IF Expired(k, foreign[n][k]) THEN NoEnv ELSE foreign[n][k]]]
  BY DEF GcTombstones
<1>4. foreign' = [foreign EXCEPT ![n] =
        [k \in Key |-> IF k \in forgotten THEN NoEnv ELSE foreign[n][k]]]
  BY <1>3
<1>. HIDE DEF forgotten
<1>5. stamp' \in [Key -> Write \cup {NoStamp}] /\ \A k \in Key : stamp'[k] \in {stamp[k], NoStamp}
  BY <1>1, <1>2
<1>. QED BY <1>2, <1>4, <1>5, ForgettingStep

LEMMA EvictStep ==
  ASSUME IInv, NEW n \in Node, NEW gone, Evict(n, gone),
         UNCHANGED <<registry, stamp, clock, published, msgs>>
  PROVE  Good
<1>. DEFINE forgotten == {k \in Key : Origin(k) \in gone}
<1>1. foreign' = [foreign EXCEPT ![n] =
        [k \in Key |-> IF Origin(k) \in gone THEN NoEnv ELSE foreign[n][k]]]
  BY DEF Evict
<1>2. foreign' = [foreign EXCEPT ![n] =
        [k \in Key |-> IF k \in forgotten THEN NoEnv ELSE foreign[n][k]]]
  BY <1>1
<1>. HIDE DEF forgotten
<1>3. stamp' \in [Key -> Write \cup {NoStamp}] /\ \A k \in Key : stamp'[k] \in {stamp[k], NoStamp}
  BY DEF IInv, Typed
<1>. QED BY <1>2, <1>3, ForgettingStep

LEMMA CrashStep ==
  ASSUME IInv, NEW n \in Node, Crash(n)
  PROVE  Good
<1>1. /\ UNCHANGED <<registry, stamp, clock, published>> /\ msgs' \subseteq msgs
      /\ foreign' = [foreign EXCEPT ![n] = [k \in Key |-> NoEnv]]
  BY DEF Crash
<1>2. foreign' = [foreign EXCEPT ![n] =
        [k \in Key |-> IF k \in Key THEN NoEnv ELSE foreign[n][k]]]
  BY <1>1
<1>3. stamp' \in [Key -> Write \cup {NoStamp}] /\ \A k \in Key : stamp'[k] \in {stamp[k], NoStamp}
  BY <1>1 DEF IInv, Typed
<1>. QED BY <1>1, <1>2, <1>3, ForgettingStep

-----------------------------------------------------------------------------
LEMMA MutateStep ==
  ASSUME IInv, NEW k \in Key, NEW value \in Value \cup {None}, Mutate(k, value)
  PROVE  Good
<1>1. registry' \in [Key -> Value \cup {None}]
  BY DEF Mutate, IInv, Typed
<1>2. UNCHANGED <<stamp, clock, published, foreign, msgs>>
  BY DEF Mutate
<1>. QED BY <1>1, <1>2, NothingMoves

LEMMA OtherSteps ==
  ASSUME IInv,
         \/ UNCHANGED vars
         \/ \E m \in msgs : Lose(m)
         \/ \E n, p \in Node : \/ ConnectPeerFails(n, p) \/ ReconcileFails(n, p)
                                \/ Cut(n, p) \/ Heal(n, p)
         \/ \E n \in Node : StartSweep(n) \/ EmitKeepalive(n) \/ Restart(n)
         \/ Tick
         \/ CalmDown
  PROVE  Good
<1>1. UNCHANGED <<registry, stamp, clock, published, foreign>> /\ msgs' \subseteq msgs
  BY DEF vars, local, Lose, ConnectPeerFails, ReconcileFails, Cut, Heal, StartSweep,
         EmitKeepalive, Restart, Tick, CalmDown
<1>2. registry' \in [Key -> Value \cup {None}]
  BY <1>1 DEF IInv, Typed
<1>. QED BY <1>1, <1>2, NothingMoves

LEMMA NextIsGood == IInv /\ [Next]_vars => Good
<1>. SUFFICES ASSUME IInv, [Next]_vars
              PROVE  Good
  OBVIOUS
<1>1. ASSUME NEW k \in Key, NEW value \in Value \cup {None}, Mutate(k, value)
      PROVE  Good
  BY <1>1, MutateStep
<1>2. ASSUME NEW k \in Key, NEW now \in Wall,
             OnLocalMutation(k, now) \/ EnsureLocalVersions(k, now)
      PROVE  Good
  BY <1>2, HookStep, EnsureStep
<1>3. ASSUME NEW m \in msgs, ServeUpdates(m)
      PROVE  Good
  BY <1>3, ServeStep
<1>4. ASSUME NEW n \in Node, NEW p \in Node, ConnectPeer(n, p) \/ Reconcile(n, p)
      PROVE  Good
  BY <1>4, ConnectStep, ReconcileStep
<1>5. ASSUME NEW n \in Node, NEW p \in Node, RemovePeer(n, p)
      PROVE  Good
  BY <1>5, EvictStep DEF RemovePeer, local
<1>6. ASSUME NEW n \in Node, CheckHold(n)
      PROVE  Good
  BY <1>6, EvictStep DEF CheckHold, local
<1>7. ASSUME NEW n \in Node, GcTombstones(n) \/ Crash(n)
      PROVE  Good
  BY <1>7, GcStep, CrashStep
<1>. QED BY <1>1, <1>2, <1>3, <1>4, <1>5, <1>6, <1>7, OtherSteps, ZenonT(60) DEF Next

-----------------------------------------------------------------------------
LEMMA InitHolds == Init => IInv
<1>. SUFFICES ASSUME Init PROVE IInv
  OBVIOUS
<1>1. Typed
  BY NoEnvIsEnv DEF Init, Typed
<1>2. ClockAhead /\ StampIsWrite /\ MessageIsWrite
  BY DEF Init, ClockAhead, StampIsWrite, MessageIsWrite
<1>3. CopyIsWrite
  BY DEF Init, CopyIsWrite, Written
<1>. QED BY <1>1, <1>2, <1>3 DEF IInv

LEMMA InitMaps == Init => Register!Init
<1>. SUFFICES ASSUME Init PROVE Register!Init
  OBVIOUS
<1>1. CopyOf(NoEnv) = NoStamp
  BY DEF CopyOf, NoEnv, NoStamp
<1>. QED BY <1>1 DEF Init, Register!Init

LEMMA MoveMaps ==
  ASSUME IInv, Good, NEW n \in Node, NEW k \in Key
  PROVE  Register!Moves(n, k)
<1>. DEFINE copy == [q \in Node |-> [j \in Key |-> CopyOf(foreign[q][j])]]
<1>1. CopyOf(NoEnv) = NoStamp
  BY DEF CopyOf, NoEnv, NoStamp
<1>2. copy[n][k] = CopyOf(foreign[n][k]) /\ copy'[n][k] = CopyOf(foreign'[n][k])
  BY DEF CopyOf
<1>3. MovesTo(n, k, foreign'[n][k])
  BY DEF Good
<1>4. CASE foreign'[n][k] = foreign[n][k]
  BY <1>2, <1>4 DEF Register!Moves
<1>5. CASE foreign'[n][k] = NoEnv
  BY <1>1, <1>2, <1>5 DEF Register!Moves, Register!Forget
<1>6. CASE CopyOf(foreign'[n][k]) \in published[k] /\ Newer(foreign'[n][k], foreign[n][k])
  <2>1. CopyOf(foreign'[n][k]) \in Write
    BY <1>6 DEF IInv, Typed
  <2>2. CopyOf(foreign'[n][k]).version > CopyOf(foreign[n][k]).version
    BY <1>6 DEF Newer, CopyOf
  <2>3. Register!Write = Write
    BY DEF Register!Write, Write
  <2>. QED BY <1>2, <1>6, <2>1, <2>2, <2>3 DEF Register!Moves, Register!Learn, Register!Newer
<1>. QED BY <1>3, <1>4, <1>5, <1>6 DEF MovesTo

LEMMA WriteMaps ==
  ASSUME Good, NEW k \in Key
  PROVE  Register!Writes(k)
<1>1. Register!Write = Write
  BY DEF Register!Write, Write
<1>2. Publishes(k)
  BY DEF Good
<1>. QED BY <1>1, <1>2 DEF Publishes, Register!Writes, Register!Publish, Register!Newer

(* The copies are writes of the origins, and every write is newer than the  *)
(* last, whatever is lost, delayed, cut or restarted: store.py.            *)
THEOREM SpecIInv == Spec => []IInv
<1>1. IInv /\ [Next]_vars => IInv'
  BY NextIsGood DEF Good
<1>. QED BY <1>1, InitHolds, PTL DEF Spec

(* The replication of the records implements ClusterRegister. *)
THEOREM SpecReplicates == Spec => Replicates
<1>1. IInv /\ [Next]_vars => Register!Next
  BY NextIsGood, MoveMaps, WriteMaps DEF Register!Next
<1>. QED BY <1>1, InitMaps, SpecIInv, PTL DEF Spec, Replicates, Register!Spec

-----------------------------------------------------------------------------
(* The cooldown after an eviction.                                         *)

SuppressedTyped == suppressed \in [Node -> [Node -> Nat]]

CooldownInv == SuppressedTyped /\ EvictedStayGone

(* A step is good that suppresses no more than was, and moves no copy of a   *)
(* record that it leaves suppressed but by forgetting it.                  *)
LEMMA Cools ==
  ASSUME CooldownInv, SuppressedTyped',
         \A n, p \in Node : suppressed'[n][p] > 0 => suppressed[n][p] > 0,
         \A n \in Node, k \in Key :
           suppressed'[n][Origin(k)] > 0 => foreign'[n][k] \in {NoEnv, foreign[n][k]}
  PROVE  CooldownInv'
BY KeyParts DEF CooldownInv, EvictedStayGone, SuppressedTyped

LEMMA NoForeignMoves ==
  ASSUME CooldownInv, UNCHANGED foreign, SuppressedTyped',
         \A n, p \in Node : suppressed'[n][p] > 0 => suppressed[n][p] > 0
  PROVE  CooldownInv'
BY Cools

LEMMA RefusedIsNotApplied ==
  ASSUME NEW n, NEW k, NEW env, NEW refused, Origin(k) \in refused
  PROVE  Apply(n, k, env, refused) = foreign[n][k]
BY DEF Apply

LEMMA ExchangeCools ==
  ASSUME IInv, CooldownInv, SuppressedTyped',
         NEW n \in Node, NEW p \in Node, n # p, NEW byN, NEW byP, NEW pushes,
         foreign' = Exchanged(n, p, byN, byP, pushes),
         \A m, q \in Node : suppressed'[m][q] > 0 => suppressed[m][q] > 0,
         \A q \in Node : suppressed'[n][q] > 0 => q \in byN,
         \A q \in Node : suppressed'[p][q] > 0 => q \in byP
  PROVE  CooldownInv'
<1>1. foreign \in [Node -> [Key -> AnyEnv]]
  BY DEF IInv, Typed
<1>2. ASSUME NEW m \in Node, NEW k \in Key, suppressed'[m][Origin(k)] > 0
      PROVE  foreign'[m][k] = foreign[m][k]
  <2>1. CASE m = n
    <3>1. foreign'[n][k] = (IF k \in NewerAt(p, n) THEN Apply(n, k, Held(p, k), byN)
                           ELSE foreign[n][k])
      BY <1>1 DEF Exchanged
    <3>2. Origin(k) \in byN
      BY <1>2, <2>1, KeyParts
    <3>. QED BY <2>1, <3>1, <3>2, RefusedIsNotApplied
  <2>2. CASE m = p
    <3>1. foreign'[p][k] = (IF pushes /\ k \in NewerAt(n, p) THEN Apply(p, k, Held(n, k), byP)
                           ELSE foreign[p][k])
      BY <1>1 DEF Exchanged
    <3>2. Origin(k) \in byP
      BY <1>2, <2>2, KeyParts
    <3>. QED BY <2>2, <3>1, <3>2, RefusedIsNotApplied
  <2>3. CASE m # n /\ m # p
    BY <1>1, <2>3 DEF Exchanged
  <2>. QED BY <2>1, <2>2, <2>3
<1>. QED BY <1>2, Cools

LEMMA OpenedLifts ==
  ASSUME SuppressedTyped, NEW n \in Node, NEW p \in Node, NEW both \in BOOLEAN, Opened(n, p, both)
  PROVE  /\ SuppressedTyped'
         /\ \A m, q \in Node : suppressed'[m][q] > 0 => suppressed[m][q] > 0
         /\ suppressed'[p][n] = 0 /\ (both => suppressed'[n][p] = 0)
<1>1. suppressed' = [suppressed EXCEPT ![p][n] = 0, ![n][p] = IF both THEN 0 ELSE @]
  BY DEF Opened
<1>2. CASE both
  <2>1. suppressed' = [suppressed EXCEPT ![p][n] = 0, ![n][p] = 0]
    BY <1>1, <1>2
  <2>2. suppressed' \in [Node -> [Node -> Nat]]
    BY <2>1 DEF SuppressedTyped
  <2>3. \A m, q \in Node : suppressed'[m][q] > 0 => suppressed[m][q] > 0
    BY <2>1 DEF SuppressedTyped
  <2>4. suppressed'[p][n] = 0 /\ suppressed'[n][p] = 0
    BY <2>1 DEF SuppressedTyped
  <2>. QED BY <1>2, <2>2, <2>3, <2>4 DEF SuppressedTyped
<1>3. CASE ~both
  <2>1. suppressed' = [suppressed EXCEPT ![p][n] = 0, ![n][p] = @]
    BY <1>1, <1>3
  <2>2. suppressed' \in [Node -> [Node -> Nat]]
    BY <2>1 DEF SuppressedTyped
  <2>3. \A m, q \in Node : suppressed'[m][q] > 0 => suppressed[m][q] > 0
    BY <2>1 DEF SuppressedTyped
  <2>4. suppressed'[p][n] = 0
    BY <2>1 DEF SuppressedTyped
  <2>. QED BY <1>3, <2>2, <2>3, <2>4 DEF SuppressedTyped
<1>. QED BY <1>2, <1>3

LEMMA ConnectCools ==
  ASSUME IInv, CooldownInv, NEW n \in Node, NEW p \in Node, ConnectPeer(n, p)
  PROVE  CooldownInv'
<1>1. PICK pushes \in {TRUE, Steady} :
        foreign' = Exchanged(n, p, Refused(n) \ {p}, Refused(p) \ {n}, pushes)
  BY DEF ConnectPeer
<1>2. n # p /\ Opened(n, p, TRUE)
  BY DEF ConnectPeer, Reach
<1>3. /\ SuppressedTyped'
      /\ \A m, q \in Node : suppressed'[m][q] > 0 => suppressed[m][q] > 0
      /\ suppressed'[p][n] = 0 /\ suppressed'[n][p] = 0
  BY <1>2, OpenedLifts DEF CooldownInv
<1>4. \A q \in Node : suppressed'[n][q] > 0 => q \in Refused(n) \ {p}
  BY <1>3 DEF Refused
<1>5. \A q \in Node : suppressed'[p][q] > 0 => q \in Refused(p) \ {n}
  BY <1>3 DEF Refused
<1>. QED BY <1>1, <1>2, <1>3, <1>4, <1>5, ExchangeCools

LEMMA ReconcileCools ==
  ASSUME IInv, CooldownInv, NEW n \in Node, NEW p \in Node, Reconcile(n, p)
  PROVE  CooldownInv'
<1>1. PICK pushes \in {TRUE, Steady} : foreign' = Exchanged(n, p, Refused(n), Refused(p), pushes)
  BY DEF Reconcile
<1>2. n # p /\ suppressed' = suppressed
  BY DEF Reconcile, Reach
<1>3. SuppressedTyped'
  BY <1>2 DEF CooldownInv, SuppressedTyped
<1>4. \A m, q \in Node : suppressed'[m][q] > 0 => q \in Refused(m)
  BY <1>2 DEF Refused
<1>. QED BY <1>1, <1>2, <1>3, <1>4, ExchangeCools

LEMMA ServeCools ==
  ASSUME IInv, CooldownInv, NEW m \in msgs, ServeUpdates(m)
  PROVE  CooldownInv'
<1>1. m.to \in Node /\ m.key \in Key /\ foreign \in [Node -> [Key -> AnyEnv]]
  BY DEF IInv, Typed, MessageIsWrite
<1>2. suppressed' = suppressed
      /\ foreign' = [foreign EXCEPT ![m.to][m.key] = Apply(m.to, m.key, m.env, Refused(m.to))]
  BY DEF ServeUpdates
<1>3. SuppressedTyped'
  BY <1>2 DEF CooldownInv, SuppressedTyped
<1>4. ASSUME NEW n \in Node, NEW k \in Key, suppressed'[n][Origin(k)] > 0
      PROVE  foreign'[n][k] = foreign[n][k]
  <2>1. CASE n = m.to /\ k = m.key
    <3>1. Origin(k) \in Refused(n)
      BY <1>2, <1>4, KeyParts DEF Refused
    <3>2. foreign'[n][k] = Apply(n, k, m.env, Refused(n))
      BY <1>1, <1>2, <2>1
    <3>. QED BY <3>1, <3>2, RefusedIsNotApplied
  <2>2. CASE ~(n = m.to /\ k = m.key)
    BY <1>1, <1>2, <2>2
  <2>. QED BY <2>1, <2>2
<1>. QED BY <1>2, <1>3, <1>4, Cools

LEMMA EvictCools ==
  ASSUME IInv, CooldownInv, NEW n \in Node, NEW gone, Evict(n, gone)
  PROVE  CooldownInv'
<1>1. foreign \in [Node -> [Key -> AnyEnv]] /\ suppressed \in [Node -> [Node -> Nat]]
      /\ Retention \in Nat
  BY DEF IInv, Typed, CooldownInv, SuppressedTyped, Retention
<1>2. foreign' = [foreign EXCEPT ![n] =
        [k \in Key |-> IF Origin(k) \in gone THEN NoEnv ELSE foreign[n][k]]]
  BY DEF Evict
<1>3. suppressed' = [suppressed EXCEPT ![n] =
        [p \in Node |-> IF p \in gone THEN Retention ELSE suppressed[n][p]]]
  BY DEF Evict
<1>4. SuppressedTyped'
  BY <1>1, <1>3 DEF SuppressedTyped
<1>5. ASSUME NEW m \in Node, NEW k \in Key, suppressed'[m][Origin(k)] > 0
      PROVE  foreign'[m][k] = NoEnv
  <2>1. CASE m = n /\ Origin(k) \in gone
    BY <1>1, <1>2, <2>1
  <2>2. CASE ~(m = n /\ Origin(k) \in gone)
    <3>1. suppressed'[m][Origin(k)] = suppressed[m][Origin(k)] /\ foreign'[m][k] = foreign[m][k]
      BY <1>1, <1>2, <1>3, <2>2, KeyParts
    <3>. QED BY <1>5, <3>1 DEF CooldownInv, EvictedStayGone
  <2>. QED BY <2>1, <2>2
<1>. QED BY <1>4, <1>5 DEF CooldownInv, EvictedStayGone

LEMMA GcCools ==
  ASSUME IInv, CooldownInv, NEW n \in Node, GcTombstones(n)
  PROVE  CooldownInv'
<1>1. foreign \in [Node -> [Key -> AnyEnv]]
  BY DEF IInv, Typed
<1>2. foreign' = [foreign EXCEPT ![n] =
        [k \in Key |-> IF Expired(k, foreign[n][k]) THEN NoEnv ELSE foreign[n][k]]]
  BY DEF GcTombstones
<1>3. suppressed' = suppressed
  BY DEF GcTombstones, time
<1>4. \A m \in Node, k \in Key : foreign'[m][k] \in {NoEnv, foreign[m][k]}
  BY <1>1, <1>2
<1>. QED BY <1>3, <1>4, Cools DEF CooldownInv, SuppressedTyped

LEMMA CrashCools ==
  ASSUME IInv, CooldownInv, NEW n \in Node, Crash(n)
  PROVE  CooldownInv'
<1>1. foreign \in [Node -> [Key -> AnyEnv]] /\ suppressed \in [Node -> [Node -> Nat]]
  BY DEF IInv, Typed, CooldownInv, SuppressedTyped
<1>2. /\ foreign' = [foreign EXCEPT ![n] = [k \in Key |-> NoEnv]]
      /\ suppressed' = [suppressed EXCEPT ![n] = [p \in Node |-> 0]]
  BY DEF Crash
<1>3. SuppressedTyped' /\ \A m, p \in Node : suppressed'[m][p] > 0 => suppressed[m][p] > 0
  BY <1>1, <1>2 DEF SuppressedTyped
<1>4. \A m \in Node, k \in Key : foreign'[m][k] \in {NoEnv, foreign[m][k]}
  BY <1>1, <1>2
<1>. QED BY <1>3, <1>4, Cools

LEMMA OpenFailsCools ==
  ASSUME CooldownInv, NEW n \in Node, NEW p \in Node, ConnectPeerFails(n, p)
  PROVE  CooldownInv'
<1>1. PICK both \in BOOLEAN : Opened(n, p, both)
  BY DEF ConnectPeerFails
<1>2. foreign' = foreign
  BY DEF ConnectPeerFails
<1>. QED BY <1>1, <1>2, OpenedLifts, NoForeignMoves DEF CooldownInv

LEMMA TickCools ==
  ASSUME CooldownInv, Tick
  PROVE  CooldownInv'
<1>1. suppressed' = [n \in Node |-> [p \in Node |->
        IF suppressed[n][p] > 0 THEN suppressed[n][p] - 1 ELSE 0]]
  BY DEF Tick
<1>2. SuppressedTyped' /\ \A n, p \in Node : suppressed'[n][p] > 0 => suppressed[n][p] > 0
  BY <1>1 DEF CooldownInv, SuppressedTyped
<1>3. foreign' = foreign
  BY DEF Tick
<1>. QED BY <1>2, <1>3, NoForeignMoves

LEMMA RestKeepsCooldown ==
  ASSUME CooldownInv,
         \/ UNCHANGED vars
         \/ \E k \in Key :
              \/ \E value \in Value \cup {None} : Mutate(k, value)
              \/ \E now \in Wall : OnLocalMutation(k, now) \/ EnsureLocalVersions(k, now)
         \/ \E m \in msgs : Lose(m)
         \/ \E n, p \in Node : ReconcileFails(n, p) \/ Cut(n, p) \/ Heal(n, p)
         \/ \E n \in Node : StartSweep(n) \/ EmitKeepalive(n) \/ Restart(n)
         \/ CalmDown
  PROVE  CooldownInv'
<1>1. UNCHANGED <<foreign, suppressed>>
  BY DEF vars, time, Mutate, OnLocalMutation, EnsureLocalVersions, Lose, ReconcileFails, Cut, Heal,
         StartSweep, EmitKeepalive, Restart, CalmDown
<1>. QED BY <1>1 DEF CooldownInv, SuppressedTyped, EvictedStayGone

LEMMA SpecCooldownInv == Spec => []CooldownInv
<1>1. Init => CooldownInv
  BY DEF Init, CooldownInv, SuppressedTyped, EvictedStayGone
<1>2. IInv /\ CooldownInv /\ [Next]_vars => CooldownInv'
  <2>. SUFFICES ASSUME IInv, CooldownInv, [Next]_vars PROVE CooldownInv'
    OBVIOUS
  <2>1. ASSUME NEW m \in msgs, ServeUpdates(m) PROVE CooldownInv'
    BY <2>1, ServeCools
  <2>2. ASSUME NEW n \in Node, NEW p \in Node,
               ConnectPeer(n, p) \/ ConnectPeerFails(n, p) \/ Reconcile(n, p)
        PROVE  CooldownInv'
    BY <2>2, ConnectCools, OpenFailsCools, ReconcileCools
  <2>3. ASSUME NEW n \in Node, NEW p \in Node, RemovePeer(n, p) PROVE CooldownInv'
    BY <2>3, EvictCools DEF RemovePeer
  <2>4. ASSUME NEW n \in Node, CheckHold(n) PROVE CooldownInv'
    BY <2>4, EvictCools DEF CheckHold
  <2>5. ASSUME NEW n \in Node, GcTombstones(n) \/ Crash(n) PROVE CooldownInv'
    BY <2>5, GcCools, CrashCools
  <2>. QED BY <2>1, <2>2, <2>3, <2>4, <2>5, TickCools, RestKeepsCooldown, ZenonT(60) DEF Next
<1>. QED BY <1>1, <1>2, SpecIInv, PTL DEF Spec

(* A record of an evicted node stays away until the node is back or the     *)
(* cooldown is over: apply_inbound and disconnect_peer.                    *)
THEOREM SpecEvictedStayGone == Spec => []EvictedStayGone
<1>1. CooldownInv => EvictedStayGone
  BY DEF CooldownInv
<1>. QED BY <1>1, SpecCooldownInv, PTL

-----------------------------------------------------------------------------
(* What an envelope says beside its version.                               *)

HookState == {"none", "update", "deregister"}

(* No change of k is waiting to be stamped, or was lost with its process. *)
Settled(k) == hook[k] = "none" /\ k \notin torn

(* An envelope that has the version of the origin's stamp says what the     *)
(* origin's registry says.                                                 *)
Agrees(k, env) ==
  env # NoEnv /\ env.version = stamp[k].version /\ Settled(k) => env.value = registry[k]

HookTells ==
  hook \in [Key -> HookState] /\ \A k \in Key : hook[k] = "deregister" => registry[k] = None

(* What LocalEnvelope leaves out for a tombstone is not there. *)
TombstoneTells == \A k \in Key : stamp[k].tombstone /\ Settled(k) => registry[k] = None

CopyAgrees == \A n \in Node, k \in Key : Agrees(k, foreign[n][k])

(* The messages: one may come when the copy it follows is gone. *)
MessageAgrees == \A m \in msgs : Agrees(m.key, m.env)

ContentInv == HookTells /\ TombstoneTells /\ CopyAgrees /\ MessageAgrees

LEMMA NoStampParts == NoStamp.version = 0 /\ NoStamp.tombstone = FALSE
BY DEF NoStamp

LEMMA WrittenIsStamped ==
  ASSUME IInv, NEW k \in Key, NEW env, Written(k, env), env # NoEnv
  PROVE  env.version \in Nat /\ env.version > 0 /\ env.version <= clock[Origin(k)]
<1>1. CopyOf(env) \in published[k] /\ CopyOf(env) \in Write
  BY DEF IInv, Typed, Written
<1>2. CopyOf(env).version = env.version
  BY DEF CopyOf
<1>3. CopyOf(env).version \in Nat /\ CopyOf(env).version > 0
  BY <1>1 DEF Write, Version
<1>4. CopyOf(env).version <= clock[Origin(k)]
  BY <1>1 DEF IInv, ClockAhead
<1>. QED BY <1>2, <1>3, <1>4

LEMMA HeldAgrees ==
  ASSUME ContentInv, NEW p \in Node, NEW k \in Key
  PROVE  Agrees(k, Held(p, k))
<1>1. CASE Origin(k) # p
  BY <1>1 DEF ContentInv, CopyAgrees, Held
<1>2. CASE Origin(k) = p
  <2>1. Held(p, k) = LocalEnvelope(k)
    BY <1>2 DEF Held
  <2>2. CASE stamp[k].tombstone
    <3>1. LocalEnvelope(k).value = None
      BY <2>2 DEF LocalEnvelope
    <3>2. Settled(k) => registry[k] = None
      BY <2>2 DEF ContentInv, TombstoneTells
    <3>. QED BY <2>1, <3>1, <3>2 DEF Agrees
  <2>3. CASE ~stamp[k].tombstone /\ stamp[k] # NoStamp /\ registry[k] # None
    <3>1. LocalEnvelope(k).value = registry[k]
      BY <2>3 DEF LocalEnvelope
    <3>. QED BY <2>1, <3>1 DEF Agrees
  <2>4. CASE ~stamp[k].tombstone /\ ~(stamp[k] # NoStamp /\ registry[k] # None)
    BY <2>1, <2>4 DEF LocalEnvelope, Agrees
  <2>. QED BY <2>2, <2>3, <2>4
<1>. QED BY <1>1, <1>2

LEMMA AppliedAgrees ==
  ASSUME ContentInv, NEW n \in Node, NEW k \in Key, NEW env, Agrees(k, env), NEW refused
  PROVE  Agrees(k, Apply(n, k, env, refused))
<1>1. Agrees(k, foreign[n][k])
  BY DEF ContentInv, CopyAgrees
<1>2. Apply(n, k, env, refused) = env \/ Apply(n, k, env, refused) = foreign[n][k]
  BY DEF Apply
<1>. QED BY <1>1, <1>2

(* A step that changes no record, and stamps none, keeps the contents if it  *)
(* settles only records without a stamp and copies only what agrees.       *)
LEMMA ContentKept ==
  ASSUME IInv', ContentInv,
         UNCHANGED registry,
         hook' \in [Key -> HookState],
         \A k \in Key : hook'[k] = hook[k] \/ hook'[k] = "none",
         \A k \in Key : Settled(k)' => Settled(k) \/ stamp[k] = NoStamp,
         \A k \in Key : stamp'[k] = stamp[k] \/ stamp'[k] = NoStamp,
         \A n \in Node, k \in Key : foreign'[n][k] = NoEnv \/ Agrees(k, foreign'[n][k]),
         msgs' \subseteq msgs
  PROVE  ContentInv'
<1>1. HookTells'
  BY DEF ContentInv, HookTells
<1>2. TombstoneTells'
  BY NoStampParts DEF ContentInv, TombstoneTells
<1>3. ASSUME NEW k \in Key, NEW env, Agrees(k, env), Written(k, env)'
      PROVE  Agrees(k, env)'
  <2>. SUFFICES ASSUME env # NoEnv, env.version = stamp'[k].version, Settled(k)'
                PROVE  env.value = registry'[k]
    BY DEF Agrees
  <2>1. env.version \in Nat /\ env.version > 0
    <3>1. CopyOf(env) \in Write
      BY <1>3 DEF IInv, Typed, Written
    <3>. QED BY <3>1 DEF CopyOf, Write, Version
  <2>2. stamp'[k] # NoStamp
    BY <2>1, NoStampParts
  <2>3. stamp'[k] = stamp[k] /\ Settled(k)
    BY <2>2
  <2>. QED BY <1>3, <2>3 DEF Agrees
<1>4. CopyAgrees'
  <2>. SUFFICES ASSUME NEW n \in Node, NEW k \in Key
                PROVE  Agrees(k, foreign[n][k])'
    BY DEF CopyAgrees
  <2>1. CASE foreign'[n][k] = NoEnv
    BY <2>1 DEF Agrees
  <2>2. CASE Agrees(k, foreign'[n][k])
    <3>1. PICK env : env = foreign'[n][k]
      OBVIOUS
    <3>2. Written(k, env)' /\ Agrees(k, env)
      BY <2>2, <3>1 DEF IInv, CopyIsWrite, Written
    <3>3. Agrees(k, env)'
      BY <1>3, <3>2
    <3>. QED BY <3>1, <3>3 DEF Agrees
  <2>. QED BY <2>1, <2>2
<1>5. MessageAgrees'
  <2>. SUFFICES ASSUME NEW m \in msgs'
                PROVE  Agrees(m.key, m.env)'
    BY DEF MessageAgrees
  <2>1. m.key \in Key /\ Written(m.key, m.env)'
    BY DEF IInv, MessageIsWrite
  <2>2. Agrees(m.key, m.env)
    BY DEF ContentInv, MessageAgrees
  <2>. QED BY <1>3, <2>1, <2>2
<1>. QED BY <1>1, <1>2, <1>4, <1>5 DEF ContentInv

(* What no origin changes leaves every record as settled as it was. *)
LEMMA LocalKept ==
  ASSUME IInv', ContentInv, UNCHANGED <<registry, hook, torn>>,
         \A k \in Key : stamp'[k] = stamp[k] \/ stamp'[k] = NoStamp,
         \A n \in Node, k \in Key : foreign'[n][k] = NoEnv \/ Agrees(k, foreign'[n][k]),
         msgs' \subseteq msgs
  PROVE  ContentInv'
<1>1. hook' \in [Key -> HookState] /\ \A k \in Key : hook'[k] = hook[k]
  BY DEF ContentInv, HookTells
<1>2. \A k \in Key : Settled(k)' => Settled(k)
  BY DEF Settled
<1>. QED BY <1>1, <1>2, ContentKept

LEMMA ForeignKept ==
  ASSUME ContentInv, UNCHANGED foreign
  PROVE  \A n \in Node, k \in Key : foreign'[n][k] = NoEnv \/ Agrees(k, foreign'[n][k])
BY DEF ContentInv, CopyAgrees

-----------------------------------------------------------------------------
(* The changes at the origin.                                              *)

LEMMA MutateContent ==
  ASSUME IInv, ContentInv, NEW k \in Key, NEW value \in Value \cup {None}, Mutate(k, value)
  PROVE  ContentInv'
<1>1. /\ registry' = [registry EXCEPT ![k] = value]
      /\ hook' = [hook EXCEPT ![k] = IF value = None THEN "deregister" ELSE "update"]
      /\ UNCHANGED <<stamp, foreign, msgs, torn>>
  BY DEF Mutate
<1>2. registry \in [Key -> Value \cup {None}] /\ hook \in [Key -> HookState]
  BY DEF IInv, Typed, ContentInv, HookTells
<1>3. ~Settled(k)'
  BY <1>1, <1>2 DEF Settled
<1>4. \A j \in Key : j # k => registry'[j] = registry[j] /\ hook'[j] = hook[j]
                              /\ (Settled(j)' => Settled(j))
  BY <1>1, <1>2 DEF Settled
<1>5. HookTells'
  BY <1>1, <1>2, <1>4 DEF ContentInv, HookTells, HookState
<1>6. TombstoneTells'
  BY <1>1, <1>3, <1>4 DEF ContentInv, TombstoneTells
<1>7. \A j \in Key : \A env : Agrees(j, env) => Agrees(j, env)'
  BY <1>1, <1>3, <1>4 DEF Agrees
<1>8. CopyAgrees'
  BY <1>1, <1>7 DEF ContentInv, CopyAgrees
<1>9. MessageAgrees'
  BY <1>1, <1>7 DEF ContentInv, MessageAgrees, IInv, MessageIsWrite
<1>. QED BY <1>5, <1>6, <1>8, <1>9 DEF ContentInv

(* A stamp is newer than every envelope, so those that have its version are *)
(* the ones sent with it.                                                  *)
LEMMA StampContent ==
  ASSUME IInv, ContentInv, NEW k \in Key, NEW now \in Wall, NEW w,
         w.version = NextTs(Origin(k), now),
         Stamped(k, w), UNCHANGED <<registry, foreign>>,
         hook' \in [Key -> HookState],
         \A j \in Key : j # k => hook'[j] = hook[j],
         hook'[k] \in {hook[k], "none"},
         w.tombstone => registry[k] = None,
         \A m \in msgs' \ msgs : m.key = k /\ m.env.value = registry[k]
  PROVE  ContentInv'
<1>1. /\ stamp' = [stamp EXCEPT ![k] = w]
      /\ torn' = torn \ {k}
  BY DEF Stamped
<1>2. stamp'[k] = w /\ \A j \in Key : j # k => stamp'[j] = stamp[j] /\ (Settled(j)' => Settled(j))
  BY <1>1 DEF IInv, Typed, Settled
<1>3. HookTells'
  BY DEF ContentInv, HookTells
<1>4. TombstoneTells'
  BY <1>2 DEF ContentInv, TombstoneTells
<1>5. ASSUME NEW j \in Key, NEW env, Written(j, env), Agrees(j, env)
      PROVE  Agrees(j, env)'
  <2>1. CASE j # k
    BY <1>2, <1>5, <2>1 DEF Agrees
  <2>2. CASE j = k
    <3>. SUFFICES ASSUME env # NoEnv, env.version = w.version PROVE FALSE
      BY <1>2, <2>2 DEF Agrees
    <3>1. env.version \in Nat /\ env.version <= clock[Origin(k)]
      BY <1>5, <2>2, WrittenIsStamped
    <3>2. w.version \in Nat /\ w.version > clock[Origin(k)]
      BY StampIsNewest
    <3>3. clock[Origin(k)] \in Nat
      BY KeyParts DEF IInv, Typed
    <3>. QED BY <3>1, <3>2, <3>3
  <2>. QED BY <2>1, <2>2
<1>6. CopyAgrees'
  BY <1>5 DEF ContentInv, CopyAgrees, IInv, CopyIsWrite
<1>7. MessageAgrees'
  <2>. SUFFICES ASSUME NEW m \in msgs'
                PROVE  Agrees(m.key, m.env)'
    BY DEF MessageAgrees
  <2>1. CASE m \in msgs
    BY <1>5, <2>1 DEF ContentInv, MessageAgrees, IInv, MessageIsWrite
  <2>2. CASE m \notin msgs
    BY <2>2 DEF Agrees
  <2>. QED BY <2>1, <2>2
<1>. QED BY <1>3, <1>4, <1>6, <1>7 DEF ContentInv

LEMMA EnsureContent ==
  ASSUME IInv, ContentInv, NEW k \in Key, NEW now \in Wall, EnsureLocalVersions(k, now)
  PROVE  ContentInv'
<1>. DEFINE w == [version |-> NextTs(Origin(k), now), tombstone |-> FALSE]
<1>1. Stamped(k, w) /\ UNCHANGED <<registry, foreign, hook, msgs>>
  BY DEF EnsureLocalVersions
<1>2. w.version = NextTs(Origin(k), now) /\ ~w.tombstone
  OBVIOUS
<1>3. hook \in [Key -> HookState]
  BY DEF ContentInv, HookTells
<1>. HIDE DEF w
<1>. QED BY <1>1, <1>2, <1>3, StampContent

LEMMA HookContent ==
  ASSUME IInv, ContentInv, NEW k \in Key, NEW now \in Wall, OnLocalMutation(k, now)
  PROVE  ContentInv'
<1>. DEFINE w == [version |-> NextTs(Origin(k), now), tombstone |-> hook[k] = "deregister"]
            env == [version |-> w.version, tombstone |-> w.tombstone, value |-> registry[k]]
<1>1. /\ Stamped(k, w) /\ UNCHANGED <<registry, foreign>>
      /\ hook' = [hook EXCEPT ![k] = "none"]
      /\ msgs' = msgs \cup {[from |-> Origin(k), to |-> p, key |-> k, env |-> env] :
                            p \in {q \in Peers(Origin(k)) : Reach(Origin(k), q)}}
  BY DEF OnLocalMutation
<1>2. /\ w.version = NextTs(Origin(k), now) /\ env.value = registry[k]
      /\ w.tombstone => hook[k] = "deregister"
  OBVIOUS
<1>. HIDE DEF w, env
<1>3. \A m \in msgs' \ msgs : m.key = k /\ m.env.value = registry[k]
  BY <1>1, <1>2
<1>4. hook \in [Key -> HookState] /\ (w.tombstone => registry[k] = None)
  BY <1>2 DEF ContentInv, HookTells
<1>5. hook' \in [Key -> HookState] /\ hook'[k] = "none" /\ \A j \in Key : j # k => hook'[j] = hook[j]
  BY <1>1, <1>4 DEF HookState
<1>. QED BY <1>1, <1>2, <1>3, <1>4, <1>5, StampContent

-----------------------------------------------------------------------------
(* The exchanges, and what forgets.                                        *)

LEMMA ServeContent ==
  ASSUME IInv, IInv', ContentInv, NEW m \in msgs, ServeUpdates(m)
  PROVE  ContentInv'
<1>1. m.to \in Node /\ m.key \in Key /\ foreign \in [Node -> [Key -> AnyEnv]]
  BY DEF IInv, Typed, MessageIsWrite
<1>. DEFINE applied == Apply(m.to, m.key, m.env, Refused(m.to))
<1>2. Agrees(m.key, applied)
  BY <1>1, AppliedAgrees DEF ContentInv, MessageAgrees
<1>3. /\ UNCHANGED <<registry, stamp, hook, torn>> /\ msgs' \subseteq msgs
      /\ foreign' = [foreign EXCEPT ![m.to][m.key] = applied]
  BY DEF ServeUpdates, local
<1>. HIDE DEF applied
<1>4. ASSUME NEW n \in Node, NEW k \in Key
      PROVE  Agrees(k, foreign'[n][k])
  <2>1. CASE n = m.to /\ k = m.key
    BY <1>1, <1>2, <1>3, <2>1
  <2>2. CASE ~(n = m.to /\ k = m.key)
    <3>1. foreign'[n][k] = foreign[n][k]
      BY <1>1, <1>3, <2>2
    <3>. QED BY <3>1 DEF ContentInv, CopyAgrees
  <2>. QED BY <2>1, <2>2
<1>. QED BY <1>3, <1>4, LocalKept

LEMMA ExchangeContent ==
  ASSUME IInv, IInv', ContentInv,
         NEW n \in Node, NEW p \in Node, n # p, NEW byN, NEW byP, NEW pushes,
         foreign' = Exchanged(n, p, byN, byP, pushes),
         UNCHANGED <<registry, stamp, hook, torn, msgs>>
  PROVE  ContentInv'
<1>1. foreign \in [Node -> [Key -> AnyEnv]]
  BY DEF IInv, Typed
<1>2. ASSUME NEW q \in Node, NEW k \in Key
      PROVE  Agrees(k, foreign'[q][k])
  <2>1. Agrees(k, foreign[q][k])
    BY DEF ContentInv, CopyAgrees
  <2>2. CASE q = n
    <3>1. foreign'[n][k] = (IF k \in NewerAt(p, n) THEN Apply(n, k, Held(p, k), byN)
                           ELSE foreign[n][k])
      BY <1>1 DEF Exchanged
    <3>2. Agrees(k, Apply(n, k, Held(p, k), byN))
      BY HeldAgrees, AppliedAgrees
    <3>. QED BY <2>1, <2>2, <3>1, <3>2
  <2>3. CASE q = p
    <3>1. foreign'[p][k] = (IF pushes /\ k \in NewerAt(n, p) THEN Apply(p, k, Held(n, k), byP)
                           ELSE foreign[p][k])
      BY <1>1 DEF Exchanged
    <3>2. Agrees(k, Apply(p, k, Held(n, k), byP))
      BY HeldAgrees, AppliedAgrees
    <3>. QED BY <2>1, <2>3, <3>1, <3>2
  <2>4. CASE q # n /\ q # p
    <3>1. foreign'[q][k] = foreign[q][k]
      BY <1>1, <2>4 DEF Exchanged
    <3>. QED BY <2>1, <3>1
  <2>. QED BY <2>2, <2>3, <2>4
<1>. QED BY <1>2, LocalKept

LEMMA ConnectContent ==
  ASSUME IInv, IInv', ContentInv, NEW n \in Node, NEW p \in Node,
         ConnectPeer(n, p) \/ Reconcile(n, p)
  PROVE  ContentInv'
BY ExchangeContent DEF ConnectPeer, Reconcile, Reach, local

LEMMA EvictContent ==
  ASSUME IInv, IInv', ContentInv, NEW n \in Node, NEW gone, Evict(n, gone),
         UNCHANGED <<registry, stamp, hook, torn, msgs>>
  PROVE  ContentInv'
<1>1. foreign \in [Node -> [Key -> AnyEnv]]
  BY DEF IInv, Typed
<1>2. foreign' = [foreign EXCEPT ![n] =
        [k \in Key |-> IF Origin(k) \in gone THEN NoEnv ELSE foreign[n][k]]]
  BY DEF Evict
<1>3. \A m \in Node, k \in Key : foreign'[m][k] = NoEnv \/ foreign'[m][k] = foreign[m][k]
  BY <1>1, <1>2
<1>. QED BY <1>3, LocalKept DEF ContentInv, CopyAgrees

LEMMA GcContent ==
  ASSUME IInv, IInv', ContentInv, NEW n \in Node, GcTombstones(n)
  PROVE  ContentInv'
<1>1. foreign \in [Node -> [Key -> AnyEnv]]
  BY DEF IInv, Typed
<1>2. /\ UNCHANGED <<registry, hook, msgs, torn>>
      /\ stamp' = [k \in Key |-> IF Origin(k) = n /\ Expired(k, stamp[k])
                                 THEN NoStamp ELSE stamp[k]]
      /\ foreign' = [foreign EXCEPT ![n] =
           [k \in Key |-> IF Expired(k, foreign[n][k]) THEN NoEnv ELSE foreign[n][k]]]
  BY DEF GcTombstones
<1>3. \A m \in Node, k \in Key : foreign'[m][k] = NoEnv \/ foreign'[m][k] = foreign[m][k]
  BY <1>1, <1>2
<1>4. \A k \in Key : stamp'[k] = stamp[k] \/ stamp'[k] = NoStamp
  BY <1>2
<1>. QED BY <1>2, <1>3, <1>4, LocalKept DEF ContentInv, CopyAgrees

(* What a process that dies leaves unstamped is torn, or was never stamped. *)
LEMMA CrashContent ==
  ASSUME IInv, IInv', ContentInv, NEW n \in Node, Crash(n)
  PROVE  ContentInv'
<1>1. foreign \in [Node -> [Key -> AnyEnv]] /\ hook \in [Key -> HookState]
  BY DEF IInv, Typed, ContentInv, HookTells
<1>2. /\ UNCHANGED <<registry, stamp>> /\ msgs' \subseteq msgs
      /\ foreign' = [foreign EXCEPT ![n] = [k \in Key |-> NoEnv]]
  BY DEF Crash
<1>3. /\ hook' = [k \in Key |-> IF Origin(k) = n THEN "none" ELSE hook[k]]
      /\ torn' = torn \cup {k \in Key : Origin(k) = n /\ hook[k] # "none" /\ stamp[k] # NoStamp}
  BY DEF Crash
<1>4. \A m \in Node, k \in Key : foreign'[m][k] = NoEnv \/ foreign'[m][k] = foreign[m][k]
  BY <1>1, <1>2
<1>5. hook' \in [Key -> HookState] /\ \A k \in Key : hook'[k] = hook[k] \/ hook'[k] = "none"
  BY <1>1, <1>3 DEF HookState
<1>6. \A k \in Key : Settled(k)' => Settled(k) \/ stamp[k] = NoStamp
  BY <1>3 DEF Settled
<1>7. \A m \in Node, k \in Key : foreign'[m][k] = NoEnv \/ Agrees(k, foreign'[m][k])
  BY <1>4 DEF ContentInv, CopyAgrees
<1>. QED BY <1>2, <1>5, <1>6, <1>7, ContentKept

LEMMA RestKeepsContent ==
  ASSUME IInv', ContentInv,
         \/ UNCHANGED vars
         \/ \E m \in msgs : Lose(m)
         \/ \E n, p \in Node : \/ ConnectPeerFails(n, p) \/ ReconcileFails(n, p)
                                \/ Cut(n, p) \/ Heal(n, p)
         \/ \E n \in Node : StartSweep(n) \/ EmitKeepalive(n) \/ Restart(n)
         \/ Tick
         \/ CalmDown
  PROVE  ContentInv'
<1>1. UNCHANGED <<registry, stamp, hook, torn, foreign>> /\ msgs' \subseteq msgs
  BY DEF vars, local, Lose, ConnectPeerFails, ReconcileFails, Cut, Heal, StartSweep,
         EmitKeepalive, Restart, Tick, CalmDown
<1>2. \A k \in Key : stamp'[k] = stamp[k]
  BY <1>1
<1>. QED BY <1>1, <1>2, LocalKept, ForeignKept

LEMMA NextKeepsContent == IInv /\ IInv' /\ ContentInv /\ [Next]_vars => ContentInv'
<1>. SUFFICES ASSUME IInv, IInv', ContentInv, [Next]_vars
              PROVE  ContentInv'
  OBVIOUS
<1>1. ASSUME NEW k \in Key, NEW value \in Value \cup {None}, Mutate(k, value)
      PROVE  ContentInv'
  BY <1>1, MutateContent
<1>2. ASSUME NEW k \in Key, NEW now \in Wall,
             OnLocalMutation(k, now) \/ EnsureLocalVersions(k, now)
      PROVE  ContentInv'
  BY <1>2, HookContent, EnsureContent
<1>3. ASSUME NEW m \in msgs, ServeUpdates(m)
      PROVE  ContentInv'
  BY <1>3, ServeContent
<1>4. ASSUME NEW n \in Node, NEW p \in Node, ConnectPeer(n, p) \/ Reconcile(n, p)
      PROVE  ContentInv'
  BY <1>4, ConnectContent
<1>5. ASSUME NEW n \in Node, NEW p \in Node, RemovePeer(n, p)
      PROVE  ContentInv'
  BY <1>5, EvictContent DEF RemovePeer, local
<1>6. ASSUME NEW n \in Node, CheckHold(n)
      PROVE  ContentInv'
  BY <1>6, EvictContent DEF CheckHold, local
<1>7. ASSUME NEW n \in Node, GcTombstones(n) \/ Crash(n)
      PROVE  ContentInv'
  BY <1>7, GcContent, CrashContent
<1>. QED BY <1>1, <1>2, <1>3, <1>4, <1>5, <1>6, <1>7, RestKeepsContent, ZenonT(60) DEF Next

LEMMA SpecContentInv == Spec => []ContentInv
<1>1. Init => ContentInv
  BY NoStampParts DEF Init, ContentInv, HookTells, HookState, TombstoneTells, CopyAgrees,
     MessageAgrees, Agrees
<1>2. IInv /\ IInv' /\ ContentInv /\ [Next]_vars => ContentInv'
  BY NextKeepsContent
<1>. QED BY <1>1, <1>2, SpecIInv, PTL DEF Spec

(* A copy that has the version of its record's origin says what the origin   *)
(* says, so an exchange that compares versions alone leaves no difference:  *)
(* reconcile, _full_index and apply_inbound.                               *)
THEOREM SpecVersionTellsContent == Spec => []VersionTellsContent
<1>1. ContentInv => VersionTellsContent
  BY DEF ContentInv, CopyAgrees, Agrees, Settled, VersionTellsContent
<1>. QED BY <1>1, SpecContentInv, PTL

-----------------------------------------------------------------------------
(* Tombstones between two nodes.                                           *)

(* The cluster has at most two nodes. *)
TwoNodes == \A n, p, q \in Node : n = p \/ p = q \/ n = q

(* Outages are noticed, the keepalive monitor is on time, and a tombstone    *)
(* is kept for some time.                                                  *)
Noticing == ~Flaky /\ Lag = 0 /\ Retention > 0

Sending(n, p) == \E m \in msgs : m.from = n /\ m.to = p

(* Node n may yet be shown records of p. *)
Meets(n, p) == Session(p, n) \/ n \in sweep[p] \/ p \in sweep[n] \/ Sending(p, n)

SessionsTyped ==
  /\ silence \in [Node -> [Node -> {NoSession} \cup Nat]]
  /\ sweep \in [Node -> SUBSET (Node \cup {None})]
  /\ up \subseteq Node
  /\ \A m \in msgs : m.from \in Node /\ m.to \in Node

(* A process that is down calls nobody, and nobody has called it. *)
DownIsQuiet ==
  \A n \in Node \ up :
    /\ \A p \in Node : p \notin sweep[n] /\ ~Session(n, p)
    /\ \A m \in msgs : m.to # n

(* A peer is dropped before it has been silent for as long as it would then  *)
(* be refused, and nobody refuses a peer.                                  *)
SessionsLive ==
  \A n, p \in Node :
    Session(n, p) => silence[n][p] < Retention /\ suppressed[n][p] = 0

(* While a node may be shown the records of one it has dropped, it refuses    *)
(* them, and longer than the other keeps its session.                      *)
Refusing ==
  \A n \in up, p \in Node :
    ~Session(n, p) =>
      /\ Meets(n, p) => suppressed[n][p] > 0
      /\ Session(p, n) => silence[p][n] + suppressed[n][p] >= Retention
      /\ Session(p, n) /\ (p \in sweep[n] \/ Sending(n, p)) => suppressed[n][p] >= Retention

SessionsInv == SessionsTyped /\ DownIsQuiet /\ SessionsLive /\ Refusing

LEMMA RetentionIsNat == Retention \in Nat
BY DEF Retention

(* A step that opens and ends no session keeps all that, if it calls only    *)
(* peers, and touches only who has called.                                 *)
LEMMA SessionsKept ==
  ASSUME SessionsInv, SuppressedTyped, Noticing, UNCHANGED <<suppressed, up>>,
         silence' \in [Node -> [Node -> {NoSession} \cup Nat]],
         \A n, p \in Node :
           \/ silence'[n][p] = silence[n][p]
           \/ /\ Session(n, p) /\ silence'[n][p] = 0
              /\ Session(p, n) \/ n \in sweep[p] \/ Sending(p, n),
         sweep' \in [Node -> SUBSET (Node \cup {None})],
         \A n, p \in Node : p \in sweep'[n] => p \in sweep[n] \/ Session(n, p),
         \A m \in msgs' :
           m \in msgs \/ (m.from \in Node /\ m.to \in up /\ Session(m.from, m.to))
  PROVE  SessionsInv'
<1>1. SessionsTyped'
  BY DEF SessionsInv, SessionsTyped
<1>2. \A n, p \in Node : Session(n, p)' <=> Session(n, p)
  BY DEF Session, NoSession
<1>3. DownIsQuiet'
  BY <1>2 DEF SessionsInv, DownIsQuiet
<1>4. SessionsLive'
  BY <1>2, RetentionIsNat DEF SessionsInv, SessionsLive, Noticing
<1>5. Refusing'
  <2>. SUFFICES ASSUME NEW n \in up, NEW p \in Node, ~Session(n, p)
                PROVE  /\ Meets(n, p)' => suppressed[n][p] > 0
                       /\ Session(p, n) =>
                            silence'[p][n] + suppressed[n][p] >= Retention
                       /\ Session(p, n) /\ (p \in sweep'[n] \/ Sending(n, p)')
                            => suppressed[n][p] >= Retention
    BY <1>2 DEF Refusing, SessionsInv, SessionsTyped
  <2>1. n \in Node /\ suppressed[n][p] \in Nat
    BY DEF SessionsInv, SessionsTyped, SuppressedTyped
  <2>2. Sending(p, n)' => Sending(p, n) \/ Session(p, n)
    BY DEF Sending
  <2>3. Sending(n, p)' => Sending(n, p)
    BY DEF Sending
  <2>4. /\ n \in sweep'[p] => n \in sweep[p] \/ Session(p, n)
        /\ p \in sweep'[n] => p \in sweep[n]
    BY <2>1
  <2>5. Meets(n, p)' => Meets(n, p)
    BY <1>2, <2>1, <2>2, <2>4 DEF Meets
  <2>6. /\ Meets(n, p) => suppressed[n][p] > 0
        /\ Session(p, n) => silence[p][n] + suppressed[n][p] >= Retention
        /\ Session(p, n) /\ (p \in sweep[n] \/ Sending(n, p)) => suppressed[n][p] >= Retention
    BY DEF SessionsInv, Refusing
  <2>7. silence'[p][n] = silence[p][n]
        \/ (silence'[p][n] = 0 /\ Session(p, n) /\ (p \in sweep[n] \/ Sending(n, p)))
    BY <2>1
  <2>8. silence'[p][n] = 0 /\ suppressed[n][p] >= Retention
          => silence'[p][n] + suppressed[n][p] >= Retention
    BY <2>1, RetentionIsNat
  <2>. QED BY <2>3, <2>4, <2>5, <2>6, <2>7, <2>8
<1>. QED BY <1>1, <1>3, <1>4, <1>5 DEF SessionsInv

LEMMA SessionParts ==
  ASSUME SessionsInv
  PROVE  /\ silence \in [Node -> [Node -> {NoSession} \cup Nat]]
         /\ sweep \in [Node -> SUBSET (Node \cup {None})]
         /\ up \subseteq Node
         /\ \A n, p \in Node : Session(n, p) => n \in up
BY DEF SessionsInv, SessionsTyped, DownIsQuiet

(* The steps that leave the sessions alone, but for calls. *)
LEMMA QuietSessions ==
  ASSUME SessionsInv, SuppressedTyped, Noticing, UNCHANGED <<silence, suppressed, up>>,
         sweep' \in [Node -> SUBSET (Node \cup {None})],
         \A n, p \in Node : p \in sweep'[n] => p \in sweep[n] \/ Session(n, p),
         \A m \in msgs' :
           m \in msgs \/ (m.from \in Node /\ m.to \in up /\ Session(m.from, m.to))
  PROVE  SessionsInv'
BY SessionParts, SessionsKept

LEMMA HookSessions ==
  ASSUME SessionsInv, SuppressedTyped, Noticing, NEW k \in Key, NEW now \in Wall,
         OnLocalMutation(k, now)
  PROVE  SessionsInv'
<1>1. UNCHANGED <<silence, suppressed, up, sweep>>
  BY DEF OnLocalMutation, world, time
<1>2. ASSUME NEW m \in msgs', m \notin msgs
      PROVE  m.from \in Node /\ m.to \in up /\ Session(m.from, m.to)
  <2>. DEFINE n == Origin(k)
              w == [version |-> NextTs(n, now), tombstone |-> hook[k] = "deregister"]
              env == [version |-> w.version, tombstone |-> w.tombstone, value |-> registry[k]]
  <2>1. msgs' = msgs \cup {[from |-> n, to |-> p, key |-> k, env |-> env] :
                           p \in {q \in Peers(n) : Reach(n, q)}}
    BY DEF OnLocalMutation
  <2>. HIDE DEF env
  <2>2. PICK p \in Peers(n) : Reach(n, p) /\ m = [from |-> n, to |-> p, key |-> k, env |-> env]
    BY <1>2, <2>1
  <2>3. n \in Node /\ p \in Node /\ Session(n, p) /\ p \in up
    BY <2>2, KeyParts DEF Peers, Reach
  <2>. QED BY <2>2, <2>3
<1>3. sweep' \in [Node -> SUBSET (Node \cup {None})]
  BY <1>1, SessionParts
<1>. QED BY <1>1, <1>2, <1>3, QuietSessions

LEMMA SweepSessions ==
  ASSUME SessionsInv, SuppressedTyped, Noticing, NEW n \in Node, NEW left,
         sweep' = [sweep EXCEPT ![n] = left],
         left \in {Peers(n), NotSweeping} \cup SUBSET sweep[n],
         UNCHANGED <<silence, suppressed, up, msgs>>
  PROVE  SessionsInv'
<1>1. sweep \in [Node -> SUBSET (Node \cup {None})] /\ None \notin Node
  BY SessionParts
<1>2. left \in SUBSET (Node \cup {None})
  BY <1>1 DEF Peers, NotSweeping
<1>3. \A p \in Node : p \in left => p \in sweep[n] \/ Session(n, p)
  BY <1>1 DEF Peers, NotSweeping
<1>. QED BY <1>1, <1>2, <1>3, QuietSessions

LEMMA OtherSessions ==
  ASSUME SessionsInv, SuppressedTyped, Noticing,
         \/ UNCHANGED vars
         \/ \E k \in Key, value \in Value \cup {None} : Mutate(k, value)
         \/ \E k \in Key, now \in Wall : EnsureLocalVersions(k, now)
         \/ \E m \in msgs : Lose(m)
         \/ \E n, p \in Node : Cut(n, p) \/ Heal(n, p)
         \/ CalmDown
  PROVE  SessionsInv'
<1>1. UNCHANGED <<silence, suppressed, up, sweep>> /\ msgs' \subseteq msgs
  BY DEF vars, time, world, Mutate, EnsureLocalVersions, Lose, Cut, Heal, CalmDown
<1>2. sweep' \in [Node -> SUBSET (Node \cup {None})]
  BY <1>1, SessionParts
<1>. QED BY <1>1, <1>2, QuietSessions

(* Who answers a call has heard of the caller. *)
LEMMA TouchSessions ==
  ASSUME SessionsInv, SuppressedTyped, Noticing, NEW n \in Node, NEW p \in Node,
         n \in sweep[p] \/ Sending(p, n),
         silence' = Touched(n, p),
         UNCHANGED <<suppressed, up>>, msgs' \subseteq msgs,
         sweep' \in [Node -> SUBSET (Node \cup {None})],
         \A q \in Node : sweep'[q] \subseteq sweep[q]
  PROVE  SessionsInv'
<1>1. silence \in [Node -> [Node -> {NoSession} \cup Nat]]
  BY SessionParts
<1>2. silence' = [silence EXCEPT ![n][p] = IF Session(n, p) THEN 0 ELSE silence[n][p]]
  BY DEF Touched
<1>3. silence' \in [Node -> [Node -> {NoSession} \cup Nat]]
  BY <1>1, <1>2
<1>4. \A q, r \in Node :
        \/ silence'[q][r] = silence[q][r]
        \/ q = n /\ r = p /\ Session(n, p) /\ silence'[q][r] = 0
  BY <1>1, <1>2
<1>. QED BY <1>3, <1>4, SessionsKept

LEMMA ServeSessions ==
  ASSUME IInv, SessionsInv, SuppressedTyped, Noticing, NEW m \in msgs, ServeUpdates(m)
  PROVE  SessionsInv'
<1>1. m.from \in Node /\ m.to \in Node /\ Sending(m.from, m.to)
  BY DEF SessionsInv, SessionsTyped, Sending
<1>2. /\ silence' = Touched(m.to, m.from) /\ msgs' \subseteq msgs
      /\ UNCHANGED <<suppressed, up, sweep>>
  BY DEF ServeUpdates, world
<1>3. sweep' \in [Node -> SUBSET (Node \cup {None})]
  BY <1>2, SessionParts
<1>. QED BY <1>1, <1>2, <1>3, TouchSessions

LEMMA ReconcileSessions ==
  ASSUME SessionsInv, SuppressedTyped, Noticing, NEW n \in Node, NEW p \in Node, Reconcile(n, p)
  PROVE  SessionsInv'
<1>1. /\ p \in sweep[n] /\ silence' = Touched(p, n) /\ UNCHANGED <<suppressed, up, msgs>>
      /\ sweep' = [sweep EXCEPT ![n] = sweep[n] \ {p}]
  BY DEF Reconcile, Sweeping, world
<1>2. sweep' \in [Node -> SUBSET (Node \cup {None})] /\ \A q \in Node : sweep'[q] \subseteq sweep[q]
  BY <1>1, SessionParts
<1>. QED BY <1>1, <1>2, TouchSessions

LEMMA EmitSessions ==
  ASSUME SessionsInv, SuppressedTyped, Noticing, NEW n \in Node, EmitKeepalive(n)
  PROVE  SessionsInv'
<1>1. silence \in [Node -> [Node -> {NoSession} \cup Nat]]
  BY SessionParts
<1>2. /\ silence' = [p \in Node |-> [silence[p] EXCEPT ![n] =
           IF Session(n, p) /\ Reach(n, p) /\ Session(p, n) THEN 0 ELSE silence[p][n]]]
      /\ UNCHANGED <<suppressed, up, sweep, msgs>>
  BY DEF EmitKeepalive, world
<1>3. silence' \in [Node -> [Node -> {NoSession} \cup Nat]]
  BY <1>1, <1>2
<1>4. \A q, r \in Node :
        \/ silence'[q][r] = silence[q][r]
        \/ r = n /\ Session(q, n) /\ Session(n, q) /\ silence'[q][r] = 0
  BY <1>1, <1>2
<1>5. sweep' \in [Node -> SUBSET (Node \cup {None})]
  BY <1>2, SessionParts
<1>. QED BY <1>2, <1>3, <1>4, <1>5, SessionsKept

(* A session that opens lifts what either had against the other. *)
LEMMA ConnectSessions ==
  ASSUME SessionsInv, SuppressedTyped, Noticing, NEW n \in Node, NEW p \in Node, ConnectPeer(n, p)
  PROVE  SessionsInv'
<1>. DEFINE Opens(q, r) == (q = n /\ r = p) \/ (q = p /\ r = n)
<1>1. /\ n # p /\ n \in up /\ p \in up
      /\ silence' = [silence EXCEPT ![p][n] = 0, ![n][p] = 0]
      /\ suppressed' = [suppressed EXCEPT ![p][n] = 0, ![n][p] = 0]
      /\ UNCHANGED <<up, sweep, msgs>>
  BY DEF ConnectPeer, Opened, Reach, world
<1>2. /\ silence \in [Node -> [Node -> {NoSession} \cup Nat]]
      /\ suppressed \in [Node -> [Node -> Nat]]
  BY SessionParts DEF SuppressedTyped
<1>3. silence' \in [Node -> [Node -> {NoSession} \cup Nat]]
  BY <1>1, <1>2
<1>4. \A q, r \in Node :
        IF Opens(q, r) THEN silence'[q][r] = 0 /\ suppressed'[q][r] = 0
        ELSE silence'[q][r] = silence[q][r] /\ suppressed'[q][r] = suppressed[q][r]
  BY <1>1, <1>2
<1>5. \A q, r \in Node :
        Session(q, r)' <=> Opens(q, r) \/ Session(q, r)
  BY <1>4 DEF Session, NoSession
<1>6. SessionsTyped'
  BY <1>1, <1>3 DEF SessionsInv, SessionsTyped
<1>7. DownIsQuiet'
  BY <1>1, <1>5 DEF SessionsInv, DownIsQuiet
<1>8. SessionsLive'
  <2>. SUFFICES ASSUME NEW q \in Node, NEW r \in Node, Session(q, r)'
                PROVE  silence'[q][r] < Retention /\ suppressed'[q][r] = 0
    BY DEF SessionsLive
  <2>1. CASE Opens(q, r)
    BY <1>4, <2>1, RetentionIsNat DEF Noticing
  <2>2. CASE ~Opens(q, r)
    <3>1. Session(q, r) /\ silence'[q][r] = silence[q][r] /\ suppressed'[q][r] = suppressed[q][r]
      BY <1>4, <1>5, <2>2
    <3>. QED BY <3>1 DEF SessionsInv, SessionsLive
  <2>. QED BY <2>1, <2>2
<1>9. Refusing'
  <2>. SUFFICES ASSUME NEW q \in up, NEW r \in Node, ~Session(q, r)'
                PROVE  /\ Meets(q, r)' => suppressed'[q][r] > 0
                       /\ Session(r, q)' => silence'[r][q] + suppressed'[q][r] >= Retention
                       /\ Session(r, q)' /\ (r \in sweep[q] \/ Sending(q, r))
                            => suppressed'[q][r] >= Retention
    BY <1>1 DEF Refusing, Sending
  <2>1. q \in Node /\ ~Opens(q, r) /\ ~Opens(r, q)
    BY <1>5 DEF SessionsInv, SessionsTyped
  <2>2. /\ ~Session(q, r) /\ (Session(r, q)' <=> Session(r, q))
        /\ suppressed'[q][r] = suppressed[q][r] /\ silence'[r][q] = silence[r][q]
    BY <1>4, <1>5, <2>1
  <2>3. Meets(q, r)' <=> Meets(q, r)
    BY <1>1, <2>2 DEF Meets, Sending
  <2>. QED BY <2>2, <2>3 DEF SessionsInv, Refusing
<1>. QED BY <1>6, <1>7, <1>8, <1>9 DEF SessionsInv

(* Whoever is dropped is refused for Retention. *)
LEMMA EvictSessions ==
  ASSUME SessionsInv, SuppressedTyped, Noticing, NEW n \in Node, NEW gone, Evict(n, gone),
         UNCHANGED <<up, sweep, msgs>>
  PROVE  SessionsInv'
<1>1. /\ silence' = [silence EXCEPT ![n] =
           [p \in Node |-> IF p \in gone THEN NoSession ELSE silence[n][p]]]
      /\ suppressed' = [suppressed EXCEPT ![n] =
           [p \in Node |-> IF p \in gone THEN Retention ELSE suppressed[n][p]]]
  BY DEF Evict
<1>2. /\ silence \in [Node -> [Node -> {NoSession} \cup Nat]]
      /\ suppressed \in [Node -> [Node -> Nat]]
  BY SessionParts DEF SuppressedTyped
<1>3. silence' \in [Node -> [Node -> {NoSession} \cup Nat]]
  BY <1>1, <1>2
<1>4. \A q, r \in Node :
        IF q = n /\ r \in gone THEN silence'[q][r] = NoSession /\ suppressed'[q][r] = Retention
        ELSE silence'[q][r] = silence[q][r] /\ suppressed'[q][r] = suppressed[q][r]
  BY <1>1, <1>2
<1>5. \A q, r \in Node : Session(q, r)' <=> Session(q, r) /\ ~(q = n /\ r \in gone)
  BY <1>4 DEF Session, NoSession
<1>6. SessionsTyped'
  BY <1>3 DEF SessionsInv, SessionsTyped
<1>7. DownIsQuiet'
  BY <1>5 DEF SessionsInv, DownIsQuiet
<1>8. SessionsLive'
  BY <1>4, <1>5 DEF SessionsInv, SessionsLive
<1>9. Refusing'
  <2>. SUFFICES ASSUME NEW q \in up, NEW r \in Node, ~Session(q, r)'
                PROVE  /\ Meets(q, r)' => suppressed'[q][r] > 0
                       /\ Session(r, q)' => silence'[r][q] + suppressed'[q][r] >= Retention
                       /\ Session(r, q)' /\ (r \in sweep[q] \/ Sending(q, r))
                            => suppressed'[q][r] >= Retention
    BY DEF Refusing, Sending
  <2>1. q \in Node
    BY DEF SessionsInv, SessionsTyped
  <2>2. CASE q = n /\ r \in gone
    <3>1. suppressed'[q][r] = Retention
      BY <1>4, <2>1, <2>2
    <3>2. Session(r, q)' => silence'[r][q] \in Nat
      BY <1>3, <2>1 DEF Session
    <3>. QED BY <3>1, <3>2, RetentionIsNat DEF Noticing
  <2>3. CASE ~(q = n /\ r \in gone)
    <3>1. ~Session(q, r) /\ suppressed'[q][r] = suppressed[q][r]
      BY <1>4, <1>5, <2>1, <2>3
    <3>2. Session(r, q)' => Session(r, q) /\ silence'[r][q] = silence[r][q]
      BY <1>4, <1>5, <2>1
    <3>3. Meets(q, r)' => Meets(q, r)
      BY <3>2 DEF Meets, Sending
    <3>. QED BY <3>1, <3>2, <3>3 DEF SessionsInv, Refusing
  <2>. QED BY <2>2, <2>3
<1>. QED BY <1>6, <1>7, <1>8, <1>9 DEF SessionsInv

LEMMA CrashSessions ==
  ASSUME SessionsInv, SuppressedTyped, NEW n \in Node, Crash(n)
  PROVE  SessionsInv'
<1>1. /\ up' = up \ {n}
      /\ silence' = [silence EXCEPT ![n] = [p \in Node |-> NoSession]]
      /\ suppressed' = [suppressed EXCEPT ![n] = [p \in Node |-> 0]]
      /\ sweep' = [sweep EXCEPT ![n] = NotSweeping]
      /\ msgs' = {m \in msgs : m.to # n}
  BY DEF Crash
<1>2. /\ silence \in [Node -> [Node -> {NoSession} \cup Nat]]
      /\ suppressed \in [Node -> [Node -> Nat]]
      /\ sweep \in [Node -> SUBSET (Node \cup {None})]
      /\ up \subseteq Node
  BY SessionParts DEF SuppressedTyped
<1>3. SessionsTyped'
  BY <1>1, <1>2 DEF SessionsInv, SessionsTyped, NotSweeping
<1>4. /\ \A p \in Node : ~Session(n, p)' /\ p \notin sweep'[n]
      /\ \A q, r \in Node : q # n => /\ silence'[q][r] = silence[q][r]
                                     /\ suppressed'[q][r] = suppressed[q][r]
                                     /\ sweep'[q] = sweep[q]
                                     /\ (Session(q, r)' <=> Session(q, r))
  BY <1>1, <1>2 DEF Session, NotSweeping
<1>5. DownIsQuiet'
  BY <1>1, <1>4 DEF SessionsInv, DownIsQuiet
<1>6. SessionsLive'
  BY <1>4 DEF SessionsInv, SessionsLive
<1>7. Refusing'
  <2>. SUFFICES ASSUME NEW q \in up', NEW r \in Node, ~Session(q, r)'
                PROVE  /\ Meets(q, r)' => suppressed'[q][r] > 0
                       /\ Session(r, q)' => silence'[r][q] + suppressed'[q][r] >= Retention
                       /\ Session(r, q)' /\ (r \in sweep'[q] \/ Sending(q, r)')
                            => suppressed'[q][r] >= Retention
    BY DEF Refusing
  <2>1. q \in Node /\ q \in up /\ q # n
    BY <1>1, <1>2
  <2>2. ~Session(q, r) /\ suppressed'[q][r] = suppressed[q][r] /\ sweep'[q] = sweep[q]
    BY <1>4, <2>1
  <2>3. Session(r, q)' => r # n /\ Session(r, q) /\ silence'[r][q] = silence[r][q]
    BY <1>4, <2>1
  <2>4. q \in sweep'[r] => q \in sweep[r]
    BY <1>4, <2>1
  <2>5. (Sending(q, r)' => Sending(q, r)) /\ (Sending(r, q)' => Sending(r, q))
    BY <1>1 DEF Sending
  <2>6. Meets(q, r)' => Meets(q, r)
    BY <2>2, <2>3, <2>4, <2>5 DEF Meets
  <2>. QED BY <2>1, <2>2, <2>3, <2>5, <2>6 DEF SessionsInv, Refusing
<1>. QED BY <1>3, <1>5, <1>6, <1>7 DEF SessionsInv

(* A process that starts meets nobody: all have noticed that it was down. *)
LEMMA RestartSessions ==
  ASSUME SessionsInv, Noticing, NEW n \in Node, Restart(n)
  PROVE  SessionsInv'
<1>1. /\ n \notin up /\ up' = up \cup {n} /\ UNCHANGED <<silence, suppressed, sweep, msgs>>
      /\ \A p \in Node : Noticed(p, n)
  BY DEF Restart, Noticing, time
<1>2. SessionsTyped'
  BY <1>1 DEF SessionsInv, SessionsTyped
<1>3. DownIsQuiet'
  BY <1>1 DEF SessionsInv, DownIsQuiet, Session
<1>4. SessionsLive'
  BY <1>1 DEF SessionsInv, SessionsLive, Session
<1>5. ASSUME NEW p \in Node
      PROVE  ~Meets(n, p) /\ ~Session(p, n)
  BY <1>1 DEF SessionsInv, DownIsQuiet, Noticed, Meets, Sending
<1>6. Refusing'
  BY <1>1, <1>5 DEF SessionsInv, Refusing, Session, Meets, Sending
<1>. QED BY <1>2, <1>3, <1>4, <1>6 DEF SessionsInv

(* Time passes for both: one drops the other before it is refused no more. *)
LEMMA TickSessions ==
  ASSUME SessionsInv, SuppressedTyped, Noticing, Tick
  PROVE  SessionsInv'
<1>1. /\ msgs = {} /\ \A n, p \in Node : ~Due(n, p)
      /\ \A n \in up : sweep[n] = NotSweeping
      /\ silence' = [n \in Node |-> [p \in Node |->
           IF Session(n, p) THEN silence[n][p] + 1 ELSE NoSession]]
      /\ suppressed' = [n \in Node |-> [p \in Node |->
           IF suppressed[n][p] > 0 THEN suppressed[n][p] - 1 ELSE 0]]
      /\ UNCHANGED <<up, sweep, msgs>>
  BY DEF Tick, Noticing, world
<1>2. /\ silence \in [Node -> [Node -> {NoSession} \cup Nat]]
      /\ suppressed \in [Node -> [Node -> Nat]]
      /\ up \subseteq Node
  BY SessionParts DEF SuppressedTyped
<1>3. silence' \in [Node -> [Node -> {NoSession} \cup Nat]]
  BY <1>1, <1>2 DEF Session
<1>4. \A n, p \in Node :
        /\ Session(n, p)' <=> Session(n, p)
        /\ Session(n, p) => silence[n][p] \in Nat /\ silence'[n][p] = silence[n][p] + 1
        /\ suppressed'[n][p] = (IF suppressed[n][p] > 0 THEN suppressed[n][p] - 1 ELSE 0)
  BY <1>1, <1>2 DEF Session, NoSession
<1>5. \A n, p \in Node : p \notin sweep[n]
  BY <1>1 DEF SessionsInv, DownIsQuiet, NotSweeping
<1>6. SessionsTyped'
  BY <1>1, <1>3 DEF SessionsInv, SessionsTyped
<1>7. DownIsQuiet'
  BY <1>1, <1>4 DEF SessionsInv, DownIsQuiet
<1>8. SessionsLive'
  <2>. SUFFICES ASSUME NEW n \in Node, NEW p \in Node, Session(n, p)
                PROVE  silence'[n][p] < Retention /\ suppressed'[n][p] = 0
    BY <1>4 DEF SessionsLive
  <2>1. n \in up /\ ~Due(n, p) /\ silence[n][p] \in Nat
    BY <1>1, <1>4, SessionParts
  <2>2. HoldTimeout \in Nat /\ Interval \in Nat /\ Lag = 0
    BY DEF Noticing
  <2>3. silence[n][p] + 1 < Retention
    BY <2>1, <2>2 DEF Due, Retention
  <2>4. suppressed[n][p] = 0
    BY DEF SessionsInv, SessionsLive
  <2>. QED BY <1>4, <2>3, <2>4
<1>9. Refusing'
  <2>. SUFFICES ASSUME NEW n \in up, NEW p \in Node, ~Session(n, p)
                PROVE  /\ Meets(n, p)' => suppressed'[n][p] > 0
                       /\ Session(p, n)' => silence'[p][n] + suppressed'[n][p] >= Retention
                       /\ ~((p \in sweep[n] \/ Sending(n, p))')
    BY <1>1, <1>4, <1>2 DEF Refusing
  <2>1. n \in Node /\ ~Sending(n, p)' /\ ~Sending(p, n)'
    BY <1>1, <1>2 DEF Sending
  <2>2. Meets(n, p)' => Session(p, n)
    BY <1>1, <1>4, <1>5, <2>1 DEF Meets
  <2>3. ASSUME Session(p, n)
        PROVE  silence'[p][n] + suppressed'[n][p] >= Retention /\ suppressed'[n][p] > 0
    <3>1. silence[p][n] + suppressed[n][p] >= Retention /\ suppressed[n][p] > 0
      BY <2>3 DEF SessionsInv, Refusing, Meets
    <3>2. silence'[p][n] = silence[p][n] + 1 /\ silence[p][n] \in Nat
      BY <1>4, <2>1, <2>3
    <3>3. suppressed'[n][p] = suppressed[n][p] - 1 /\ suppressed[n][p] \in Nat
      BY <1>2, <1>4, <2>1, <3>1
    <3>4. silence'[p][n] < Retention
      BY <1>4, <1>8, <2>1, <2>3 DEF SessionsLive
    <3>. QED BY <3>1, <3>2, <3>3, <3>4, RetentionIsNat
  <2>. QED BY <1>1, <1>4, <1>5, <2>1, <2>2, <2>3
<1>. QED BY <1>6, <1>7, <1>8, <1>9 DEF SessionsInv

-----------------------------------------------------------------------------
(* Versions, their ages, and who shows a record.                           *)

Tombstone(v) == [version |-> v, tombstone |-> TRUE]

(* A version is one write, the stamp is the last of them, and only a         *)
(* tombstone grows old.                                                    *)
AgesInv ==
  /\ age \in [Key -> [Version -> Nat]]
  /\ \A k \in Key, v \in Version : Tombstone(v) \notin published[k] => age[k][v] = 0
  /\ \A k \in Key : \A w, x \in published[k] : w.version = x.version => w = x
  /\ \A k \in Key : stamp[k] = NoStamp \/ \A w \in published[k] : w.version <= stamp[k].version

(* The origin's stamp is no tombstone, or time has not passed since. *)
Young(k) == stamp[k] # NoStamp /\ (stamp[k].tombstone => age[k][stamp[k].version] = 0)

Empty(env) == env.tombstone => env.value = None

MessagesFresh ==
  \A m \in msgs : m.from = Origin(m.key) /\ Young(m.key) /\ Empty(m.env)

CopiesEmpty == \A n \in Node, k \in Key : Empty(foreign[n][k])

(* A copy is held by one who has a session with its origin. *)
CopiesHaveSession ==
  \A n \in Node, k \in Key : foreign[n][k] # NoEnv => Session(n, Origin(k))

Shows(n, k) == Connected(n, Origin(k)) /\ Visible(n, k) # None

(* The pass of n has been to p. *)
Done(n, p) == sweep[n] # NotSweeping /\ p \notin sweep[n]

(* What is shown has its stamp, and a tombstone that has grown old is known    *)
(* to whom the origin's pass has been: it may be collected.                *)
ShownIsStamped ==
  \A n \in Node, k \in Key :
    Shows(n, k) => stamp[k] # NoStamp /\ (Done(Origin(k), n) => Young(k))

ShownInv == MessagesFresh /\ CopiesEmpty /\ CopiesHaveSession /\ ShownIsStamped

LEMMA StampAges ==
  ASSUME IInv, AgesInv, NEW k \in Key, NEW now \in Wall, NEW w,
         w.version = NextTs(Origin(k), now), w.tombstone \in BOOLEAN,
         w = [version |-> w.version, tombstone |-> w.tombstone],
         Stamped(k, w), age' = age
  PROVE  AgesInv' /\ Young(k)' /\ \A j \in Key : Young(j) => Young(j)'
<1>1. /\ w.version \in Version
      /\ stamp' = [stamp EXCEPT ![k] = w]
      /\ published' = [published EXCEPT ![k] = published[k] \cup {w}]
  BY DEF Stamped
<1>2. /\ stamp \in [Key -> Write \cup {NoStamp}] /\ published \in [Key -> SUBSET Write]
      /\ age \in [Key -> [Version -> Nat]]
  BY DEF IInv, Typed, AgesInv
<1>3. stamp'[k] = w /\ published'[k] = published[k] \cup {w}
      /\ \A j \in Key : j # k => stamp'[j] = stamp[j] /\ published'[j] = published[j]
  BY <1>1, <1>2
<1>4. w.version \in Nat /\ \A x \in published[k] : x.version \in Nat /\ w.version > x.version
  BY <1>2, StampIsNewest, VersionIsNat
<1>5. w # NoStamp
  BY <1>1, NoStampParts DEF Version
<1>6. age[k][w.version] = 0
  <2>1. Tombstone(w.version).version = w.version
    BY DEF Tombstone
  <2>2. Tombstone(w.version) \notin published[k]
    BY <1>4, <2>1
  <2>. QED BY <1>1, <2>2 DEF AgesInv
<1>7. Young(k)' /\ \A j \in Key : Young(j) => Young(j)'
  BY <1>3, <1>5, <1>6 DEF Young
<1>8. \A j \in Key, v \in Version : Tombstone(v) \notin published'[j] => age[j][v] = 0
  BY <1>3 DEF AgesInv
<1>9. \A j \in Key : \A x, y \in published'[j] : x.version = y.version => x = y
  <2>. SUFFICES ASSUME NEW x \in published'[k], NEW y \in published'[k], x.version = y.version
                PROVE  x = y
    BY <1>3 DEF AgesInv
  <2>1. CASE x \in published[k] /\ y \in published[k]
    BY <2>1 DEF AgesInv
  <2>2. CASE x = w /\ y = w
    BY <2>2
  <2>3. CASE (x = w /\ y \in published[k]) \/ (y = w /\ x \in published[k])
    BY <1>4, <2>3
  <2>. QED BY <1>3, <2>1, <2>2, <2>3
<1>10. \A j \in Key : stamp'[j] = NoStamp
                      \/ \A x \in published'[j] : x.version <= stamp'[j].version
  <2>1. \A x \in published'[k] : x.version <= w.version
    BY <1>3, <1>4
  <2>. QED BY <1>3, <2>1 DEF AgesInv
<1>. QED BY <1>2, <1>7, <1>8, <1>9, <1>10 DEF AgesInv

LEMMA SameAges ==
  ASSUME AgesInv, UNCHANGED <<stamp, published, age>>
  PROVE  AgesInv' /\ \A j \in Key : Young(j) => Young(j)'
BY DEF AgesInv, Young

LEMMA TickAges ==
  ASSUME AgesInv, Tick
  PROVE  AgesInv'
<1>1. /\ age' = [k \in Key |-> [v \in Version |->
           IF [version |-> v, tombstone |-> TRUE] \in published[k] /\ age[k][v] <= Retention
           THEN age[k][v] + 1 ELSE age[k][v]]]
      /\ UNCHANGED <<stamp, published>>
  BY DEF Tick, local
<1>2. age \in [Key -> [Version -> Nat]]
  BY DEF AgesInv
<1>3. age' \in [Key -> [Version -> Nat]]
  BY <1>1, <1>2
<1>4. \A k \in Key, v \in Version : Tombstone(v) \notin published[k] => age'[k][v] = age[k][v]
  BY <1>1 DEF Tombstone
<1>. QED BY <1>1, <1>3, <1>4 DEF AgesInv

LEMMA GcAges ==
  ASSUME IInv, AgesInv, NEW n \in Node, GcTombstones(n)
  PROVE  AgesInv' /\ \A k \in Key : Young(k) => Young(k)'
<1>1. /\ stamp' = [k \in Key |-> IF Origin(k) = n /\ Expired(k, stamp[k])
                                 THEN NoStamp ELSE stamp[k]]
      /\ UNCHANGED <<age, published>>
  BY DEF GcTombstones, time
<1>2. AgesInv'
  BY <1>1 DEF AgesInv
<1>3. ASSUME NEW k \in Key, Young(k)
      PROVE  Young(k)'
  <2>1. ~Expired(k, stamp[k])
    BY <1>3, RetentionIsNat DEF Young, Expired
  <2>. QED BY <1>1, <1>3, <2>1 DEF Young
<1>. QED BY <1>2, <1>3

(* What a step other than time's must do. *)
LEMMA ShownKept ==
  ASSUME ShownInv,
         \A k \in Key : Young(k) => Young(k)',
         \A m \in msgs' : /\ m.key \in Key
                          /\ m \in msgs \/ (m.from = Origin(m.key) /\ Young(m.key)' /\ Empty(m.env)),
         \A n \in Node, k \in Key : Empty(foreign'[n][k]),
         \A n \in Node, k \in Key : foreign'[n][k] # NoEnv => Session(n, Origin(k))',
         \A n \in Node, k \in Key :
           Shows(n, k)' =>
             \/ Young(k)'
             \/ /\ Shows(n, k) /\ (stamp[k] # NoStamp => stamp'[k] # NoStamp)
                /\ Done(Origin(k), n)' => Done(Origin(k), n)
  PROVE  ShownInv'
<1>1. MessagesFresh'
  BY DEF ShownInv, MessagesFresh
<1>2. CopiesEmpty'
  BY DEF CopiesEmpty
<1>3. CopiesHaveSession'
  BY DEF CopiesHaveSession
<1>4. ShownIsStamped'
  <2>. SUFFICES ASSUME NEW n \in Node, NEW k \in Key, Shows(n, k)'
                PROVE  stamp'[k] # NoStamp /\ (Done(Origin(k), n)' => Young(k)')
    BY DEF ShownIsStamped
  <2>1. CASE Young(k)'
    BY <2>1 DEF Young
  <2>2. CASE /\ Shows(n, k) /\ (stamp[k] # NoStamp => stamp'[k] # NoStamp)
             /\ Done(Origin(k), n)' => Done(Origin(k), n)
    BY <2>2 DEF ShownInv, ShownIsStamped
  <2>. QED BY <2>1, <2>2
<1>. QED BY <1>1, <1>2, <1>3, <1>4 DEF ShownInv

LEMMA NoEnvParts == NoEnv.value = None /\ NoEnv.tombstone = FALSE /\ NoEnv.version = 0
BY DEF NoEnv

(* A step that brings no copy and connects nobody. *)
LEMMA NothingShown ==
  ASSUME ShownInv,
         \A k \in Key : Young(k) => Young(k)',
         \A k \in Key : stamp[k] # NoStamp => stamp'[k] # NoStamp,
         \A m \in msgs' : /\ m.key \in Key
                          /\ m \in msgs \/ (m.from = Origin(m.key) /\ Young(m.key)' /\ Empty(m.env)),
         \A n \in Node, k \in Key : foreign'[n][k] \in {NoEnv, foreign[n][k]},
         \A n \in Node, k \in Key :
           foreign'[n][k] # NoEnv => (Session(n, Origin(k)) => Session(n, Origin(k))'),
         \A n, p \in Node : Connected(n, p)' => Connected(n, p),
         \A n, p \in Node : Connected(n, p) /\ Done(p, n)' => Done(p, n)
  PROVE  ShownInv'
<1>1. \A n \in Node, k \in Key : Empty(foreign'[n][k])
  BY NoEnvParts DEF Empty, ShownInv, CopiesEmpty
<1>2. \A n \in Node, k \in Key : foreign'[n][k] # NoEnv => Session(n, Origin(k))'
  BY DEF ShownInv, CopiesHaveSession
<1>3. ASSUME NEW n \in Node, NEW k \in Key, Shows(n, k)'
      PROVE  /\ Shows(n, k) /\ (stamp[k] # NoStamp => stamp'[k] # NoStamp)
             /\ Done(Origin(k), n)' => Done(Origin(k), n)
  <2>1. foreign'[n][k] = foreign[n][k]
    BY <1>3, NoEnvParts DEF Shows, Visible
  <2>2. Shows(n, k)
    BY <1>3, <2>1, KeyParts DEF Shows, Visible
  <2>3. Connected(n, Origin(k))
    BY <2>2 DEF Shows
  <2>. QED BY <2>2, <2>3, KeyParts
<1>. QED BY <1>1, <1>2, <1>3, ShownKept

LEMMA SessionsConnect ==
  ASSUME UNCHANGED <<up, cut>>, \A n, p \in Node : Session(n, p)' => Session(n, p)
  PROVE  \A n, p \in Node : Connected(n, p)' => Connected(n, p)
BY DEF Connected, Reach

(* A stamp tells everyone of the record, or is no tombstone. *)
LEMMA StampShown ==
  ASSUME IInv, IInv', AgesInv, ShownInv, NEW k \in Key, NEW now \in Wall, NEW w,
         w.version = NextTs(Origin(k), now), w.tombstone \in BOOLEAN,
         w = [version |-> w.version, tombstone |-> w.tombstone],
         Stamped(k, w), UNCHANGED <<foreign, silence, up, cut, sweep, age>>,
         \A m \in msgs' \ msgs : m.key = k /\ m.from = Origin(k) /\ Empty(m.env)
  PROVE  AgesInv' /\ ShownInv'
<1>1. AgesInv' /\ Young(k)' /\ \A j \in Key : Young(j) => Young(j)'
  BY StampAges
<1>2. \A j \in Key : stamp[j] # NoStamp => stamp'[j] # NoStamp
  <2>1. stamp' = [stamp EXCEPT ![k] = w] /\ stamp \in [Key -> Write \cup {NoStamp}]
    BY DEF Stamped, IInv, Typed
  <2>. QED BY <1>1, <2>1 DEF Young
<1>3. \A m \in msgs' : m.key \in Key /\ (m \in msgs \/ (m.from = Origin(m.key)
                                                       /\ Young(m.key)' /\ Empty(m.env)))
  BY <1>1 DEF IInv, MessageIsWrite
<1>4. \A n, p \in Node : Connected(n, p)' => Connected(n, p)
  BY DEF Connected, Reach, Session
<1>5. \A n, p \in Node : Connected(n, p) /\ Done(p, n)' => Done(p, n)
  BY DEF Done
<1>6. \A n \in Node, j \in Key :
        /\ foreign'[n][j] \in {NoEnv, foreign[n][j]}
        /\ Session(n, Origin(j)) => Session(n, Origin(j))'
  BY DEF Session
<1>. QED BY <1>1, <1>2, <1>3, <1>4, <1>5, <1>6, NothingShown

LEMMA EnsureShown ==
  ASSUME IInv, IInv', AgesInv, ShownInv, NEW k \in Key, NEW now \in Wall,
         EnsureLocalVersions(k, now)
  PROVE  AgesInv' /\ ShownInv'
<1>. DEFINE w == [version |-> NextTs(Origin(k), now), tombstone |-> FALSE]
<1>1. Stamped(k, w) /\ UNCHANGED <<foreign, silence, up, cut, sweep, age, msgs>>
  BY DEF EnsureLocalVersions, world, time
<1>2. /\ w.version = NextTs(Origin(k), now) /\ w.tombstone \in BOOLEAN
      /\ w = [version |-> w.version, tombstone |-> w.tombstone]
  OBVIOUS
<1>. HIDE DEF w
<1>. QED BY <1>1, <1>2, StampShown

LEMMA HookShown ==
  ASSUME IInv, IInv', ContentInv, AgesInv, ShownInv, NEW k \in Key, NEW now \in Wall,
         OnLocalMutation(k, now)
  PROVE  AgesInv' /\ ShownInv'
<1>. DEFINE w == [version |-> NextTs(Origin(k), now), tombstone |-> hook[k] = "deregister"]
            env == [version |-> w.version, tombstone |-> w.tombstone, value |-> registry[k]]
<1>1. /\ Stamped(k, w) /\ UNCHANGED <<foreign, silence, up, cut, sweep, age>>
      /\ msgs' = msgs \cup {[from |-> Origin(k), to |-> p, key |-> k, env |-> env] :
                            p \in {q \in Peers(Origin(k)) : Reach(Origin(k), q)}}
  BY DEF OnLocalMutation, world, time
<1>2. /\ w.version = NextTs(Origin(k), now) /\ w.tombstone \in BOOLEAN
      /\ w = [version |-> w.version, tombstone |-> w.tombstone]
      /\ env.tombstone = (hook[k] = "deregister") /\ env.value = registry[k]
  OBVIOUS
<1>3. Empty(env)
  BY <1>2 DEF Empty, ContentInv, HookTells
<1>. HIDE DEF w, env
<1>4. \A m \in msgs' \ msgs : m.key = k /\ m.from = Origin(k) /\ Empty(m.env)
  BY <1>1, <1>3
<1>. QED BY <1>1, <1>2, <1>4, StampShown

(* The steps that stamp nothing and copy nothing. *)
LEMMA StillShown ==
  ASSUME IInv', AgesInv, ShownInv, UNCHANGED <<stamp, published, age>>, msgs' \subseteq msgs,
         \A n \in Node, k \in Key : foreign'[n][k] \in {NoEnv, foreign[n][k]},
         \A n \in Node, k \in Key :
           foreign'[n][k] # NoEnv => (Session(n, Origin(k)) => Session(n, Origin(k))'),
         \A n, p \in Node : Connected(n, p)' => Connected(n, p),
         \A n, p \in Node : Connected(n, p) /\ Done(p, n)' => Done(p, n)
  PROVE  AgesInv' /\ ShownInv'
<1>1. AgesInv' /\ \A k \in Key : Young(k) => Young(k)'
  BY SameAges
<1>2. \A m \in msgs' : m.key \in Key /\ m \in msgs
  BY DEF IInv, MessageIsWrite
<1>. QED BY <1>1, <1>2, NothingShown

LEMMA OtherShown ==
  ASSUME IInv', AgesInv, ShownInv,
         \/ UNCHANGED vars
         \/ \E k \in Key, value \in Value \cup {None} : Mutate(k, value)
         \/ \E m \in msgs : Lose(m)
         \/ \E n, p \in Node : Cut(n, p)
         \/ CalmDown
  PROVE  AgesInv' /\ ShownInv'
<1>1. /\ UNCHANGED <<stamp, published, age, foreign, silence, up, sweep>>
      /\ msgs' \subseteq msgs /\ cut \subseteq cut'
  BY DEF vars, local, time, world, Mutate, Lose, Cut, CalmDown
<1>2. \A n, p \in Node : (Connected(n, p)' => Connected(n, p)) /\ (Session(n, p)' <=> Session(n, p))
  BY <1>1 DEF Connected, Reach, Session
<1>3. \A n, p \in Node : Done(p, n)' => Done(p, n)
  BY <1>1 DEF Done
<1>. QED BY <1>1, <1>2, <1>3, KeyParts, StillShown

LEMMA HealShown ==
  ASSUME IInv', Noticing, AgesInv, ShownInv, NEW n \in Node, NEW p \in Node, Heal(n, p)
  PROVE  AgesInv' /\ ShownInv'
<1>1. /\ UNCHANGED <<stamp, published, age, foreign, silence, up, sweep, msgs>>
      /\ cut' = cut \ {{n, p}} /\ ~Session(n, p) /\ ~Session(p, n)
  BY DEF Heal, Noticing, Noticed, local, time
<1>2. \A q, r \in Node : Session(q, r)' <=> Session(q, r)
  BY <1>1 DEF Session
<1>3. ASSUME NEW q \in Node, NEW r \in Node, Connected(q, r)'
      PROVE  Connected(q, r)
  <2>1. Session(q, r) /\ Session(r, q)
    BY <1>2, <1>3 DEF Connected
  <2>2. {q, r} # {n, p}
    BY <1>1, <2>1
  <2>. QED BY <1>1, <1>3, <2>1, <2>2 DEF Connected, Reach
<1>4. \A q, r \in Node : Done(r, q)' => Done(r, q)
  BY <1>1 DEF Done
<1>. QED BY <1>1, <1>2, <1>3, <1>4, KeyParts, StillShown

LEMMA RestartShown ==
  ASSUME IInv', Noticing, SessionsInv, AgesInv, ShownInv, NEW n \in Node, Restart(n)
  PROVE  AgesInv' /\ ShownInv'
<1>1. /\ UNCHANGED <<stamp, published, age, foreign, silence, cut, sweep, msgs>>
      /\ up' = up \cup {n} /\ n \notin up
  BY DEF Restart, local, time
<1>2. \A q, r \in Node : Session(q, r)' <=> Session(q, r)
  BY <1>1 DEF Session
<1>3. ASSUME NEW q \in Node, NEW r \in Node, Connected(q, r)'
      PROVE  Connected(q, r)
  <2>1. Session(q, r) /\ Session(r, q)
    BY <1>2, <1>3 DEF Connected
  <2>2. q # n /\ r # n
    BY <1>1, <2>1 DEF SessionsInv, DownIsQuiet
  <2>. QED BY <1>1, <1>3, <2>1, <2>2 DEF Connected, Reach
<1>4. \A q, r \in Node : Done(r, q)' => Done(r, q)
  BY <1>1 DEF Done
<1>. QED BY <1>1, <1>2, <1>3, <1>4, KeyParts, StillShown

LEMMA SweepShown ==
  ASSUME IInv', SessionsInv, Noticing, AgesInv, ShownInv, NEW n \in Node,
         StartSweep(n) \/ \E p \in Node : ReconcileFails(n, p)
  PROVE  AgesInv' /\ ShownInv'
<1>1. UNCHANGED <<stamp, published, age, foreign, silence, up, cut, msgs>>
  BY DEF StartSweep, ReconcileFails, local, time, world
<1>2. \A q, r \in Node : /\ Session(q, r)' <=> Session(q, r)
                         /\ Connected(q, r)' <=> Connected(q, r)
  BY <1>1 DEF Session, Connected, Reach
<1>3. sweep \in [Node -> SUBSET (Node \cup {None})]
  BY SessionParts
<1>4. ASSUME NEW q \in Node, NEW r \in Node, Connected(q, r), Done(r, q)'
      PROVE  Done(r, q)
  <2>1. CASE r # n
    <3>1. sweep'[r] = sweep[r]
      BY <1>3, <2>1 DEF StartSweep, ReconcileFails
    <3>. QED BY <1>4, <3>1 DEF Done
  <2>2. CASE r = n /\ StartSweep(n)
    <3>1. sweep'[n] = Peers(n)
      BY <1>3, <2>2 DEF StartSweep
    <3>2. q \in Peers(n)
      BY <1>4, <2>2 DEF Connected, Peers
    <3>. QED BY <1>4, <2>2, <3>1, <3>2 DEF Done
  <2>3. ASSUME NEW p \in Node, r = n, ReconcileFails(n, p)
        PROVE  Done(r, q)
    <3>1. p \in sweep[n] /\ sweep'[n] = sweep[n] \ {p} /\ ~Reach(n, p)
      BY <1>3, <2>3 DEF ReconcileFails, Sweeping, Steady, Noticing
    <3>2. q # p
      BY <1>4, <2>3, <3>1 DEF Connected, Reach
    <3>3. sweep[n] # NotSweeping
      BY <3>1 DEF NotSweeping
    <3>. QED BY <1>4, <2>3, <3>1, <3>2, <3>3 DEF Done
  <2>. QED BY <2>1, <2>2, <2>3
<1>. QED BY <1>1, <1>2, <1>4, KeyParts, StillShown

LEMMA EmitShown ==
  ASSUME IInv', SessionsInv, AgesInv, ShownInv, NEW n \in Node, EmitKeepalive(n)
  PROVE  AgesInv' /\ ShownInv'
<1>1. /\ UNCHANGED <<stamp, published, age, foreign, up, cut, sweep, msgs>>
      /\ silence' = [p \in Node |-> [silence[p] EXCEPT ![n] =
           IF Session(n, p) /\ Reach(n, p) /\ Session(p, n) THEN 0 ELSE silence[p][n]]]
  BY DEF EmitKeepalive, local, world
<1>2. silence \in [Node -> [Node -> {NoSession} \cup Nat]]
  BY SessionParts
<1>3. \A q, r \in Node : Session(q, r)' <=> Session(q, r)
  BY <1>1, <1>2 DEF Session, NoSession
<1>4. \A q, r \in Node : Connected(q, r)' => Connected(q, r)
  BY <1>1, <1>3, SessionsConnect
<1>5. \A q, r \in Node : Done(r, q)' => Done(r, q)
  BY <1>1 DEF Done
<1>. QED BY <1>1, <1>3, <1>4, <1>5, KeyParts, StillShown

LEMMA EvictShown ==
  ASSUME IInv, IInv', SessionsInv, AgesInv, ShownInv, NEW n \in Node, NEW gone, Evict(n, gone),
         UNCHANGED <<stamp, published, age, up, cut, sweep, msgs>>
  PROVE  AgesInv' /\ ShownInv'
<1>1. /\ silence' = [silence EXCEPT ![n] =
           [p \in Node |-> IF p \in gone THEN NoSession ELSE silence[n][p]]]
      /\ foreign' = [foreign EXCEPT ![n] =
           [k \in Key |-> IF Origin(k) \in gone THEN NoEnv ELSE foreign[n][k]]]
  BY DEF Evict
<1>2. /\ silence \in [Node -> [Node -> {NoSession} \cup Nat]]
      /\ foreign \in [Node -> [Key -> AnyEnv]]
  BY SessionParts DEF IInv, Typed
<1>3. \A q, r \in Node : Session(q, r)' <=> Session(q, r) /\ ~(q = n /\ r \in gone)
  BY <1>1, <1>2 DEF Session, NoSession
<1>4. \A q \in Node, k \in Key :
        foreign'[q][k] = IF q = n /\ Origin(k) \in gone THEN NoEnv ELSE foreign[q][k]
  BY <1>1, <1>2
<1>5. \A q, r \in Node : Connected(q, r)' => Connected(q, r)
  BY <1>3, SessionsConnect
<1>6. \A q, r \in Node : Done(r, q)' => Done(r, q)
  BY DEF Done
<1>. QED BY <1>3, <1>4, <1>5, <1>6, KeyParts, StillShown

LEMMA CrashShown ==
  ASSUME IInv, IInv', SessionsInv, AgesInv, ShownInv, NEW n \in Node, Crash(n)
  PROVE  AgesInv' /\ ShownInv'
<1>1. /\ UNCHANGED <<stamp, published, age, cut>> /\ msgs' \subseteq msgs /\ up' = up \ {n}
      /\ silence' = [silence EXCEPT ![n] = [p \in Node |-> NoSession]]
      /\ foreign' = [foreign EXCEPT ![n] = [k \in Key |-> NoEnv]]
      /\ sweep' = [sweep EXCEPT ![n] = NotSweeping]
  BY DEF Crash
<1>2. /\ silence \in [Node -> [Node -> {NoSession} \cup Nat]]
      /\ foreign \in [Node -> [Key -> AnyEnv]]
      /\ sweep \in [Node -> SUBSET (Node \cup {None})]
  BY SessionParts DEF IInv, Typed
<1>3. \A q, r \in Node : Session(q, r)' <=> Session(q, r) /\ q # n
  BY <1>1, <1>2 DEF Session, NoSession
<1>4. \A q \in Node, k \in Key : foreign'[q][k] = IF q = n THEN NoEnv ELSE foreign[q][k]
  BY <1>1, <1>2
<1>5. \A q, r \in Node : Connected(q, r)' => Connected(q, r)
  BY <1>1, <1>3 DEF Connected, Reach
<1>6. \A q, r \in Node : Done(r, q)' => Done(r, q)
  BY <1>1, <1>2 DEF Done
<1>. QED BY <1>1, <1>3, <1>4, <1>5, <1>6, KeyParts, StillShown

(* The origin collects a tombstone that its pass has taken to everyone. *)
LEMMA GcShown ==
  ASSUME IInv, IInv', SessionsInv, AgesInv, ShownInv, NEW n \in Node, GcTombstones(n)
  PROVE  AgesInv' /\ ShownInv'
<1>1. /\ stamp' = [k \in Key |-> IF Origin(k) = n /\ Expired(k, stamp[k])
                                 THEN NoStamp ELSE stamp[k]]
      /\ foreign' = [foreign EXCEPT ![n] =
           [k \in Key |-> IF Expired(k, foreign[n][k]) THEN NoEnv ELSE foreign[n][k]]]
      /\ sweep[n] = {} /\ sweep' = [sweep EXCEPT ![n] = NotSweeping]
      /\ UNCHANGED <<silence, up, cut, msgs>>
  BY DEF GcTombstones, world, time
<1>2. /\ foreign \in [Node -> [Key -> AnyEnv]]
      /\ sweep \in [Node -> SUBSET (Node \cup {None})]
      /\ stamp \in [Key -> Write \cup {NoStamp}]
  BY SessionParts DEF IInv, Typed
<1>3. AgesInv' /\ \A k \in Key : Young(k) => Young(k)'
  BY GcAges
<1>4. \A q, r \in Node : /\ Session(q, r)' <=> Session(q, r)
                         /\ Connected(q, r)' <=> Connected(q, r)
  BY <1>1 DEF Session, Connected, Reach
<1>5. \A q \in Node, k \in Key : foreign'[q][k] \in {NoEnv, foreign[q][k]}
  BY <1>1, <1>2
<1>6. \A m \in msgs' : m.key \in Key /\ m \in msgs
  BY <1>1 DEF IInv, MessageIsWrite
<1>7. \A q \in Node, k \in Key : Empty(foreign'[q][k])
  BY <1>5, NoEnvParts DEF Empty, ShownInv, CopiesEmpty
<1>8. \A q \in Node, k \in Key : foreign'[q][k] # NoEnv => Session(q, Origin(k))'
  BY <1>4, <1>5, KeyParts DEF ShownInv, CopiesHaveSession
<1>9. ASSUME NEW q \in Node, NEW k \in Key, Shows(q, k)'
      PROVE  \/ Young(k)'
             \/ /\ Shows(q, k) /\ (stamp[k] # NoStamp => stamp'[k] # NoStamp)
                /\ Done(Origin(k), q)' => Done(Origin(k), q)
  <2>1. Shows(q, k)
    BY <1>4, <1>5, <1>9, KeyParts, NoEnvParts DEF Shows, Visible
  <2>2. CASE Origin(k) = n
    <3>1. Done(n, q)
      BY <1>1 DEF Done, NotSweeping
    <3>2. Young(k)
      BY <2>1, <2>2, <3>1 DEF ShownInv, ShownIsStamped
    <3>. QED BY <1>3, <3>2
  <2>3. CASE Origin(k) # n
    <3>1. stamp'[k] = stamp[k] /\ sweep'[Origin(k)] = sweep[Origin(k)]
      BY <1>1, <1>2, <2>3, KeyParts
    <3>. QED BY <2>1, <3>1 DEF Done
  <2>. QED BY <2>2, <2>3
<1>10. ShownInv'
  BY <1>3, <1>6, <1>7, <1>8, <1>9, ShownKept
<1>. QED BY <1>3, <1>10

LEMMA HeldEmpty ==
  ASSUME ShownInv, NEW p \in Node, NEW k \in Key
  PROVE  Empty(Held(p, k))
BY NoEnvParts DEF Empty, Held, LocalEnvelope, ShownInv, CopiesEmpty

LEMMA AppliedEmpty ==
  ASSUME ShownInv, NEW n \in Node, NEW k \in Key, NEW env, Empty(env), NEW refused
  PROVE  Empty(Apply(n, k, env, refused))
BY DEF Apply, ShownInv, CopiesEmpty

(* Who has exchanged a record with its origin shows it no longer, if it is    *)
(* deleted.                                                                *)
LEMMA OriginShown ==
  ASSUME IInv, AgesInv, ShownInv, NEW n \in Node, NEW k \in Key,
         NEW refused, Origin(k) \notin refused, Origin(k) # n,
         NEW env, env = (IF k \in NewerAt(Origin(k), n)
                         THEN Apply(n, k, Held(Origin(k), k), refused) ELSE foreign[n][k]),
         env.value # None
  PROVE  Young(k) \/ (stamp[k] = NoStamp /\ env = foreign[n][k])
<1>. DEFINE held == Held(Origin(k), k)
<1>1. held = LocalEnvelope(k)
  BY DEF Held
<1>2. foreign[n][k] \in AnyEnv /\ stamp[k] \in Write \cup {NoStamp}
  BY DEF IInv, Typed
<1>3. k \in NewerAt(Origin(k), n) <=> held.version > foreign[n][k].version
  <2>1. Held(n, k) = foreign[n][k]
    BY DEF Held
  <2>. QED BY <2>1 DEF NewerAt, Newer
<1>4. env = IF held.version > foreign[n][k].version THEN held ELSE foreign[n][k]
  BY <1>3 DEF Apply, Newer
<1>5. CASE stamp[k] = NoStamp
  <2>1. held = NoEnv
    BY <1>1, <1>5, NoStampParts DEF LocalEnvelope
  <2>2. ~(0 > foreign[n][k].version)
    BY <1>2 DEF AnyEnv
  <2>. QED BY <1>4, <1>5, <2>1, <2>2, NoEnvParts
<1>6. CASE stamp[k] # NoStamp /\ ~stamp[k].tombstone
  BY <1>6 DEF Young
<1>7. CASE stamp[k] # NoStamp /\ stamp[k].tombstone
  <2>1. held = [version |-> stamp[k].version, tombstone |-> TRUE, value |-> None]
    BY <1>1, <1>7 DEF LocalEnvelope
  <2>2. env = foreign[n][k] /\ ~(stamp[k].version > foreign[n][k].version)
    BY <1>4, <2>1
  <2>3. foreign[n][k] # NoEnv /\ CopyOf(foreign[n][k]) \in published[k]
    BY <2>2, NoEnvParts DEF IInv, CopyIsWrite, Written
  <2>4. stamp[k] \in published[k] /\ stamp[k].version \in Nat
    BY <1>2, <1>7, VersionIsNat DEF IInv, StampIsWrite
  <2>5. foreign[n][k].version <= stamp[k].version /\ foreign[n][k].version \in Nat
    BY <1>2, <1>7, <2>3 DEF AgesInv, CopyOf, AnyEnv
  <2>6. foreign[n][k].version = stamp[k].version
    BY <2>2, <2>4, <2>5
  <2>7. CopyOf(foreign[n][k]) = stamp[k]
    BY <2>3, <2>4, <2>6 DEF AgesInv, CopyOf
  <2>8. foreign[n][k].tombstone
    BY <1>7, <2>7 DEF CopyOf
  <2>. QED BY <2>2, <2>8 DEF ShownInv, CopiesEmpty, Empty
<1>. QED BY <1>5, <1>6, <1>7

(* An exchange between the two nodes: who does not refuse the other is told,  *)
(* and who does has no session with it.                                    *)
LEMMA ExchangeShown ==
  ASSUME TwoNodes, IInv, IInv', CooldownInv', AgesInv, ShownInv,
         NEW n \in Node, NEW p \in Node, n # p, NEW byN, NEW byP,
         foreign' = Exchanged(n, p, byN, byP, TRUE),
         UNCHANGED <<stamp, published, age, msgs>>,
         \A q, r \in Node : Session(q, r) => Session(q, r)',
         Session(n, p)' \/ suppressed'[n][p] > 0, Session(p, n)' \/ suppressed'[p][n] > 0,
         Session(n, p)' => p \notin byN, Session(p, n)' => n \notin byP,
         \A q, r \in Node : Session(q, r) /\ Connected(q, r)' => Connected(q, r)
  PROVE  AgesInv' /\ ShownInv'
<1>1. foreign \in [Node -> [Key -> AnyEnv]]
  BY DEF IInv, Typed
<1>2. AgesInv' /\ \A k \in Key : Young(k) => Young(k)'
  BY SameAges
<1>3. \A m \in msgs' : m.key \in Key /\ m \in msgs
  BY DEF IInv, MessageIsWrite
<1>4. ASSUME NEW k \in Key
      PROVE  /\ foreign'[n][k] = IF k \in NewerAt(p, n) THEN Apply(n, k, Held(p, k), byN)
                                 ELSE foreign[n][k]
             /\ foreign'[p][k] = IF k \in NewerAt(n, p) THEN Apply(p, k, Held(n, k), byP)
                                 ELSE foreign[p][k]
  BY <1>1 DEF Exchanged
<1>5. \A q \in Node : q \in {n, p}
  BY DEF TwoNodes
<1>6. ASSUME NEW q \in Node, NEW k \in Key
      PROVE  Empty(foreign'[q][k])
  <2>1. Empty(foreign[q][k])
    BY DEF ShownInv, CopiesEmpty
  <2>2. /\ Empty(Apply(n, k, Held(p, k), byN))
        /\ Empty(Apply(p, k, Held(n, k), byP))
    BY HeldEmpty, AppliedEmpty
  <2>. QED BY <1>4, <1>5, <2>1, <2>2
<1>7. ASSUME NEW q \in Node, NEW k \in Key, Origin(k) = q
      PROVE  foreign'[q][k] = foreign[q][k]
  BY <1>4, <1>5, <1>7 DEF Apply
<1>8. ASSUME NEW q \in Node, NEW k \in Key, foreign'[q][k] # NoEnv
      PROVE  Session(q, Origin(k))'
  <2>1. CASE Origin(k) = q
    BY <1>7, <1>8, <2>1 DEF ShownInv, CopiesHaveSession
  <2>2. CASE Origin(k) # q
    <3>1. ~(suppressed'[q][Origin(k)] > 0)
      BY <1>8 DEF CooldownInv, EvictedStayGone
    <3>2. (q = n /\ Origin(k) = p) \/ (q = p /\ Origin(k) = n)
      BY <1>5, <2>2, KeyParts
    <3>. QED BY <3>1, <3>2
  <2>. QED BY <2>1, <2>2
<1>9. ASSUME NEW q \in Node, NEW k \in Key, Shows(q, k)'
      PROVE  Young(k)'
  <2>1. /\ Connected(q, Origin(k))' /\ foreign'[q][k].value # None
        /\ Session(q, Origin(k))' /\ Origin(k) # q
    BY <1>9 DEF Shows, Visible, Connected, Reach
  <2>2. (q = n /\ Origin(k) = p) \/ (q = p /\ Origin(k) = n)
    BY <1>5, <2>1, KeyParts
  <2>3. Young(k) \/ (stamp[k] = NoStamp /\ foreign'[q][k] = foreign[q][k])
    <3>1. CASE q = n /\ Origin(k) = p
      <4>1. PICK env : env = foreign'[q][k]
        OBVIOUS
      <4>2. env = (IF k \in NewerAt(Origin(k), q)
                   THEN Apply(q, k, Held(Origin(k), k), byN) ELSE foreign[q][k])
        BY <1>4, <3>1, <4>1
      <4>3. env.value # None /\ Origin(k) \notin byN /\ Origin(k) # q
        BY <2>1, <3>1, <4>1
      <4>. QED BY <4>1, <4>2, <4>3, OriginShown
    <3>2. CASE q = p /\ Origin(k) = n
      <4>1. PICK env : env = foreign'[q][k]
        OBVIOUS
      <4>2. env = (IF k \in NewerAt(Origin(k), q)
                   THEN Apply(q, k, Held(Origin(k), k), byP) ELSE foreign[q][k])
        BY <1>4, <3>2, <4>1
      <4>3. env.value # None /\ Origin(k) \notin byP /\ Origin(k) # q
        BY <2>1, <3>2, <4>1
      <4>. QED BY <4>1, <4>2, <4>3, OriginShown
    <3>. QED BY <2>2, <3>1, <3>2
  <2>4. CASE stamp[k] = NoStamp /\ foreign'[q][k] = foreign[q][k]
    <3>1. foreign[q][k] # NoEnv
      BY <2>1, <2>4, NoEnvParts
    <3>2. Session(q, Origin(k))
      BY <3>1 DEF ShownInv, CopiesHaveSession
    <3>3. Shows(q, k)
      BY <2>1, <2>4, <3>2, KeyParts DEF Shows, Visible
    <3>. QED BY <2>4, <3>3 DEF ShownInv, ShownIsStamped
  <2>. QED BY <1>2, <2>3, <2>4
<1>10. ShownInv'
  BY <1>2, <1>3, <1>6, <1>8, <1>9, ShownKept
<1>. QED BY <1>2, <1>10

LEMMA ReconcileShown ==
  ASSUME TwoNodes, Noticing, IInv, IInv', CooldownInv', SessionsInv, AgesInv, ShownInv,
         SuppressedTyped, NEW n \in Node, NEW p \in Node, Reconcile(n, p)
  PROVE  AgesInv' /\ ShownInv'
<1>1. /\ n # p /\ n \in up /\ p \in up /\ p \in sweep[n]
      /\ foreign' = Exchanged(n, p, Refused(n), Refused(p), TRUE)
      /\ silence' = Touched(p, n)
      /\ UNCHANGED <<stamp, published, age, msgs, suppressed, up, cut>>
  BY DEF Reconcile, Sweeping, Reach, Steady, Noticing, local, world
<1>2. silence \in [Node -> [Node -> {NoSession} \cup Nat]]
  BY SessionParts
<1>3. \A q, r \in Node : Session(q, r)' <=> Session(q, r)
  BY <1>1, <1>2 DEF Touched, Session, NoSession
<1>4. \A q, r \in Node : Connected(q, r)' => Connected(q, r)
  BY <1>1, <1>3, SessionsConnect
<1>5. /\ Session(n, p)' \/ suppressed'[n][p] > 0
      /\ Session(p, n)' \/ suppressed'[p][n] > 0
  BY <1>1, <1>3 DEF SessionsInv, Refusing, Meets
<1>6. (Session(n, p)' => p \notin Refused(n)) /\ (Session(p, n)' => n \notin Refused(p))
  BY <1>3 DEF SessionsInv, SessionsLive, Refused
<1>. QED BY <1>1, <1>3, <1>4, <1>5, <1>6, ExchangeShown

LEMMA ConnectShown ==
  ASSUME TwoNodes, Noticing, IInv, IInv', CooldownInv', SessionsInv, AgesInv, ShownInv,
         NEW n \in Node, NEW p \in Node, ConnectPeer(n, p)
  PROVE  AgesInv' /\ ShownInv'
<1>1. /\ n # p /\ ~Session(n, p) /\ ~Session(p, n)
      /\ foreign' = Exchanged(n, p, Refused(n) \ {p}, Refused(p) \ {n}, TRUE)
      /\ silence' = [silence EXCEPT ![p][n] = 0, ![n][p] = 0]
      /\ UNCHANGED <<stamp, published, age, msgs, up, cut>>
  BY DEF ConnectPeer, Opened, Noticed, Reach, Steady, Noticing, local, world
<1>2. silence \in [Node -> [Node -> {NoSession} \cup Nat]]
  BY SessionParts
<1>3. Session(n, p)' /\ Session(p, n)'
  BY <1>1, <1>2 DEF Session, NoSession
<1>4. \A q, r \in Node :
        \/ silence'[q][r] = silence[q][r]
        \/ (q = n /\ r = p /\ silence'[q][r] = 0) \/ (q = p /\ r = n /\ silence'[q][r] = 0)
  BY <1>1, <1>2
<1>5. \A q, r \in Node : Session(q, r) => Session(q, r)'
  BY <1>4 DEF Session, NoSession
<1>6. ASSUME NEW q \in Node, NEW r \in Node, Session(q, r), Connected(q, r)'
      PROVE  Connected(q, r)
  <2>1. q # r
    BY <1>6 DEF Connected, Reach
  <2>2. (q = n /\ r = p) \/ (q = p /\ r = n)
    BY <2>1, <1>1 DEF TwoNodes
  <2>. QED BY <1>1, <1>6, <2>2
<1>7. p \notin Refused(n) \ {p} /\ n \notin Refused(p) \ {n}
  OBVIOUS
<1>. QED BY <1>1, <1>3, <1>5, <1>6, <1>7, ExchangeShown

(* A message comes from its record's origin, which still has its stamp. *)
LEMMA ServeShown ==
  ASSUME Noticing, IInv, IInv', CooldownInv', SessionsInv, AgesInv, ShownInv,
         NEW m \in msgs, ServeUpdates(m)
  PROVE  AgesInv' /\ ShownInv'
<1>1. /\ m.to \in Node /\ m.key \in Key /\ m.from = Origin(m.key)
      /\ Young(m.key) /\ Empty(m.env)
  BY DEF IInv, MessageIsWrite, ShownInv, MessagesFresh
<1>. DEFINE applied == Apply(m.to, m.key, m.env, Refused(m.to))
<1>2. /\ m.to \in up /\ silence' = Touched(m.to, m.from)
      /\ foreign' = [foreign EXCEPT ![m.to][m.key] = applied]
      /\ msgs' \subseteq msgs
      /\ UNCHANGED <<stamp, published, age, suppressed, sweep, up, cut>>
  BY DEF ServeUpdates, Reach, local, world
<1>3. silence \in [Node -> [Node -> {NoSession} \cup Nat]] /\ foreign \in [Node -> [Key -> AnyEnv]]
  BY SessionParts DEF IInv, Typed
<1>4. \A q, r \in Node : Session(q, r)' <=> Session(q, r)
  BY <1>1, <1>2, <1>3, KeyParts DEF Touched, Session, NoSession
<1>5. \A q, r \in Node : Connected(q, r)' => Connected(q, r)
  BY <1>2, <1>4, SessionsConnect
<1>6. AgesInv' /\ \A k \in Key : Young(k) => Young(k)'
  BY <1>2, SameAges
<1>7. \A x \in msgs' : x.key \in Key /\ x \in msgs
  BY <1>2 DEF IInv, MessageIsWrite
<1>8. Empty(applied)
  BY <1>1, AppliedEmpty
<1>. HIDE DEF applied
<1>9. \A q \in Node, k \in Key :
        foreign'[q][k] = IF q = m.to /\ k = m.key THEN applied ELSE foreign[q][k]
  BY <1>1, <1>2, <1>3
<1>10. \A q \in Node, k \in Key : Empty(foreign'[q][k])
  BY <1>8, <1>9 DEF ShownInv, CopiesEmpty
<1>11. ASSUME NEW q \in Node, NEW k \in Key, foreign'[q][k] # NoEnv
       PROVE  Session(q, Origin(k))'
  <2>1. CASE q = m.to /\ k = m.key
    <3>1. ~(suppressed[q][Origin(k)] > 0)
      BY <1>2, <1>11 DEF CooldownInv, EvictedStayGone
    <3>2. Sending(Origin(k), q)
      BY <1>1, <2>1 DEF Sending
    <3>3. Session(q, Origin(k))
      BY <1>2, <2>1, <3>1, <3>2, KeyParts DEF SessionsInv, Refusing, Meets
    <3>. QED BY <1>4, <3>3, KeyParts
  <2>2. CASE ~(q = m.to /\ k = m.key)
    BY <1>4, <1>9, <1>11, <2>2, KeyParts DEF ShownInv, CopiesHaveSession
  <2>. QED BY <2>1, <2>2
<1>12. ASSUME NEW q \in Node, NEW k \in Key, Shows(q, k)'
       PROVE  \/ Young(k)'
              \/ /\ Shows(q, k) /\ (stamp[k] # NoStamp => stamp'[k] # NoStamp)
                 /\ Done(Origin(k), q)' => Done(Origin(k), q)
  <2>1. CASE q = m.to /\ k = m.key
    BY <1>1, <1>6, <2>1
  <2>2. CASE ~(q = m.to /\ k = m.key)
    <3>1. Shows(q, k)
      BY <1>5, <1>9, <1>12, <2>2, KeyParts DEF Shows, Visible
    <3>. QED BY <1>2, <3>1 DEF Done
  <2>. QED BY <2>1, <2>2
<1>13. ShownInv'
  BY <1>6, <1>7, <1>10, <1>11, <1>12, ShownKept
<1>. QED BY <1>6, <1>13

LEMMA TickShown ==
  ASSUME Noticing, SessionsInv, AgesInv, ShownInv, Tick
  PROVE  AgesInv' /\ ShownInv'
<1>1. /\ msgs' = {} /\ \A n \in up : sweep[n] = NotSweeping
      /\ silence' = [n \in Node |-> [p \in Node |->
           IF Session(n, p) THEN silence[n][p] + 1 ELSE NoSession]]
      /\ UNCHANGED <<stamp, foreign, up, cut, sweep>>
  BY DEF Tick, Noticing, local, world
<1>2. silence \in [Node -> [Node -> {NoSession} \cup Nat]]
  BY SessionParts
<1>3. \A q, r \in Node : Session(q, r)' <=> Session(q, r)
  BY <1>1, <1>2 DEF Session, NoSession
<1>4. \A q, r \in Node : Connected(q, r)' => Connected(q, r)
  BY <1>1, <1>3, SessionsConnect
<1>5. MessagesFresh' /\ CopiesEmpty' /\ CopiesHaveSession'
  BY <1>1, <1>3, KeyParts DEF MessagesFresh, ShownInv, CopiesEmpty, Empty, CopiesHaveSession
<1>6. ShownIsStamped'
  <2>. SUFFICES ASSUME NEW n \in Node, NEW k \in Key, Shows(n, k)'
                PROVE  stamp'[k] # NoStamp /\ ~Done(Origin(k), n)'
    BY DEF ShownIsStamped
  <2>1. Shows(n, k)
    BY <1>1, <1>4, KeyParts DEF Shows, Visible
  <2>2. Origin(k) \in up
    BY <2>1 DEF Shows, Connected, Reach
  <2>. QED BY <1>1, <2>1, <2>2 DEF ShownInv, ShownIsStamped, Done
<1>. QED BY <1>5, <1>6, TickAges DEF ShownInv

-----------------------------------------------------------------------------
GcInv == SessionsInv /\ AgesInv /\ ShownInv

LEMMA OpenNeverFails ==
  ASSUME Noticing, NEW n \in Node, NEW p \in Node
  PROVE  ~ConnectPeerFails(n, p)
BY DEF ConnectPeerFails, Steady, Noticing

LEMMA NextKeepsGc ==
  ASSUME TwoNodes, Noticing, IInv, IInv', CooldownInv, CooldownInv', ContentInv, GcInv,
         [Next]_vars
  PROVE  GcInv'
<1>. SessionsInv /\ AgesInv /\ ShownInv /\ SuppressedTyped
  BY DEF GcInv, CooldownInv
<1>1. ASSUME NEW k \in Key, NEW now \in Wall,
             OnLocalMutation(k, now) \/ EnsureLocalVersions(k, now)
      PROVE  GcInv'
  BY <1>1, HookSessions, OtherSessions, HookShown, EnsureShown DEF GcInv
<1>2. ASSUME NEW m \in msgs, ServeUpdates(m)
      PROVE  GcInv'
  BY <1>2, ServeSessions, ServeShown DEF GcInv
<1>3. ASSUME NEW n \in Node, NEW p \in Node, ConnectPeer(n, p) \/ Reconcile(n, p)
      PROVE  GcInv'
  BY <1>3, ConnectSessions, ReconcileSessions, ConnectShown, ReconcileShown DEF GcInv
<1>4. ASSUME NEW n \in Node, NEW p \in Node, ReconcileFails(n, p)
      PROVE  GcInv'
  <2>1. sweep' = [sweep EXCEPT ![n] = sweep[n] \ {p}] /\ UNCHANGED <<silence, suppressed, up, msgs>>
    BY <1>4 DEF ReconcileFails, world, time
  <2>2. SessionsInv'
    BY <2>1, SweepSessions
  <2>. QED BY <1>4, <2>2, SweepShown DEF GcInv
<1>5. ASSUME NEW n \in Node, StartSweep(n)
      PROVE  GcInv'
  <2>1. sweep' = [sweep EXCEPT ![n] = Peers(n)] /\ UNCHANGED <<silence, suppressed, up, msgs>>
    BY <1>5 DEF StartSweep, world, time
  <2>2. SessionsInv'
    BY <2>1, SweepSessions
  <2>. QED BY <1>5, <2>2, SweepShown DEF GcInv
<1>6. ASSUME NEW n \in Node, GcTombstones(n)
      PROVE  GcInv'
  <2>1. sweep' = [sweep EXCEPT ![n] = NotSweeping] /\ UNCHANGED <<silence, suppressed, up, msgs>>
    BY <1>6 DEF GcTombstones, world, time
  <2>2. SessionsInv'
    BY <2>1, SweepSessions
  <2>. QED BY <1>6, <2>2, GcShown DEF GcInv
<1>7. ASSUME NEW n \in Node, NEW gone, Evict(n, gone),
             UNCHANGED <<local, sweep, msgs, world, age, published>>
      PROVE  GcInv'
  <2>1. UNCHANGED <<stamp, published, age, up, cut, sweep, msgs>>
    BY <1>7 DEF local, world
  <2>. QED BY <1>7, <2>1, EvictSessions, EvictShown DEF GcInv
<1>8. ASSUME NEW n \in Node, NEW p \in Node, RemovePeer(n, p)
      PROVE  GcInv'
  BY <1>7, <1>8 DEF RemovePeer
<1>9. ASSUME NEW n \in Node, CheckHold(n)
      PROVE  GcInv'
  BY <1>7, <1>9 DEF CheckHold
<1>10. ASSUME NEW n \in Node, EmitKeepalive(n) \/ Crash(n) \/ Restart(n)
       PROVE  GcInv'
  BY <1>10, EmitSessions, CrashSessions, RestartSessions, EmitShown, CrashShown, RestartShown
  DEF GcInv
<1>11. ASSUME NEW n \in Node, NEW p \in Node, Heal(n, p)
       PROVE  GcInv'
  BY <1>11, OtherSessions, HealShown DEF GcInv
<1>12. ASSUME Tick
       PROVE  GcInv'
  BY <1>12, TickSessions, TickShown DEF GcInv
<1>13. ASSUME \/ UNCHANGED vars
              \/ \E k \in Key, value \in Value \cup {None} : Mutate(k, value)
              \/ \E m \in msgs : Lose(m)
              \/ \E n, p \in Node : Cut(n, p)
              \/ CalmDown
       PROVE  GcInv'
  BY <1>13, OtherSessions, OtherShown DEF GcInv
<1>. QED BY <1>1, <1>2, <1>3, <1>4, <1>5, <1>6, <1>8, <1>9, <1>10, <1>11, <1>12, <1>13,
            OpenNeverFails, ZenonT(60) DEF Next

LEMMA InitGc == Init => GcInv
<1>. SUFFICES ASSUME Init PROVE GcInv
  OBVIOUS
<1>1. SessionsInv
  <2>1. \A n, p \in Node : ~Session(n, p) /\ p \notin sweep[n]
    BY DEF Init, Session, NotSweeping
  <2>2. SessionsTyped
    BY DEF Init, SessionsTyped, NotSweeping
  <2>3. DownIsQuiet /\ SessionsLive
    BY <2>1 DEF Init, DownIsQuiet, SessionsLive
  <2>4. Refusing
    BY <2>1 DEF Init, Refusing, Meets, Sending
  <2>. QED BY <2>2, <2>3, <2>4 DEF SessionsInv
<1>2. AgesInv
  BY DEF Init, AgesInv
<1>3. ShownInv
  BY NoEnvParts DEF Init, ShownInv, MessagesFresh, CopiesEmpty, Empty, CopiesHaveSession,
     ShownIsStamped, Shows, Visible
<1>. QED BY <1>1, <1>2, <1>3 DEF GcInv

(* gc_tombstones: collection of a tombstone brings no deleted record back,   *)
(* between two nodes whose outages are noticed and whose monitors are on    *)
(* time, whatever crashes, is cut off, removed or delayed.                 *)
THEOREM SpecGcIsSafe ==
  ASSUME TwoNodes, Noticing
  PROVE  Spec => []GcIsSafe
<1>1. IInv /\ IInv' /\ CooldownInv /\ CooldownInv' /\ ContentInv /\ GcInv /\ [Next]_vars => GcInv'
  BY NextKeepsGc
<1>2. GcInv => GcIsSafe
  BY DEF GcInv, ShownInv, ShownIsStamped, Shows, GcIsSafe
<1>. QED BY <1>1, <1>2, InitGc, SpecIInv, SpecCooldownInv, SpecContentInv, PTL DEF Spec
=============================================================================
