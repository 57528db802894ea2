----------------------- MODULE ClusterMembershipProofs -----------------------
(***************************************************************************)
(* What holds of the rosters for any number of nodes, operations, clusters *)
(* and failures, whatever the clocks of the nodes read, and whether or not  *)
(* operations overlap and removals are forgotten early.                     *)
(*                                                                         *)
(* Every record that circulates was made by a node that has given out its   *)
(* version, and none has given out one twice, unless it lapsed.             *)
(***************************************************************************)
EXTENDS ClusterMembership, FiniteSetTheorems, WellFoundedInduction, TLAPS

---------------------------------------------------------------------------
(* Types, without the bounds that the run puts on numbers.                  *)

AnyRecord == [cluster: Nat, at: Nat, by: Nat, removed: BOOLEAN]
AnyRow == [Node -> AnyRecord]
AnyCall ==
  [type: {"none", "join", "evict", "leave", "sync"}, from: Nat, to: Nat, cluster: Nat,
   records: AnyRow]
Adding == [stage: {"idle", "joining", "joined"}, member: Nat, cluster: Nat, answer: AnyRecord]

Typed ==
  /\ roster \in [Node -> AnyRow]
  /\ clock \in [Node -> Nat]
  /\ adding \in [Node -> Adding]
  /\ adopting \in [Node -> [call: AnyCall, old: Nat, left: SUBSET Node]]
  /\ disk \in [Node -> [roster: AnyRow, clock: Nat]]
  /\ \A m \in msgs : m \in AnyCall /\ m.from \in Node /\ m.to \in Node
  /\ up \subseteq Node /\ lapsed \subseteq Node
  /\ now \in Nat /\ ops \in Nat

(* A join that is being handled, is by a process that runs; and a member     *)
(* answers with a record of the cluster it was called to.                   *)
JoinInv ==
  \A n \in Node :
    /\ adopting[n] # NoJoin => n \in up
    /\ adding[n].stage = "joined" => adding[n].answer.cluster = adding[n].cluster

---------------------------------------------------------------------------
(* A record of node p is to be found somewhere: in a roster, on a disk, in a *)
(* call that is under way or is being handled, in an answer.                *)
Circulates(r, p) ==
  \/ \E n \in Node : r = roster[n][p] \/ r = disk[n].roster[p] \/ r = adopting[n].call.records[p]
  \/ \E m \in msgs : r = m.records[p]
  \/ \E n \in Node : adding[n].stage = "joined" /\ adding[n].member = p /\ r = adding[n].answer

(* The last version a node has given out, or the one it will go on from.    *)
Given(b) == IF b \in up THEN clock[b] ELSE disk[b].clock

(* The node that made it had given out its version.                        *)
Covered(r) == r.by \in Node /\ (r.by \notin lapsed => r.at <= Given(r.by))

SameVersion(r, s) == r.at = s.at /\ r.by = s.by /\ r.by \notin lapsed

VersionInv ==
  \A p \in Node :
    /\ \A r : Circulates(r, p) /\ r # Unknown => Covered(r)
    /\ \A r, s : Circulates(r, p) /\ Circulates(s, p) /\ r # Unknown /\ s # Unknown
                 => (SameVersion(r, s) => r = s)

(* RestartRemembers, of one node. *)
RemembersAt(n) ==
  \A p \in Node :
    LET inMemory == roster[n][p]
        onDisk == disk[n].roster[p]
    IN  adding[n] = Idle =>
          /\ onDisk # Unknown /\ ~onDisk.removed => inMemory = onDisk
          /\ inMemory.cluster # NoCluster /\ inMemory.cluster = ClusterOf(n, roster[n])
               => onDisk = inMemory

MembershipInv == Typed /\ JoinInv /\ VersionInv /\ RestartRemembers

---------------------------------------------------------------------------
(* Types of what the operators make. *)

LEMMA UnknownTyped == Unknown \in AnyRecord /\ Nobody \in AnyRow /\ Unknown.at = 0 /\ Unknown.by = 0
BY DEF Unknown, Nobody, AnyRecord, AnyRow, NoCluster

LEMMA IdleTyped ==
  /\ Idle \in Adding
  /\ Idle.stage = "idle" /\ Idle.answer = Unknown
BY UnknownTyped DEF Idle, Adding, NoCluster

LEMMA NoJoinTyped ==
  /\ NoJoin \in [call: AnyCall, old: Nat, left: SUBSET Node]
  /\ NoJoin.call.records = Nobody
<1>1. Call("none", 0, 0) \in AnyCall /\ Call("none", 0, 0).records = Nobody
  BY UnknownTyped DEF Call, AnyCall, NoCluster
<1>. QED BY <1>1 DEF NoJoin, NoCluster

LEMMA MadeTyped ==
  ASSUME NEW n \in Node, NEW c \in Nat, NEW ts \in Nat, NEW gone \in BOOLEAN
  PROVE  /\ Made(n, c, ts, gone) \in AnyRecord
         /\ Made(n, c, ts, gone).at = ts /\ Made(n, c, ts, gone).by = n
         /\ Made(n, c, ts, gone).cluster = c /\ Made(n, c, ts, gone).removed = gone
BY ClusterMembershipAssumption DEF Made, AnyRecord

LEMMA MergedTyped ==
  ASSUME NEW n \in Node, NEW row \in AnyRow, NEW records \in AnyRow
  PROVE  /\ Merged(n, row, records) \in AnyRow
         /\ \A p \in Node : \/ Merged(n, row, records)[p] = row[p]
                            \/ Merged(n, row, records)[p] = records[p] /\ Newer(records[p], row[p])
BY DEF Merged, AnyRow

LEMMA SavedTyped ==
  ASSUME NEW n \in Node, NEW row \in AnyRow
  PROVE  /\ Saved(n, row) \in AnyRow
         /\ \A p \in Node : Saved(n, row)[p] \in {Unknown, row[p]}
BY UnknownTyped DEF Saved, AnyRow

LEMMA OnlyTyped ==
  ASSUME NEW p \in Node, NEW r \in AnyRecord
  PROVE  /\ Only(p, r) \in AnyRow
         /\ \A q \in Node : Only(p, r)[q] \in {Unknown, r} /\ (q # p => Only(p, r)[q] = Unknown)
BY UnknownTyped DEF Only, AnyRow, Nobody

LEMMA NextTsAhead ==
  ASSUME Typed, NEW n \in Node
  PROVE  /\ NextTs(n) \in Nat /\ NextTs(n) > clock[n]
         /\ \A r \in AnyRecord : /\ TsAfter(n, r) \in Nat
                                 /\ TsAfter(n, r) > clock[n] /\ TsAfter(n, r) > r.at
<1>1. Skew[n] \in Nat /\ now \in Nat /\ clock[n] \in Nat
  BY ClusterMembershipAssumption DEF Typed
<1>2. Reading(n) \in Nat
  BY <1>1 DEF Reading, Greater
<1>3. NextTs(n) \in Nat /\ NextTs(n) > clock[n]
  BY <1>1, <1>2 DEF NextTs, Greater
<1>4. ASSUME NEW r \in AnyRecord
      PROVE  TsAfter(n, r) \in Nat /\ TsAfter(n, r) > clock[n] /\ TsAfter(n, r) > r.at
  <2>1. r.at \in Nat
    BY DEF AnyRecord
  <2>. QED BY <1>1, <1>3, <2>1 DEF TsAfter, Greater
<1>. QED BY <1>3, <1>4

(* Of a set of peers, someone has the newest record of p.                   *)
LEMMA NewestExists ==
  ASSUME Typed, NEW peers, peers \subseteq Node, peers # {}, NEW p \in Node
  PROVE  \E q \in peers : \A s \in peers : ~Newer(roster[s][p], roster[q][p])
<1>. DEFINE Above(q) == {s \in peers : Newer(roster[s][p], roster[q][p])}
            Sets == {Above(q) : q \in peers}
<1>1. IsFiniteSet(peers)
  BY ClusterMembershipAssumption, FS_Subset
<1>2. IsWellFoundedOn(StrictSubsetOrdering(peers), SUBSET peers)
  BY <1>1, FS_StrictSubsetOrderingWellFounded, FS_FiniteSubsetsOfFinite
<1>3. Sets \subseteq SUBSET peers /\ Sets # {}
  OBVIOUS
<1>4. PICK A \in Sets : \A B \in Sets : ~ (<<B, A>> \in StrictSubsetOrdering(peers))
  BY <1>2, <1>3, WFMin
<1>5. PICK q \in peers : A = Above(q)
  BY <1>4
<1>6. ASSUME NEW s \in peers, Newer(roster[s][p], roster[q][p])
      PROVE  FALSE
  <2>1. \A k \in peers : roster[k][p] \in AnyRecord
    BY DEF Typed, AnyRow
  <2>2. \A k \in peers : roster[k][p].at \in Nat /\ roster[k][p].by \in Nat
    BY <2>1 DEF AnyRecord
  <2>3. \A k \in peers : Newer(roster[k][p], roster[s][p]) => Newer(roster[k][p], roster[q][p])
    BY <2>2, <1>6 DEF Newer
  <2>4. ~Newer(roster[s][p], roster[s][p])
    BY <2>2 DEF Newer
  <2>5. Above(s) \subseteq Above(q) /\ s \in Above(q) /\ s \notin Above(s)
    BY <1>6, <2>3, <2>4
  <2>6. Above(s) \in SUBSET peers /\ Above(q) \in SUBSET peers /\ Above(s) # Above(q)
    BY <2>5
  <2>7. <<Above(s), Above(q)>> \in StrictSubsetOrdering(peers)
    <3>. HIDE DEF Above
    <3>. QED BY <2>5, <2>6 DEF StrictSubsetOrdering
  <2>. QED BY <1>4, <1>5, <2>7
<1>. QED BY <1>6

(* What a sweep pulls, its peers have. *)
LEMMA NewestIsHeld ==
  ASSUME Typed, NEW peers, peers \subseteq Node
  PROVE  \A p \in Node : \/ Newest(peers)[p] = Unknown
                         \/ \E q \in peers : Newest(peers)[p] = roster[q][p]
<1>. SUFFICES ASSUME NEW p \in Node
              PROVE  Newest(peers)[p] = Unknown \/ \E q \in peers : Newest(peers)[p] = roster[q][p]
  OBVIOUS
<1>. DEFINE held == {Unknown} \cup {roster[q][p] : q \in peers}
<1>1. \E r \in held : \A s \in held : ~Newer(s, r)
  <2>1. \A q \in peers : roster[q][p].at \in Nat /\ roster[q][p].by \in Nat
    BY DEF Typed, AnyRow, AnyRecord
  <2>2. \A q \in peers : ~Newer(Unknown, roster[q][p])
    BY <2>1, UnknownTyped DEF Newer
  <2>3. ~Newer(Unknown, Unknown)
    BY UnknownTyped DEF Newer
  <2>4. CASE peers = {}
    BY <2>3, <2>4
  <2>5. CASE peers # {}
    <3>1. PICK q \in peers : \A s \in peers : ~Newer(roster[s][p], roster[q][p])
      BY <2>5, NewestExists
    <3>. QED BY <2>2, <3>1
  <2>. QED BY <2>4, <2>5
<1>2. Newest(peers)[p] = CHOOSE r \in held : \A s \in held : ~Newer(s, r)
  BY DEF Newest
<1>3. Newest(peers)[p] \in held
  <2>. HIDE DEF held
  <2>. QED BY <1>1, <1>2
<1>. QED BY <1>3

LEMMA NewestTyped ==
  ASSUME Typed, NEW peers, peers \subseteq Node
  PROVE  Newest(peers) \in AnyRow
<1>1. ASSUME NEW p \in Node PROVE Newest(peers)[p] \in AnyRecord
  <2>1. Newest(peers)[p] = Unknown \/ \E q \in peers : Newest(peers)[p] = roster[q][p]
    BY NewestIsHeld
  <2>2. \A q \in peers : roster[q][p] \in AnyRecord
    BY DEF Typed, AnyRow
  <2>. QED BY <2>1, <2>2, UnknownTyped
<1>2. Newest(peers) = [p \in Node |-> Newest(peers)[p]]
  BY DEF Newest
<1>. QED BY <1>1, <1>2 DEF AnyRow

---------------------------------------------------------------------------
(* What a step puts into circulation: records that circulate already, or one *)
(* new record of p0.                                                       *)
From(r, p, p0, new) == r = Unknown \/ Circulates(r, p) \/ (p = p0 /\ r = new)

RowFrom(row, p0, new) == \A p \in Node : From(row[p], p, p0, new)

LEMMA OldRows ==
  ASSUME Typed, NEW p0, NEW new
  PROVE  /\ \A n \in Node : /\ RowFrom(roster[n], p0, new)
                            /\ RowFrom(disk[n].roster, p0, new)
                            /\ RowFrom(adopting[n].call.records, p0, new)
         /\ \A m \in msgs : RowFrom(m.records, p0, new)
         /\ RowFrom(Nobody, p0, new)
         /\ \A p \in Node : From(Unknown, p, p0, new)
         /\ From(new, p0, p0, new)
<1>1. \A n, p \in Node : /\ Circulates(roster[n][p], p)
                         /\ Circulates(disk[n].roster[p], p)
                         /\ Circulates(adopting[n].call.records[p], p)
  BY DEF Circulates
<1>2. \A m \in msgs, p \in Node : Circulates(m.records[p], p)
  BY DEF Circulates
<1>3. \A p \in Node : Nobody[p] = Unknown
  BY DEF Nobody
<1>. QED BY <1>1, <1>2, <1>3 DEF From, RowFrom

LEMMA MergedFrom ==
  ASSUME NEW n \in Node, NEW row \in AnyRow, NEW records \in AnyRow, NEW p0, NEW new,
         RowFrom(row, p0, new), RowFrom(records, p0, new)
  PROVE  RowFrom(Merged(n, row, records), p0, new)
<1>. SUFFICES ASSUME NEW p \in Node PROVE From(Merged(n, row, records)[p], p, p0, new)
  BY DEF RowFrom
<1>1. Merged(n, row, records)[p] = row[p] \/ Merged(n, row, records)[p] = records[p]
  BY MergedTyped
<1>2. From(row[p], p, p0, new) /\ From(records[p], p, p0, new)
  BY DEF RowFrom
<1>. QED BY <1>1, <1>2

LEMMA SavedFrom ==
  ASSUME NEW n \in Node, NEW row \in AnyRow, NEW p0, NEW new, RowFrom(row, p0, new)
  PROVE  RowFrom(Saved(n, row), p0, new)
<1>. SUFFICES ASSUME NEW p \in Node PROVE From(Saved(n, row)[p], p, p0, new)
  BY DEF RowFrom
<1>1. Saved(n, row)[p] = Unknown \/ Saved(n, row)[p] = row[p]
  BY SavedTyped
<1>2. From(row[p], p, p0, new) /\ From(Unknown, p, p0, new)
  BY DEF RowFrom, From
<1>. QED BY <1>1, <1>2

LEMMA OnlyFrom ==
  ASSUME NEW p \in Node, NEW r \in AnyRecord, NEW p0, NEW new, From(r, p, p0, new)
  PROVE  RowFrom(Only(p, r), p0, new)
<1>. SUFFICES ASSUME NEW q \in Node PROVE From(Only(p, r)[q], q, p0, new)
  BY DEF RowFrom
<1>1. Only(p, r)[q] = Unknown \/ (q = p /\ Only(p, r)[q] = r)
  BY OnlyTyped
<1>2. From(Unknown, q, p0, new)
  BY DEF From
<1>. QED BY <1>1, <1>2

LEMMA ReplacedFrom ==
  ASSUME NEW row \in AnyRow, NEW p \in Node, NEW r \in AnyRecord, NEW p0, NEW new,
         RowFrom(row, p0, new), From(r, p, p0, new)
  PROVE  /\ [row EXCEPT ![p] = r] \in AnyRow
         /\ RowFrom([row EXCEPT ![p] = r], p0, new)
<1>1. [row EXCEPT ![p] = r] \in AnyRow
  BY DEF AnyRow
<1>2. \A q \in Node : [row EXCEPT ![p] = r][q] = IF q = p THEN r ELSE row[q]
  BY DEF AnyRow
<1>3. ASSUME NEW q \in Node PROVE From([row EXCEPT ![p] = r][q], q, p0, new)
  <2>1. From(row[q], q, p0, new)
    BY DEF RowFrom
  <2>2. CASE q = p
    BY <1>2, <2>2
  <2>3. CASE q # p
    BY <1>2, <2>1, <2>3
  <2>. QED BY <2>2, <2>3
<1>. QED BY <1>1, <1>3 DEF RowFrom

LEMMA NewestFrom ==
  ASSUME Typed, NEW peers, peers \subseteq Node, NEW p0, NEW new
  PROVE  RowFrom(Newest(peers), p0, new)
<1>. SUFFICES ASSUME NEW p \in Node PROVE From(Newest(peers)[p], p, p0, new)
  BY DEF RowFrom
<1>1. Newest(peers)[p] = Unknown \/ \E q \in peers : Newest(peers)[p] = roster[q][p]
  BY NewestIsHeld
<1>2. \A q \in Node : From(roster[q][p], p, p0, new)
  BY OldRows DEF RowFrom
<1>3. From(Unknown, p, p0, new)
  BY DEF From
<1>. QED BY <1>1, <1>2, <1>3

(* What is pushed carries what its sender gives it. *)
LEMMA PushesFacts ==
  ASSUME NEW n \in Node, NEW row \in AnyRow, NEW records \in AnyRow
  PROVE  \A m \in Pushes(n, row, records) :
           /\ m \in AnyCall /\ m.from \in Node /\ m.to \in Node
           /\ m.records = records
<1>1. Desired(n, row) \subseteq Node
  BY DEF Desired
<1>2. \A p \in Node : [type |-> "sync", from |-> n, to |-> p, cluster |-> NoCluster, records |-> records]
                        \in AnyCall
  BY ClusterMembershipAssumption DEF AnyCall, NoCluster
<1>. QED BY <1>1, <1>2 DEF Pushes

LEMMA CallFacts ==
  ASSUME NEW type \in {"evict", "leave"}, NEW n \in Node, NEW p \in Node
  PROVE  /\ Call(type, n, p) \in AnyCall
         /\ Call(type, n, p).from = n /\ Call(type, n, p).to = p
         /\ Call(type, n, p).records = Nobody
BY UnknownTyped, ClusterMembershipAssumption DEF Call, AnyCall, NoCluster

---------------------------------------------------------------------------
(* The steps of the versions: nothing new circulates but the one record, and *)
(* who made it had not given out its version before.                       *)
Spread(p0, new) == \A p \in Node : \A r : Circulates(r, p)' => From(r, p, p0, new)

GivenGrows == lapsed \subseteq lapsed' /\ \A b \in Node \ lapsed' : Given(b)' >= Given(b)

LEMMA Spreads ==
  ASSUME NEW p0, NEW new,
         \A n \in Node : /\ RowFrom(roster'[n], p0, new)
                         /\ RowFrom(disk'[n].roster, p0, new)
                         /\ RowFrom(adopting'[n].call.records, p0, new),
         \A m \in msgs' : RowFrom(m.records, p0, new),
         \A n, p \in Node : adding'[n].stage = "joined" /\ adding'[n].member = p
                              => From(adding'[n].answer, p, p0, new)
  PROVE  Spread(p0, new)
<1>. SUFFICES ASSUME NEW p \in Node, NEW r, Circulates(r, p)'
              PROVE  From(r, p, p0, new)
  BY DEF Spread
<1>1. \/ \E n \in Node : \/ r = roster'[n][p] \/ r = disk'[n].roster[p]
                         \/ r = adopting'[n].call.records[p]
      \/ \E m \in msgs' : r = m.records[p]
      \/ \E n \in Node : adding'[n].stage = "joined" /\ adding'[n].member = p /\ r = adding'[n].answer
  BY DEF Circulates
<1>. QED BY <1>1 DEF RowFrom

LEMMA GivenTyped ==
  ASSUME Typed
  PROVE  \A b \in Node : Given(b) \in Nat
BY DEF Typed, Given

LEMMA RecordsTyped ==
  ASSUME Typed, NEW p \in Node, NEW r, Circulates(r, p)
  PROVE  r \in AnyRecord /\ r.at \in Nat
BY DEF Typed, Circulates, AnyRow, Adding, AnyCall, AnyRecord

(* Nothing new: a record of nobody. *)
LEMMA NothingNew ==
  ASSUME Typed, Typed', VersionInv, Spread(0, Unknown), GivenGrows
  PROVE  VersionInv'
<1>. SUFFICES ASSUME NEW p \in Node
              PROVE  /\ \A r : Circulates(r, p)' /\ r # Unknown => Covered(r)'
                     /\ \A r, s : Circulates(r, p)' /\ Circulates(s, p)' /\ r # Unknown /\ s # Unknown
                                   => (SameVersion(r, s)' => r = s)
  BY DEF VersionInv
<1>1. \A r : Circulates(r, p)' /\ r # Unknown => Circulates(r, p)
  BY DEF Spread, From
<1>2. ASSUME NEW r, Circulates(r, p), r # Unknown PROVE Covered(r)'
  <2>1. Covered(r)
    BY <1>2 DEF VersionInv
  <2>2. r.at \in Nat
    BY <1>2, RecordsTyped
  <2>3. r.by \in Node
    BY <2>1 DEF Covered
  <2>4. ASSUME r.by \notin lapsed' PROVE r.at <= Given(r.by)'
    <3>1. r.by \notin lapsed /\ Given(r.by)' >= Given(r.by)
      BY <2>3, <2>4 DEF GivenGrows
    <3>2. r.at <= Given(r.by)
      BY <2>1, <3>1 DEF Covered
    <3>3. Given(r.by) \in Nat /\ Given(r.by)' \in Nat
      <4>1. (\A b \in Node : Given(b) \in Nat)'
        BY DEF Typed, Given
      <4>. QED BY <2>3, <4>1, GivenTyped
    <3>. QED BY <2>2, <3>1, <3>2, <3>3
  <2>. QED BY <2>3, <2>4 DEF Covered
<1>3. ASSUME NEW r, NEW s, Circulates(r, p), Circulates(s, p), r # Unknown, s # Unknown,
             SameVersion(r, s)'
      PROVE  r = s
  <2>1. SameVersion(r, s)
    BY <1>3 DEF SameVersion, GivenGrows
  <2>. QED BY <1>3, <2>1 DEF VersionInv
<1>. QED BY <1>1, <1>2, <1>3

(* A record of p0 that is new, of a version not given out before.           *)
LEMMA SomethingNew ==
  ASSUME Typed, Typed', VersionInv, NEW p0, NEW new \in AnyRecord, Spread(p0, new), GivenGrows,
         new.by \in Node, Given(new.by) < new.at, new.at <= Given(new.by)'
  PROVE  VersionInv'
<1>. SUFFICES ASSUME NEW p \in Node
              PROVE  /\ \A r : Circulates(r, p)' /\ r # Unknown => Covered(r)'
                     /\ \A r, s : Circulates(r, p)' /\ Circulates(s, p)' /\ r # Unknown /\ s # Unknown
                                   => (SameVersion(r, s)' => r = s)
  BY DEF VersionInv
<1>1. \A r : Circulates(r, p)' /\ r # Unknown => Circulates(r, p) \/ r = new
  BY DEF Spread, From
<1>2. ASSUME NEW r, Circulates(r, p), r # Unknown
      PROVE  /\ Covered(r)' /\ r.at \in Nat
             /\ r.by \in Node /\ (r.by \notin lapsed => r.at <= Given(r.by))
  <2>1. Covered(r)
    BY <1>2 DEF VersionInv
  <2>2. r.at \in Nat
    BY <1>2, RecordsTyped
  <2>3. r.by \in Node /\ (r.by \notin lapsed => r.at <= Given(r.by))
    BY <2>1 DEF Covered
  <2>4. ASSUME r.by \notin lapsed' PROVE r.at <= Given(r.by)'
    <3>1. r.by \notin lapsed /\ Given(r.by)' >= Given(r.by)
      BY <2>3, <2>4 DEF GivenGrows
    <3>3. Given(r.by) \in Nat /\ Given(r.by)' \in Nat
      <4>1. (\A b \in Node : Given(b) \in Nat)'
        BY DEF Typed, Given
      <4>. QED BY <2>3, <4>1, GivenTyped
    <3>. QED BY <2>2, <2>3, <3>1, <3>3
  <2>. QED BY <2>2, <2>3, <2>4 DEF Covered
<1>3. Covered(new)'
  BY DEF Covered
<1>4. ASSUME NEW r, NEW s, Circulates(r, p), Circulates(s, p), r # Unknown, s # Unknown,
             SameVersion(r, s)'
      PROVE  r = s
  <2>1. SameVersion(r, s)
    BY <1>4 DEF SameVersion, GivenGrows
  <2>. QED BY <1>4, <2>1 DEF VersionInv
<1>5. ASSUME NEW r, Circulates(r, p), r # Unknown, r.at = new.at, r.by = new.by, r.by \notin lapsed'
      PROVE  FALSE
  <2>1. r.by \notin lapsed
    BY <1>5 DEF GivenGrows
  <2>2. r.at \in Nat /\ r.by \in Node /\ r.at <= Given(r.by)
    BY <1>2, <1>5, <2>1
  <2>3. Given(r.by) \in Nat
    BY <2>2, GivenTyped
  <2>. QED BY <1>5, <2>2, <2>3
<1>6. ASSUME NEW r, NEW s, Circulates(r, p)', Circulates(s, p)', r # Unknown, s # Unknown,
             SameVersion(r, s)'
      PROVE  r = s
  <2>1. r.at = s.at /\ r.by = s.by /\ r.by \notin lapsed'
    BY <1>6 DEF SameVersion
  <2>2. CASE Circulates(r, p) /\ Circulates(s, p)
    BY <1>4, <1>6, <2>2
  <2>3. CASE r = new /\ Circulates(s, p)
    BY <1>5, <1>6, <2>1, <2>3
  <2>4. CASE s = new /\ Circulates(r, p)
    BY <1>5, <1>6, <2>1, <2>4
  <2>. QED BY <1>1, <1>6, <2>2, <2>3, <2>4
<1>. QED BY <1>1, <1>2, <1>3, <1>6

LEMMA HasFacts ==
  ASSUME Typed, NEW n \in Node, NEW row \in AnyRow, NEW ts \in Nat, Has(n, row, ts)
  PROVE  /\ roster' \in [Node -> AnyRow] /\ clock' \in [Node -> Nat]
         /\ disk' \in [Node -> [roster: AnyRow, clock: Nat]]
         /\ \A k \in Node \ {n} : roster'[k] = roster[k] /\ clock'[k] = clock[k] /\ disk'[k] = disk[k]
         /\ roster'[n] = row /\ disk'[n].roster = Saved(n, row)
         /\ clock'[n] >= clock[n] /\ clock'[n] >= ts /\ disk'[n].clock = clock'[n]
<1>1. Greater(clock[n], ts) \in Nat /\ Greater(clock[n], ts) >= clock[n] /\ Greater(clock[n], ts) >= ts
  BY DEF Greater, Typed
<1>2. [roster |-> Saved(n, row), clock |-> Greater(clock[n], ts)] \in [roster: AnyRow, clock: Nat]
  BY <1>1, SavedTyped
<1>3. /\ roster' = [roster EXCEPT ![n] = row]
      /\ clock' = [clock EXCEPT ![n] = Greater(clock[n], ts)]
      /\ disk' = [disk EXCEPT ![n] = [roster |-> Saved(n, row), clock |-> Greater(clock[n], ts)]]
  BY DEF Has
<1>4. roster' \in [Node -> AnyRow] /\ roster'[n] = row /\ \A k \in Node \ {n} : roster'[k] = roster[k]
  BY <1>3 DEF Typed
<1>5. /\ clock' \in [Node -> Nat] /\ clock'[n] = Greater(clock[n], ts)
      /\ \A k \in Node \ {n} : clock'[k] = clock[k]
  BY <1>1, <1>3 DEF Typed
<1>6. /\ disk' \in [Node -> [roster: AnyRow, clock: Nat]]
      /\ disk'[n] = [roster |-> Saved(n, row), clock |-> Greater(clock[n], ts)]
      /\ \A k \in Node \ {n} : disk'[k] = disk[k]
  BY <1>2, <1>3 DEF Typed
<1>. QED BY <1>1, <1>4, <1>5, <1>6

LEMMA RemembersAll ==
  RestartRemembers <=> \A n \in up : RemembersAt(n)
BY DEF RestartRemembers, RemembersAt

(* What a node that has just saved its roster has on its disk.              *)
LEMMA HasRemembers ==
  ASSUME Typed, NEW n \in Node, NEW row \in AnyRow, NEW ts \in Nat, Has(n, row, ts)
  PROVE  RemembersAt(n)'
<1>1. roster'[n] = row /\ disk'[n].roster = Saved(n, row)
  BY HasFacts
<1>2. SUFFICES ASSUME NEW p \in Node
               PROVE  /\ disk'[n].roster[p] # Unknown /\ ~disk'[n].roster[p].removed
                           => roster'[n][p] = disk'[n].roster[p]
                      /\ roster'[n][p].cluster # NoCluster
                           /\ roster'[n][p].cluster = roster'[n][n].cluster
                           => disk'[n].roster[p] = roster'[n][p]
  BY DEF RemembersAt, ClusterOf
<1>3. Saved(n, row)[p] = IF row[n].cluster # NoCluster /\ row[p].cluster = row[n].cluster
                         THEN row[p] ELSE Unknown
  BY DEF Saved, ClusterOf
<1>. QED BY <1>1, <1>3

LEMMA RemembersStill ==
  ASSUME NEW n \in Node, RemembersAt(n), roster'[n] = roster[n], disk'[n] = disk[n],
         adding'[n] = Idle => adding[n] = Idle
  PROVE  RemembersAt(n)'
BY DEF RemembersAt, ClusterOf

(* A handler that leaves its node with a roster, saved.                     *)
LEMMA HasKeeps ==
  ASSUME MembershipInv, NEW n \in Node, n \in up, NEW row \in AnyRow, NEW ts \in Nat, NEW p0, NEW new,
         Has(n, row, ts), RowFrom(row, p0, new),
         up' = up, lapsed' = lapsed, now' \in Nat, ops' \in Nat,
         \A m \in msgs' : /\ m \in AnyCall /\ m.from \in Node /\ m.to \in Node
                          /\ RowFrom(m.records, p0, new),
         adopting' \in [Node -> [call: AnyCall, old: Nat, left: SUBSET Node]],
         \A k \in Node : adopting'[k] = adopting[k] \/ adopting'[k] = NoJoin,
         adding' \in [Node -> Adding],
         \A k \in Node :
           \/ adding'[k] = adding[k]
           \/ k = n /\ adding'[k] = Idle
           \/ /\ adding[k] # Idle /\ adding'[k] # Idle
              /\ adding'[k].answer.cluster = adding'[k].cluster
              /\ \A p \in Node : adding'[k].member = p => From(adding'[k].answer, p, p0, new)
  PROVE  /\ Typed' /\ JoinInv' /\ RestartRemembers'
         /\ Spread(p0, new) /\ GivenGrows
         /\ Given(n) = clock[n] /\ Given(n)' >= ts
<1>1. Typed /\ JoinInv /\ RestartRemembers
  BY DEF MembershipInv
<1>2. /\ roster' \in [Node -> AnyRow] /\ clock' \in [Node -> Nat]
      /\ disk' \in [Node -> [roster: AnyRow, clock: Nat]]
      /\ \A k \in Node \ {n} : roster'[k] = roster[k] /\ clock'[k] = clock[k] /\ disk'[k] = disk[k]
      /\ roster'[n] = row /\ disk'[n].roster = Saved(n, row)
      /\ clock'[n] >= clock[n] /\ clock'[n] >= ts /\ disk'[n].clock = clock'[n]
  BY <1>1, HasFacts
<1>3. Typed'
  BY <1>1, <1>2 DEF Typed
<1>4. JoinInv'
  <2>. SUFFICES ASSUME NEW k \in Node
                PROVE  /\ adopting'[k] # NoJoin => k \in up'
                       /\ adding'[k].stage = "joined" => adding'[k].answer.cluster = adding'[k].cluster
    BY DEF JoinInv
  <2>1. adopting'[k] # NoJoin => k \in up'
    BY <1>1 DEF JoinInv
  <2>2. adding'[k].stage = "joined" => adding'[k].answer.cluster = adding'[k].cluster
    BY <1>1, IdleTyped DEF JoinInv
  <2>. QED BY <2>1, <2>2
<1>5. RestartRemembers'
  <2>1. \A k \in up : RemembersAt(k)
    BY <1>1, RemembersAll
  <2>2. ASSUME NEW k \in up' PROVE RemembersAt(k)'
    <3>1. k \in Node /\ k \in up
      BY <1>1, <2>2 DEF Typed
    <3>2. CASE k = n
      BY <1>1, <3>2, HasRemembers
    <3>3. CASE k # n
      <4>1. adding'[k] = Idle => adding[k] = Idle
        BY <3>1, <3>3
      <4>. QED BY <1>2, <2>1, <3>1, <3>3, <4>1, RemembersStill
    <3>. QED BY <3>2, <3>3
  <2>. QED BY <2>2 DEF RestartRemembers, RemembersAt
<1>6. Spread(p0, new)
  <2>1. ASSUME NEW k \in Node
        PROVE  /\ RowFrom(roster'[k], p0, new) /\ RowFrom(disk'[k].roster, p0, new)
               /\ RowFrom(adopting'[k].call.records, p0, new)
    <3>1. RowFrom(Saved(n, row), p0, new)
      BY SavedFrom
    <3>2. /\ RowFrom(roster[k], p0, new) /\ RowFrom(disk[k].roster, p0, new)
          /\ RowFrom(adopting[k].call.records, p0, new) /\ RowFrom(Nobody, p0, new)
      BY <1>1, OldRows
    <3>3. NoJoin.call.records = Nobody
      BY NoJoinTyped
    <3>4. RowFrom(roster'[k], p0, new) /\ RowFrom(disk'[k].roster, p0, new)
      <4>1. CASE k = n BY <1>2, <3>1, <4>1
      <4>2. CASE k # n BY <1>2, <3>2, <4>2
      <4>. QED BY <4>1, <4>2
    <3>5. RowFrom(adopting'[k].call.records, p0, new)
      <4>1. CASE adopting'[k] = adopting[k] BY <3>2, <4>1
      <4>2. CASE adopting'[k] = NoJoin BY <3>2, <3>3, <4>2
      <4>. QED BY <4>1, <4>2
    <3>. QED BY <3>4, <3>5
  <2>2. ASSUME NEW k \in Node, NEW p \in Node, adding'[k].stage = "joined", adding'[k].member = p
        PROVE  From(adding'[k].answer, p, p0, new)
    <3>1. CASE adding'[k] = adding[k]
      <4>1. Circulates(adding[k].answer, p)
        BY <2>2, <3>1 DEF Circulates
      <4>. QED BY <3>1, <4>1 DEF From
    <3>2. CASE adding'[k] = Idle
      BY <2>2, <3>2, IdleTyped
    <3>3. CASE \A q \in Node : adding'[k].member = q => From(adding'[k].answer, q, p0, new)
      BY <2>2, <3>3
    <3>. QED BY <3>1, <3>2, <3>3
  <2>. QED BY <2>1, <2>2, Spreads
<1>7. GivenGrows /\ Given(n) = clock[n] /\ Given(n)' >= ts
  <2>1. Given(n) = clock[n] /\ Given(n)' = clock'[n]
    BY DEF Given
  <2>2. ASSUME NEW b \in Node PROVE Given(b)' >= Given(b)
    <3>1. CASE b = n
      BY <1>2, <2>1, <3>1
    <3>2. CASE b # n
      <4>1. Given(b)' = Given(b)
        BY <1>2, <3>2 DEF Given
      <4>2. Given(b) \in Nat
        BY <1>1, GivenTyped
      <4>. QED BY <4>1, <4>2
    <3>. QED BY <3>1, <3>2
  <2>. QED BY <1>2, <2>1, <2>2 DEF GivenGrows
<1>. QED BY <1>3, <1>4, <1>5, <1>6, <1>7

LEMMA VersionedTyped ==
  ASSUME Typed, Versioned \/ Unversioned
  PROVE  now' \in Nat
BY ClusterMembershipAssumption DEF Typed, Versioned, Unversioned

(* The two ways to go on from there.                                       *)
LEMMA NewOne ==
  ASSUME MembershipInv, Typed', JoinInv', RestartRemembers', NEW p0, NEW new \in AnyRecord,
         Spread(p0, new), GivenGrows, new.by \in Node, Given(new.by) < new.at, new.at <= Given(new.by)'
  PROVE  MembershipInv'
<1>1. VersionInv'
  BY SomethingNew DEF MembershipInv
<1>. QED BY <1>1 DEF MembershipInv

LEMMA NoNewOne ==
  ASSUME MembershipInv, Typed', JoinInv', RestartRemembers', Spread(0, Unknown), GivenGrows
  PROVE  MembershipInv'
<1>1. VersionInv'
  BY NothingNew DEF MembershipInv
<1>. QED BY <1>1 DEF MembershipInv

---------------------------------------------------------------------------
(* The steps of the handlers that save a roster.                            *)

LEMMA SetRemoveKeeps ==
  ASSUME MembershipInv, NEW n \in Node, NEW p \in Node, SetRemove(n, p)
  PROVE  MembershipInv'
<1>1. PICK gone : gone = Made(n, ClusterOf(n, roster[n]), TsAfter(n, roster[n][p]), TRUE)
  OBVIOUS
<1>. DEFINE row == [roster[n] EXCEPT ![p] = gone]
<1>2. /\ n \in up /\ Versioned /\ Has(n, row, gone.at)
      /\ msgs' = msgs \cup {Call("evict", n, p)} \cup Pushes(n, row, Only(p, gone))
      /\ adding' = adding /\ adopting' = adopting /\ up' = up
      /\ ops' = ops + 1 /\ lapsed' = lapsed
  BY <1>1 DEF SetRemove, Operate
<1>3. Typed /\ roster[n] \in AnyRow /\ roster[n][p] \in AnyRecord /\ ClusterOf(n, roster[n]) \in Nat
  BY DEF MembershipInv, Typed, AnyRow, AnyRecord, ClusterOf
<1>4. /\ gone \in AnyRecord /\ gone.at \in Nat /\ gone.by = n /\ gone.at > clock[n]
  <2>1. TsAfter(n, roster[n][p]) \in Nat /\ TsAfter(n, roster[n][p]) > clock[n]
    BY <1>3, NextTsAhead
  <2>. QED BY <1>1, <1>3, <2>1, MadeTyped
<1>5. /\ RowFrom(roster[n], p, gone) /\ From(gone, p, p, gone) /\ RowFrom(Nobody, p, gone)
      /\ \A m \in msgs : RowFrom(m.records, p, gone)
  BY <1>3, OldRows
<1>6. row \in AnyRow /\ RowFrom(row, p, gone)
  BY <1>3, <1>4, <1>5, ReplacedFrom
<1>7. Only(p, gone) \in AnyRow /\ RowFrom(Only(p, gone), p, gone)
  BY <1>4, <1>5, OnlyTyped, OnlyFrom
<1>. HIDE DEF row
<1>8. \A m \in msgs' : /\ m \in AnyCall /\ m.from \in Node /\ m.to \in Node
                       /\ RowFrom(m.records, p, gone)
  <2>1. \A m \in msgs : /\ m \in AnyCall /\ m.from \in Node /\ m.to \in Node
                        /\ RowFrom(m.records, p, gone)
    BY <1>3, <1>5 DEF Typed
  <2>2. \A m \in Pushes(n, row, Only(p, gone)) :
          /\ m \in AnyCall /\ m.from \in Node /\ m.to \in Node /\ RowFrom(m.records, p, gone)
    BY <1>6, <1>7, PushesFacts
  <2>3. /\ Call("evict", n, p) \in AnyCall
        /\ Call("evict", n, p).from \in Node /\ Call("evict", n, p).to \in Node
        /\ RowFrom(Call("evict", n, p).records, p, gone)
    BY <1>5, CallFacts
  <2>. QED BY <1>2, <2>1, <2>2, <2>3
<1>9. now' \in Nat /\ ops' \in Nat /\ adding' \in [Node -> Adding]
      /\ adopting' \in [Node -> [call: AnyCall, old: Nat, left: SUBSET Node]]
  BY <1>2, <1>3, VersionedTyped DEF Typed
<1>10. /\ Typed' /\ JoinInv' /\ RestartRemembers' /\ Spread(p, gone) /\ GivenGrows
       /\ Given(n) = clock[n] /\ Given(n)' >= gone.at
  BY <1>2, <1>4, <1>6, <1>8, <1>9, HasKeeps
<1>. QED BY <1>4, <1>10, NewOne

LEMMA LeaveKeeps ==
  ASSUME MembershipInv, NEW m \in msgs, Leave(m)
  PROVE  MembershipInv'
<1>. DEFINE n == m.to
            p == m.from
            of == IF roster[n][p] # Unknown THEN roster[n][p].cluster ELSE ClusterOf(n, roster[n])
<1>1. PICK gone : gone = Made(n, of, TsAfter(n, roster[n][p]), TRUE)
  OBVIOUS
<1>. DEFINE row == [roster[n] EXCEPT ![p] = gone]
<1>2. /\ n \in up /\ Versioned /\ Has(n, row, gone.at)
      /\ msgs' = (msgs \ {m}) \cup Pushes(n, row, Only(p, gone))
      /\ adding' = adding /\ adopting' = adopting /\ up' = up
      /\ ops' = ops /\ lapsed' = lapsed
  BY <1>1 DEF Leave, bounds
<1>3. /\ Typed /\ n \in Node /\ p \in Node
      /\ roster[n] \in AnyRow /\ roster[n][p] \in AnyRecord /\ of \in Nat
  BY DEF MembershipInv, Typed, AnyRow, AnyRecord, ClusterOf
<1>. HIDE DEF n, p, of
<1>4. /\ gone \in AnyRecord /\ gone.at \in Nat /\ gone.by = n /\ gone.at > clock[n]
  <2>1. TsAfter(n, roster[n][p]) \in Nat /\ TsAfter(n, roster[n][p]) > clock[n]
    BY <1>3, NextTsAhead
  <2>. QED BY <1>1, <1>3, <2>1, MadeTyped
<1>5. /\ RowFrom(roster[n], p, gone) /\ From(gone, p, p, gone)
      /\ \A k \in msgs : RowFrom(k.records, p, gone)
  BY <1>3, OldRows
<1>6. row \in AnyRow /\ RowFrom(row, p, gone)
  BY <1>3, <1>4, <1>5, ReplacedFrom
<1>7. Only(p, gone) \in AnyRow /\ RowFrom(Only(p, gone), p, gone)
  BY <1>3, <1>4, <1>5, OnlyTyped, OnlyFrom
<1>. HIDE DEF row
<1>8. \A k \in msgs' : /\ k \in AnyCall /\ k.from \in Node /\ k.to \in Node
                       /\ RowFrom(k.records, p, gone)
  <2>1. \A k \in msgs : /\ k \in AnyCall /\ k.from \in Node /\ k.to \in Node
                        /\ RowFrom(k.records, p, gone)
    BY <1>3, <1>5 DEF Typed
  <2>2. \A k \in Pushes(n, row, Only(p, gone)) :
          /\ k \in AnyCall /\ k.from \in Node /\ k.to \in Node /\ RowFrom(k.records, p, gone)
    BY <1>3, <1>6, <1>7, PushesFacts
  <2>. QED BY <1>2, <2>1, <2>2
<1>9. now' \in Nat /\ ops' \in Nat /\ adding' \in [Node -> Adding]
      /\ adopting' \in [Node -> [call: AnyCall, old: Nat, left: SUBSET Node]]
  BY <1>2, <1>3, VersionedTyped DEF Typed
<1>10. /\ Typed' /\ JoinInv' /\ RestartRemembers' /\ Spread(p, gone) /\ GivenGrows
       /\ Given(n) = clock[n] /\ Given(n)' >= gone.at
  BY <1>2, <1>3, <1>4, <1>6, <1>8, <1>9, HasKeeps
<1>. QED BY <1>3, <1>4, <1>10, NewOne

(* Merging what circulates, or forgetting all.                              *)
LEMMA SavesOld ==
  ASSUME MembershipInv, NEW n \in Node, n \in up, NEW row \in AnyRow, Has(n, row, 0),
         RowFrom(row, 0, Unknown),
         msgs' \subseteq msgs, adding' = adding, adopting' = adopting, up' = up, now' = now,
         UNCHANGED bounds
  PROVE  MembershipInv'
<1>1. Typed /\ lapsed' = lapsed /\ ops' = ops
  BY DEF MembershipInv, bounds
<1>2. \A m \in msgs' : /\ m \in AnyCall /\ m.from \in Node /\ m.to \in Node
                       /\ RowFrom(m.records, 0, Unknown)
  BY <1>1, OldRows DEF Typed
<1>3. now' \in Nat /\ ops' \in Nat /\ adding' \in [Node -> Adding]
      /\ adopting' \in [Node -> [call: AnyCall, old: Nat, left: SUBSET Node]]
  BY <1>1 DEF Typed
<1>4. Typed' /\ JoinInv' /\ RestartRemembers' /\ Spread(0, Unknown) /\ GivenGrows
  BY <1>1, <1>2, <1>3, HasKeeps
<1>. QED BY <1>4, NoNewOne

(* Neither rosters nor disks nor clocks nor what is under way, but perhaps a *)
(* call less.                                                              *)
LEMMA StillKeeps ==
  ASSUME MembershipInv, UNCHANGED <<roster, clock, disk, adding, adopting, up, lapsed, ops>>,
         msgs' \subseteq msgs, now' \in Nat
  PROVE  MembershipInv'
<1>1. Typed /\ JoinInv /\ RestartRemembers
  BY DEF MembershipInv
<1>2. Typed' /\ JoinInv' /\ RestartRemembers'
  BY <1>1 DEF Typed, JoinInv, RestartRemembers, ClusterOf
<1>3. Spread(0, Unknown)
  BY DEF Spread, Circulates, From
<1>4. GivenGrows
  BY <1>1, GivenTyped DEF GivenGrows, Given
<1>. QED BY <1>2, <1>3, <1>4, NoNewOne

LEMMA EvictedKeeps ==
  ASSUME MembershipInv, NEW m \in msgs, Evicted(m)
  PROVE  MembershipInv'
<1>1. Typed /\ m.to \in Node /\ Nobody \in AnyRow /\ RowFrom(Nobody, 0, Unknown)
  BY OldRows, UnknownTyped DEF MembershipInv, Typed
<1>2. /\ m.to \in up /\ Has(m.to, Nobody, 0) /\ msgs' \subseteq msgs
      /\ adding' = adding /\ adopting' = adopting /\ up' = up /\ now' = now /\ UNCHANGED bounds
  BY DEF Evicted, Standalone
<1>. QED BY <1>1, <1>2, SavesOld

LEMMA SyncKeeps ==
  ASSUME MembershipInv, NEW m \in msgs, Sync(m)
  PROVE  MembershipInv'
<1>1. /\ Typed /\ m.to \in Node /\ Nobody \in AnyRow /\ RowFrom(Nobody, 0, Unknown)
      /\ RowFrom(roster[m.to], 0, Unknown) /\ RowFrom(m.records, 0, Unknown)
      /\ roster[m.to] \in AnyRow /\ m.records \in AnyRow
  BY OldRows, UnknownTyped DEF MembershipInv, Typed, AnyCall
<1>2. /\ m.to \in up /\ msgs' \subseteq msgs
      /\ adding' = adding /\ adopting' = adopting /\ up' = up /\ now' = now /\ UNCHANGED bounds
  BY DEF Sync
<1>3. CASE Has(m.to, Nobody, 0)
  BY <1>1, <1>2, <1>3, SavesOld
<1>4. CASE Has(m.to, Merged(m.to, roster[m.to], m.records), 0)
  <2>1. /\ Merged(m.to, roster[m.to], m.records) \in AnyRow
        /\ RowFrom(Merged(m.to, roster[m.to], m.records), 0, Unknown)
    BY <1>1, MergedTyped, MergedFrom
  <2>. QED BY <1>1, <1>2, <1>4, <2>1, SavesOld
<1>5. CASE UNCHANGED <<roster, clock, disk>>
  BY <1>1, <1>2, <1>5, StillKeeps DEF bounds, Typed
<1>. QED BY <1>3, <1>4, <1>5 DEF Sync, Standalone

LEMMA SweepKeeps ==
  ASSUME MembershipInv, NEW n \in Node, Sweep(n)
  PROVE  MembershipInv'
<1>. DEFINE connected == Connected(n, roster[n], sessions)
            row == Newest(connected[n] \cap up)
<1>1. /\ n \in up /\ msgs' \subseteq msgs
      /\ adding' = adding /\ adopting' = adopting /\ up' = up /\ now' = now /\ UNCHANGED bounds
      /\ \/ Has(n, Nobody, 0)
         \/ Has(n, Merged(n, roster[n], row), 0)
         \/ UNCHANGED <<roster, clock, disk>>
  BY DEF Sweep
<1>2. Typed /\ connected[n] \cap up \subseteq Node
  BY DEF MembershipInv, Typed
<1>3. row \in AnyRow /\ RowFrom(row, 0, Unknown)
  BY <1>2, NewestTyped, NewestFrom
<1>. HIDE DEF row
<1>4. /\ Nobody \in AnyRow /\ RowFrom(Nobody, 0, Unknown)
      /\ roster[n] \in AnyRow /\ RowFrom(roster[n], 0, Unknown)
  BY <1>2, OldRows, UnknownTyped DEF Typed
<1>5. CASE Has(n, Nobody, 0)
  BY <1>1, <1>4, <1>5, SavesOld
<1>6. CASE Has(n, Merged(n, roster[n], row), 0)
  <2>1. Merged(n, roster[n], row) \in AnyRow /\ RowFrom(Merged(n, roster[n], row), 0, Unknown)
    BY <1>3, <1>4, MergedTyped, MergedFrom
  <2>. QED BY <1>1, <1>6, <2>1, SavesOld
<1>7. CASE UNCHANGED <<roster, clock, disk>>
  BY <1>1, <1>2, <1>7, StillKeeps DEF bounds, Typed
<1>. QED BY <1>1, <1>5, <1>6, <1>7

LEMMA FinishAddKeeps ==
  ASSUME MembershipInv, NEW n \in Node, FinishAdd(n)
  PROVE  MembershipInv'
<1>. DEFINE a == adding[n]
            row == IF a.stage = "joined"
                   THEN [roster[n] EXCEPT ![a.member] = [a.answer EXCEPT !.cluster = a.cluster]]
                   ELSE roster[n]
<1>1. /\ n \in up /\ Has(n, row, 0)
      /\ msgs' = msgs \cup Pushes(n, row, row)
      /\ adding' = [adding EXCEPT ![n] = Idle]
      /\ adopting' = adopting /\ up' = up /\ now' = now
      /\ ops' = ops /\ lapsed' = lapsed
  BY DEF FinishAdd, bounds
<1>2. /\ Typed /\ JoinInv /\ adding[n] \in Adding /\ roster[n] \in AnyRow
      /\ RowFrom(roster[n], 0, Unknown)
  BY OldRows DEF MembershipInv, Typed
<1>3. row \in AnyRow /\ RowFrom(row, 0, Unknown)
  <2>1. CASE a.stage = "joined" /\ a.member \in Node
    <3>1. a.answer \in AnyRecord /\ a.answer.cluster = a.cluster
      BY <1>2, <2>1 DEF JoinInv, Adding
    <3>2. [a.answer EXCEPT !.cluster = a.cluster] = a.answer
      BY <3>1 DEF AnyRecord
    <3>3. Circulates(a.answer, a.member)
      BY <2>1 DEF Circulates
    <3>4. From(a.answer, a.member, 0, Unknown)
      BY <3>3 DEF From
    <3>5. row = [roster[n] EXCEPT ![a.member] = a.answer]
      BY <2>1, <3>2
    <3>. QED BY <1>2, <2>1, <3>1, <3>4, <3>5, ReplacedFrom
  <2>2. CASE a.stage = "joined" /\ a.member \notin Node
    <3>1. row = roster[n]
      BY <1>2, <2>2 DEF AnyRow
    <3>. QED BY <1>2, <3>1
  <2>3. CASE a.stage # "joined"
    BY <1>2, <2>3
  <2>. QED BY <2>1, <2>2, <2>3
<1>. HIDE DEF row
<1>4. \A m \in msgs' : /\ m \in AnyCall /\ m.from \in Node /\ m.to \in Node
                       /\ RowFrom(m.records, 0, Unknown)
  <2>1. \A m \in msgs : /\ m \in AnyCall /\ m.from \in Node /\ m.to \in Node
                        /\ RowFrom(m.records, 0, Unknown)
    BY <1>2, OldRows DEF Typed
  <2>2. \A m \in Pushes(n, row, row) :
          /\ m \in AnyCall /\ m.from \in Node /\ m.to \in Node /\ RowFrom(m.records, 0, Unknown)
    BY <1>3, PushesFacts
  <2>. QED BY <1>1, <2>1, <2>2
<1>5. now' \in Nat /\ ops' \in Nat /\ adding' \in [Node -> Adding]
      /\ adopting' \in [Node -> [call: AnyCall, old: Nat, left: SUBSET Node]]
  BY <1>1, <1>2, IdleTyped DEF Typed
<1>6. \A k \in Node : adding'[k] = adding[k] \/ (k = n /\ adding'[k] = Idle)
  BY <1>1, <1>2 DEF Typed
<1>7. Typed' /\ JoinInv' /\ RestartRemembers' /\ Spread(0, Unknown) /\ GivenGrows
  BY <1>1, <1>3, <1>4, <1>5, <1>6, HasKeeps
<1>. QED BY <1>7, NoNewOne

LEMMA AnsweredTyped ==
  ASSUME NEW a \in Adding, NEW own \in AnyRecord
  PROVE  /\ [a EXCEPT !.stage = "joined", !.answer = own] \in Adding
         /\ [a EXCEPT !.stage = "joined", !.answer = own].stage = "joined"
         /\ [a EXCEPT !.stage = "joined", !.answer = own].answer = own
         /\ [a EXCEPT !.stage = "joined", !.answer = own].member = a.member
         /\ [a EXCEPT !.stage = "joined", !.answer = own].cluster = a.cluster
BY DEF Adding

LEMMA AdoptKeeps ==
  ASSUME MembershipInv, NEW p \in Node, Adopt(p)
  PROVE  MembershipInv'
<1>. DEFINE j == adopting[p]
            kept == [q \in Node |-> IF j.old # NoCluster /\ q # p /\ roster[p][q].cluster = j.old
                                    THEN Unknown ELSE roster[p][q]]
            n == j.call.from
<1>1. PICK own : own = Made(p, j.call.cluster, NextTs(p), FALSE)
  OBVIOUS
<1>. DEFINE row == Merged(p, [kept EXCEPT ![p] = own], j.call.records)
            Answered(b) == IF b.stage = "joining" /\ b.member = p /\ b.cluster = j.call.cluster
                           THEN [b EXCEPT !.stage = "joined", !.answer = own] ELSE b
<1>2. /\ j # NoJoin /\ Versioned /\ Has(p, row, own.at)
      /\ msgs' = msgs \cup Pushes(p, row, Only(p, own))
      /\ adopting' = [adopting EXCEPT ![p] = NoJoin]
      /\ adding' = [adding EXCEPT ![n] = Answered(adding[n])] \/ adding' = adding
      /\ up' = up /\ ops' = ops /\ lapsed' = lapsed
  BY <1>1 DEF Adopt, bounds, Fault, Broken
<1>3. /\ Typed /\ JoinInv /\ roster[p] \in AnyRow /\ j.call \in AnyCall
      /\ j.call.records \in AnyRow /\ j.call.cluster \in Nat
      /\ RowFrom(roster[p], p, own) /\ RowFrom(j.call.records, p, own) /\ From(own, p, p, own)
      /\ \A q \in Node : From(Unknown, q, p, own)
  <2>1. Typed /\ JoinInv
    BY DEF MembershipInv
  <2>2. roster[p] \in AnyRow /\ j.call \in AnyCall
    BY <2>1 DEF Typed
  <2>3. j.call.records \in AnyRow /\ j.call.cluster \in Nat
    BY <2>2 DEF AnyCall
  <2>. QED BY <2>1, <2>2, <2>3, OldRows
<1>4. p \in up
  BY <1>2, <1>3 DEF JoinInv
<1>5. /\ own \in AnyRecord /\ own.at \in Nat /\ own.by = p /\ own.at > clock[p]
      /\ own.cluster = j.call.cluster
  <2>1. NextTs(p) \in Nat /\ NextTs(p) > clock[p]
    BY <1>3, NextTsAhead
  <2>2. /\ Made(p, j.call.cluster, NextTs(p), FALSE) \in AnyRecord
        /\ Made(p, j.call.cluster, NextTs(p), FALSE).at = NextTs(p)
        /\ Made(p, j.call.cluster, NextTs(p), FALSE).by = p
        /\ Made(p, j.call.cluster, NextTs(p), FALSE).cluster = j.call.cluster
    <3>1. j.call.cluster \in Nat
      BY <1>3
    <3>2. \A c, ts \in Nat : LET made == Made(p, c, ts, FALSE)
                             IN  made \in AnyRecord /\ made.at = ts /\ made.by = p /\ made.cluster = c
      BY ClusterMembershipAssumption DEF Made, AnyRecord
    <3>. QED BY <2>1, <3>1, <3>2
  <2>. HIDE DEF j
  <2>. QED BY <1>1, <2>1, <2>2
<1>6. kept \in AnyRow /\ RowFrom(kept, p, own)
  <2>1. \A q \in Node : kept[q] = Unknown \/ kept[q] = roster[p][q]
    OBVIOUS
  <2>2. kept \in AnyRow
    BY <1>3, UnknownTyped DEF AnyRow
  <2>. HIDE DEF kept
  <2>3. ASSUME NEW q \in Node PROVE From(kept[q], q, p, own)
    <3>1. From(roster[p][q], q, p, own)
      BY <1>3 DEF RowFrom
    <3>. QED BY <1>3, <2>1, <3>1
  <2>. QED BY <2>2, <2>3 DEF RowFrom
<1>. HIDE DEF kept
<1>7. [kept EXCEPT ![p] = own] \in AnyRow /\ RowFrom([kept EXCEPT ![p] = own], p, own)
  BY <1>3, <1>5, <1>6, ReplacedFrom
<1>8. row \in AnyRow /\ RowFrom(row, p, own)
  BY <1>3, <1>7, MergedTyped, MergedFrom
<1>9. Only(p, own) \in AnyRow /\ RowFrom(Only(p, own), p, own)
  BY <1>3, <1>5, OnlyTyped, OnlyFrom
<1>. HIDE DEF row
<1>10. \A m \in msgs' : /\ m \in AnyCall /\ m.from \in Node /\ m.to \in Node
                        /\ RowFrom(m.records, p, own)
  <2>1. \A m \in msgs : /\ m \in AnyCall /\ m.from \in Node /\ m.to \in Node
                        /\ RowFrom(m.records, p, own)
    BY <1>3, OldRows DEF Typed
  <2>2. \A m \in Pushes(p, row, Only(p, own)) :
          /\ m \in AnyCall /\ m.from \in Node /\ m.to \in Node /\ RowFrom(m.records, p, own)
    BY <1>8, <1>9, PushesFacts
  <2>. QED BY <1>2, <2>1, <2>2
<1>11. /\ now' \in Nat /\ ops' \in Nat
       /\ adopting' \in [Node -> [call: AnyCall, old: Nat, left: SUBSET Node]]
       /\ \A k \in Node : adopting'[k] = adopting[k] \/ adopting'[k] = NoJoin
  BY <1>2, <1>3, VersionedTyped, NoJoinTyped DEF Typed
<1>12. ASSUME NEW k \in Node
       PROVE  /\ adding'[k] \in Adding
              /\ \/ adding'[k] = adding[k]
                 \/ /\ adding[k] # Idle /\ adding'[k] # Idle
                    /\ adding'[k].answer.cluster = adding'[k].cluster
                    /\ \A q \in Node : adding'[k].member = q => From(adding'[k].answer, q, p, own)
  <2>1. adding[k] \in Adding
    BY <1>3 DEF Typed
  <2>2. adding'[k] = adding[k] \/ adding'[k] = Answered(adding[k])
    BY <1>2, <1>3 DEF Typed
  <2>3. CASE adding'[k] = adding[k]
    BY <2>1, <2>3
  <2>4. CASE /\ adding'[k] = [adding[k] EXCEPT !.stage = "joined", !.answer = own]
             /\ adding[k].stage = "joining" /\ adding[k].member = p
             /\ adding[k].cluster = j.call.cluster
    <3>. DEFINE b == [adding[k] EXCEPT !.stage = "joined", !.answer = own]
    <3>3. /\ b \in Adding /\ b.stage = "joined" /\ b.answer = own
          /\ b.member = adding[k].member /\ b.cluster = adding[k].cluster
      BY <1>5, <2>1, AnsweredTyped
    <3>4. adding'[k] = b
      BY <2>4
    <3>. HIDE DEF b
    <3>1. /\ adding'[k] \in Adding /\ adding'[k].stage = "joined" /\ adding'[k].answer = own
          /\ adding'[k].member = p /\ adding'[k].cluster = j.call.cluster
      BY <2>4, <3>3, <3>4
    <3>2. adding[k] # Idle /\ adding'[k] # Idle
      BY <2>4, <3>1, IdleTyped
    <3>. QED BY <1>3, <1>5, <3>1, <3>2
  <2>. QED BY <2>2, <2>3, <2>4
<1>13. adding' \in [Node -> Adding]
  <2>1. adding' = [k \in Node |-> adding'[k]]
    BY <1>2, <1>3 DEF Typed
  <2>. QED BY <1>12, <2>1
<1>. HIDE DEF j, n
<1>14. /\ Typed' /\ JoinInv' /\ RestartRemembers' /\ Spread(p, own) /\ GivenGrows
       /\ Given(p) = clock[p] /\ Given(p)' >= own.at
  BY <1>2, <1>4, <1>5, <1>8, <1>10, <1>11, <1>12, <1>13, HasKeeps
<1>. QED BY <1>5, <1>14, NewOne

---------------------------------------------------------------------------
(* The other steps. *)

(* Steps that bring nothing new into circulation. *)
LEMMA NothingSpreads ==
  ASSUME Typed, disk' = disk,
         \A k \in Node : /\ roster'[k] \in {roster[k], Nobody, disk[k].roster}
                         /\ \/ adopting'[k] = adopting[k] \/ adopting'[k] = NoJoin
                            \/ adopting'[k].call \in msgs
                         /\ adding'[k] = adding[k] \/ adding'[k].stage # "joined",
         \A m \in msgs' : m \in msgs \/ m.records = Nobody
  PROVE  Spread(0, Unknown)
<1>1. ASSUME NEW k \in Node
      PROVE  /\ RowFrom(roster'[k], 0, Unknown) /\ RowFrom(disk'[k].roster, 0, Unknown)
             /\ RowFrom(adopting'[k].call.records, 0, Unknown)
  <2>1. /\ RowFrom(roster[k], 0, Unknown) /\ RowFrom(disk[k].roster, 0, Unknown)
        /\ RowFrom(adopting[k].call.records, 0, Unknown) /\ RowFrom(Nobody, 0, Unknown)
        /\ \A m \in msgs : RowFrom(m.records, 0, Unknown)
    BY OldRows
  <2>2. CASE adopting'[k] = adopting[k]
    BY <2>1, <2>2
  <2>3. CASE adopting'[k] = NoJoin
    BY <2>1, <2>3, NoJoinTyped
  <2>4. CASE adopting'[k].call \in msgs
    BY <2>1, <2>4
  <2>. QED BY <2>1, <2>2, <2>3, <2>4
<1>2. \A m \in msgs' : RowFrom(m.records, 0, Unknown)
  BY OldRows
<1>3. ASSUME NEW k \in Node, NEW p \in Node, adding'[k].stage = "joined", adding'[k].member = p
      PROVE  From(adding'[k].answer, p, 0, Unknown)
  <2>1. Circulates(adding[k].answer, p)
    BY <1>3 DEF Circulates
  <2>. QED BY <1>3, <2>1 DEF From
<1>. QED BY <1>1, <1>2, <1>3, Spreads

LEMMA BeginJoinKeeps ==
  ASSUME MembershipInv, NEW m \in msgs, BeginJoin(m)
  PROVE  MembershipInv'
<1>. DEFINE p == m.to
            old == ClusterOf(p, roster[p])
            left == IF old = m.cluster THEN {} ELSE Desired(p, roster[p])
            j == [call |-> m, old |-> IF old = m.cluster THEN NoCluster ELSE old, left |-> left]
<1>1. /\ p \in up /\ adopting' = [adopting EXCEPT ![p] = j]
      /\ msgs' = (msgs \ {m}) \cup {Call("leave", p, q) : q \in left}
      /\ roster' = roster /\ clock' = clock /\ adding' = adding /\ disk' = disk /\ up' = up
      /\ now' = now /\ ops' = ops /\ lapsed' = lapsed
  BY DEF BeginJoin, bounds
<1>2. /\ Typed /\ JoinInv /\ RestartRemembers /\ p \in Node /\ m \in AnyCall /\ old \in Nat
      /\ left \subseteq Node
  BY DEF MembershipInv, Typed, AnyRow, AnyRecord, ClusterOf, Desired
<1>. HIDE DEF old, left, p
<1>3. j \in [call: AnyCall, old: Nat, left: SUBSET Node] /\ j.call = m
  BY <1>2 DEF NoCluster
<1>. HIDE DEF j
<1>4. \A k \in msgs' : /\ k \in AnyCall /\ k.from \in Node /\ k.to \in Node
                       /\ k \in msgs \/ k.records = Nobody
  <2>1. \A q \in left : /\ Call("leave", p, q) \in AnyCall
                        /\ Call("leave", p, q).from \in Node /\ Call("leave", p, q).to \in Node
                        /\ Call("leave", p, q).records = Nobody
    BY <1>2, CallFacts
  <2>2. \A k \in msgs : k \in AnyCall /\ k.from \in Node /\ k.to \in Node
    BY <1>2 DEF Typed
  <2>. QED BY <1>1, <2>1, <2>2
<1>5. Typed'
  <2>1. adopting' \in [Node -> [call: AnyCall, old: Nat, left: SUBSET Node]]
    BY <1>1, <1>2, <1>3 DEF Typed
  <2>. QED BY <1>1, <1>2, <1>4, <2>1 DEF Typed
<1>6. JoinInv' /\ RestartRemembers'
  <2>1. \A k \in Node : adopting'[k] = adopting[k] \/ k = p
    BY <1>1, <1>2 DEF Typed
  <2>. QED BY <1>1, <1>2, <2>1 DEF JoinInv, RestartRemembers, ClusterOf
<1>7. Spread(0, Unknown)
  <2>1. \A k \in Node : adopting'[k] = adopting[k] \/ adopting'[k].call \in msgs
    BY <1>1, <1>2, <1>3 DEF Typed
  <2>. QED BY <1>1, <1>2, <1>4, <2>1, NothingSpreads
<1>8. GivenGrows
  BY <1>1, <1>2, GivenTyped DEF GivenGrows, Given
<1>. QED BY <1>5, <1>6, <1>7, <1>8, NoNewOne

LEMMA ForgetKeeps ==
  ASSUME MembershipInv, NEW n \in Node, NEW p \in Node, Forget(n, p)
  PROVE  MembershipInv'
<1>. DEFINE row == [roster[n] EXCEPT ![p] = Unknown]
<1>1. /\ n \in up /\ roster[n][p].removed /\ roster' = [roster EXCEPT ![n] = row]
      /\ clock' = clock /\ adding' = adding /\ adopting' = adopting /\ disk' = disk /\ msgs' = msgs
      /\ up' = up /\ now' = now /\ ops' = ops /\ lapsed' = lapsed
  <2>1. roster' = [roster EXCEPT ![n][p] = Unknown]
    BY DEF Forget
  <2>2. roster' = [roster EXCEPT ![n] = row]
    BY <2>1
  <2>. QED BY <2>2 DEF Forget, bounds
<1>2. Typed /\ JoinInv /\ roster[n] \in AnyRow
  BY DEF MembershipInv, Typed
<1>3. /\ row \in AnyRow /\ RowFrom(row, 0, Unknown)
      /\ \A q \in Node : row[q] = IF q = p THEN Unknown ELSE roster[n][q]
  <2>1. row \in AnyRow /\ \A q \in Node : row[q] = IF q = p THEN Unknown ELSE roster[n][q]
    BY <1>2, UnknownTyped DEF AnyRow
  <2>2. RowFrom(roster[n], 0, Unknown) /\ From(Unknown, p, 0, Unknown)
    BY <1>2, OldRows
  <2>3. RowFrom(row, 0, Unknown)
    BY <1>2, <2>2, UnknownTyped, ReplacedFrom
  <2>. QED BY <2>1, <2>3
<1>. HIDE DEF row
<1>4. /\ roster' \in [Node -> AnyRow] /\ roster'[n] = row
      /\ \A k \in Node \ {n} : roster'[k] = roster[k]
  BY <1>1, <1>2, <1>3 DEF Typed
<1>5. Typed' /\ JoinInv'
  BY <1>1, <1>2, <1>4 DEF Typed, JoinInv
<1>6. RestartRemembers'
  <2>1. \A k \in up : RemembersAt(k)
    BY RemembersAll DEF MembershipInv
  <2>2. ASSUME NEW k \in up' PROVE RemembersAt(k)'
    <3>1. k \in Node /\ k \in up
      BY <1>1, <1>2, <2>2 DEF Typed
    <3>2. CASE k # n
      BY <1>1, <1>4, <2>1, <3>1, <3>2, RemembersStill
    <3>3. CASE k = n
      <4>1. SUFFICES ASSUME NEW q \in Node, adding[n] = Idle
            PROVE  /\ disk[n].roster[q] # Unknown /\ ~disk[n].roster[q].removed
                        => row[q] = disk[n].roster[q]
                   /\ row[q].cluster # NoCluster /\ row[q].cluster = row[n].cluster
                        => disk[n].roster[q] = row[q]
        BY <1>1, <1>4, <3>3 DEF RemembersAt, ClusterOf
      <4>2. /\ disk[n].roster[q] # Unknown /\ ~disk[n].roster[q].removed
                 => roster[n][q] = disk[n].roster[q]
            /\ roster[n][q].cluster # NoCluster /\ roster[n][q].cluster = roster[n][n].cluster
                 => disk[n].roster[q] = roster[n][q]
        BY <2>1, <3>1, <3>3, <4>1 DEF RemembersAt, ClusterOf
      <4>3. Unknown.cluster = NoCluster
        BY DEF Unknown
      <4>. QED BY <1>1, <1>3, <4>2, <4>3
    <3>. QED BY <3>2, <3>3
  <2>. QED BY <2>2 DEF RestartRemembers, RemembersAt
<1>7. Spread(0, Unknown)
  <2>1. ASSUME NEW k \in Node
        PROVE  /\ RowFrom(roster'[k], 0, Unknown) /\ RowFrom(disk'[k].roster, 0, Unknown)
               /\ RowFrom(adopting'[k].call.records, 0, Unknown)
    <3>1. /\ RowFrom(roster[k], 0, Unknown) /\ RowFrom(disk[k].roster, 0, Unknown)
          /\ RowFrom(adopting[k].call.records, 0, Unknown)
      BY <1>2, OldRows
    <3>. QED BY <1>1, <1>3, <1>4, <3>1
  <2>2. \A m \in msgs' : RowFrom(m.records, 0, Unknown)
    BY <1>1, <1>2, OldRows
  <2>3. ASSUME NEW k \in Node, NEW q \in Node, adding'[k].stage = "joined", adding'[k].member = q
        PROVE  From(adding'[k].answer, q, 0, Unknown)
    <3>1. Circulates(adding[k].answer, q)
      BY <1>1, <2>3 DEF Circulates
    <3>. QED BY <1>1, <3>1 DEF From
  <2>. QED BY <2>1, <2>2, <2>3, Spreads
<1>8. GivenGrows
  BY <1>1, <1>2, GivenTyped DEF GivenGrows, Given
<1>. QED BY <1>5, <1>6, <1>7, <1>8, NoNewOne

(* A process that dies: what it has given out and not saved is forgotten.   *)
LEMMA CrashKeeps ==
  ASSUME MembershipInv, NEW n \in Node, Crash(n)
  PROVE  MembershipInv'
<1>1. /\ n \in up /\ up' = up \ {n}
      /\ lapsed' = IF clock[n] = disk[n].clock THEN lapsed ELSE lapsed \cup {n}
      /\ roster' = [roster EXCEPT ![n] = Nobody] /\ clock' = [clock EXCEPT ![n] = 0]
      /\ adding' = [adding EXCEPT ![n] = Idle] /\ adopting' = [adopting EXCEPT ![n] = NoJoin]
      /\ disk' = disk /\ msgs' = msgs /\ now' = now /\ ops' = ops
  BY DEF Crash, Broken
<1>2. Typed /\ JoinInv /\ \A k \in up : RemembersAt(k)
  BY RemembersAll DEF MembershipInv
<1>3. Typed'
  <2>1. /\ roster' \in [Node -> AnyRow] /\ clock' \in [Node -> Nat] /\ adding' \in [Node -> Adding]
        /\ adopting' \in [Node -> [call: AnyCall, old: Nat, left: SUBSET Node]]
    BY <1>1, <1>2, UnknownTyped, IdleTyped, NoJoinTyped DEF Typed
  <2>. QED BY <1>1, <1>2, <2>1 DEF Typed
<1>4. \A k \in Node : /\ k # n => /\ roster'[k] = roster[k] /\ adding'[k] = adding[k]
                                  /\ adopting'[k] = adopting[k] /\ clock'[k] = clock[k]
                      /\ k = n => roster'[k] = Nobody /\ adding'[k] = Idle /\ adopting'[k] = NoJoin
  BY <1>1, <1>2 DEF Typed
<1>5. JoinInv'
  BY <1>1, <1>2, <1>4, IdleTyped DEF JoinInv
<1>6. RestartRemembers'
  <2>1. ASSUME NEW k \in up' PROVE RemembersAt(k)'
    <3>1. k \in Node /\ k \in up /\ k # n
      BY <1>1, <1>2 DEF Typed
    <3>. QED BY <1>1, <1>2, <1>4, <3>1, RemembersStill
  <2>. QED BY <2>1 DEF RestartRemembers, RemembersAt
<1>7. Spread(0, Unknown)
  BY <1>1, <1>2, <1>4, IdleTyped, NothingSpreads
<1>8. GivenGrows
  <2>1. ASSUME NEW b \in Node \ lapsed' PROVE Given(b)' >= Given(b)
    <3>1. Given(b) \in Nat
      BY <1>2, GivenTyped
    <3>2. CASE b = n
      <4>1. Given(b)' = disk[b].clock /\ Given(b) = clock[b] /\ clock[b] = disk[b].clock
        BY <1>1, <2>1, <3>2 DEF Given
      <4>. QED BY <3>1, <4>1
    <3>3. CASE b # n
      <4>1. Given(b)' = Given(b)
        BY <1>1, <1>4, <3>3 DEF Given
      <4>. QED BY <3>1, <4>1
    <3>. QED BY <3>2, <3>3
  <2>. QED BY <1>1, <2>1 DEF GivenGrows
<1>. QED BY <1>3, <1>5, <1>6, <1>7, <1>8, NoNewOne

LEMMA RestartKeeps ==
  ASSUME MembershipInv, NEW n \in Node, Restart(n)
  PROVE  MembershipInv'
<1>1. /\ n \notin up /\ up' = up \cup {n} /\ now' = now + 1
      /\ roster' = [roster EXCEPT ![n] = disk[n].roster]
      /\ clock' = [clock EXCEPT ![n] = Greater(disk[n].clock, disk[n].roster[n].at)]
      /\ adding' = adding /\ adopting' = adopting /\ disk' = disk /\ msgs' = msgs
      /\ ops' = ops /\ lapsed' = lapsed
  BY DEF Restart, bounds
<1>2. Typed /\ JoinInv /\ \A k \in up : RemembersAt(k)
  BY RemembersAll DEF MembershipInv
<1>3. /\ Greater(disk[n].clock, disk[n].roster[n].at) \in Nat
      /\ Greater(disk[n].clock, disk[n].roster[n].at) >= disk[n].clock
  <2>1. disk[n].clock \in Nat /\ disk[n].roster[n].at \in Nat
    BY <1>2 DEF Typed, AnyRow, AnyRecord
  <2>. QED BY <2>1 DEF Greater
<1>4. Typed'
  <2>1. roster' \in [Node -> AnyRow] /\ clock' \in [Node -> Nat]
    BY <1>1, <1>2, <1>3 DEF Typed
  <2>. QED BY <1>1, <1>2, <2>1 DEF Typed
<1>5. \A k \in Node : /\ k # n => roster'[k] = roster[k] /\ clock'[k] = clock[k]
                      /\ k = n => /\ roster'[k] = disk[n].roster
                                  /\ clock'[k] >= disk[n].clock
  BY <1>1, <1>2, <1>3 DEF Typed
<1>6. JoinInv'
  BY <1>1, <1>2 DEF JoinInv
<1>7. RestartRemembers'
  <2>1. ASSUME NEW k \in up' PROVE RemembersAt(k)'
    <3>1. k \in Node
      BY <1>1, <1>2 DEF Typed
    <3>2. CASE k = n
      BY <1>1, <1>5, <3>1, <3>2 DEF RemembersAt
    <3>3. CASE k # n
      BY <1>1, <1>2, <1>5, <3>1, <3>3, RemembersStill
    <3>. QED BY <3>2, <3>3
  <2>. QED BY <2>1 DEF RestartRemembers, RemembersAt
<1>8. Spread(0, Unknown)
  BY <1>1, <1>2, <1>5, NothingSpreads
<1>9. GivenGrows
  <2>1. ASSUME NEW b \in Node \ lapsed' PROVE Given(b)' >= Given(b)
    <3>1. Given(b) \in Nat
      BY <1>2, GivenTyped
    <3>2. CASE b = n
      BY <1>1, <1>5, <3>2 DEF Given
    <3>3. CASE b # n
      <4>1. Given(b)' = Given(b)
        BY <1>1, <1>5, <3>3 DEF Given
      <4>. QED BY <3>1, <4>1
    <3>. QED BY <3>2, <3>3
  <2>. QED BY <1>1, <2>1 DEF GivenGrows
<1>. QED BY <1>4, <1>6, <1>7, <1>8, <1>9, NoNewOne

LEMMA BeginAddKeeps ==
  ASSUME MembershipInv, NEW n \in Node, NEW p \in Node, BeginAdd(n, p)
  PROVE  MembershipInv'
<1>. DEFINE minted == ClusterOf(n, roster[n]) = NoCluster
<1>1. PICK own : own = IF minted THEN Made(n, ops + 1, NextTs(n), FALSE) ELSE roster[n][n]
  OBVIOUS
<1>. DEFINE row == [roster[n] EXCEPT ![n] = own]
            live == [q \in Node |-> IF row[q].removed THEN Unknown ELSE row[q]]
            begun == [stage |-> "joining", member |-> p, cluster |-> own.cluster, answer |-> Unknown]
            m == [type |-> "join", from |-> n, to |-> p, cluster |-> own.cluster, records |-> live]
<1>2. /\ n \in up /\ (Versioned \/ Unversioned)
      /\ roster' = [roster EXCEPT ![n] = row]
      /\ clock' = [clock EXCEPT ![n] = IF minted THEN own.at ELSE clock[n]]
      /\ adding' = [adding EXCEPT ![n] = begun]
      /\ msgs' = msgs \cup {m}
      /\ adopting' = adopting /\ disk' = disk /\ up' = up /\ ops' = ops + 1 /\ lapsed' = lapsed
  BY <1>1 DEF BeginAdd, Operate
<1>3. Typed /\ JoinInv /\ roster[n] \in AnyRow /\ roster[n][n] \in AnyRecord /\ ops + 1 \in Nat
      /\ clock[n] \in Nat /\ \A k \in up : RemembersAt(k)
  BY RemembersAll DEF MembershipInv, Typed, AnyRow
<1>4. /\ own \in AnyRecord /\ own.cluster \in Nat
      /\ minted => own.at \in Nat /\ own.by = n /\ own.at > clock[n]
  <2>1. NextTs(n) \in Nat /\ NextTs(n) > clock[n]
    BY <1>3, NextTsAhead
  <2>2. \A c, ts \in Nat : LET made == Made(n, c, ts, FALSE)
                           IN  made \in AnyRecord /\ made.at = ts /\ made.by = n
    BY ClusterMembershipAssumption DEF Made, AnyRecord
  <2>3. own \in AnyRecord /\ (minted => own.at \in Nat /\ own.by = n /\ own.at > clock[n])
    <3>1. CASE minted
      BY <1>1, <1>3, <2>1, <2>2, <3>1
    <3>2. CASE ~minted
      BY <1>1, <1>3, <3>2
    <3>. QED BY <3>1, <3>2
  <2>4. own.cluster \in Nat
    BY <2>3 DEF AnyRecord
  <2>. QED BY <2>3, <2>4
<1>5. PICK p0, new : IF minted THEN p0 = n /\ new = own ELSE p0 = 0 /\ new = Unknown
  <2>1. CASE minted BY <2>1
  <2>2. CASE ~minted BY <2>2
  <2>. QED BY <2>1, <2>2
<1>6. /\ RowFrom(roster[n], p0, new) /\ From(own, n, p0, new)
      /\ \A k \in msgs : RowFrom(k.records, p0, new)
      /\ \A q \in Node : From(Unknown, q, p0, new)
  <2>1. RowFrom(roster[n], p0, new) /\ \A k \in msgs : RowFrom(k.records, p0, new)
    BY <1>3, OldRows
  <2>2. From(own, n, p0, new)
    <3>1. CASE minted
      BY <1>5, <3>1 DEF From
    <3>2. CASE ~minted
      BY <1>1, <2>1, <3>2 DEF RowFrom
    <3>. QED BY <3>1, <3>2
  <2>3. \A q \in Node : From(Unknown, q, p0, new)
    BY DEF From
  <2>. QED BY <2>1, <2>2, <2>3
<1>7. row \in AnyRow /\ RowFrom(row, p0, new)
  BY <1>3, <1>4, <1>6, ReplacedFrom
<1>. HIDE DEF row, minted
<1>8. live \in AnyRow /\ RowFrom(live, p0, new)
  <2>1. \A q \in Node : live[q] = Unknown \/ live[q] = row[q]
    OBVIOUS
  <2>2. live \in AnyRow
    BY <1>7, UnknownTyped DEF AnyRow
  <2>. HIDE DEF live
  <2>3. ASSUME NEW q \in Node PROVE From(live[q], q, p0, new)
    <3>1. From(row[q], q, p0, new)
      BY <1>7 DEF RowFrom
    <3>. QED BY <1>6, <2>1, <3>1
  <2>. QED BY <2>2, <2>3 DEF RowFrom
<1>. HIDE DEF live
<1>9. m \in AnyCall /\ m.from \in Node /\ m.to \in Node /\ m.records = live
  BY <1>4, <1>8, ClusterMembershipAssumption DEF AnyCall
<1>10. begun \in Adding /\ begun.stage = "joining"
  BY <1>4, UnknownTyped, ClusterMembershipAssumption DEF Adding
<1>. HIDE DEF m, begun
<1>11. /\ roster' \in [Node -> AnyRow] /\ clock' \in [Node -> Nat] /\ adding' \in [Node -> Adding]
       /\ \A k \in Node : /\ k # n => /\ roster'[k] = roster[k] /\ clock'[k] = clock[k]
                                      /\ adding'[k] = adding[k]
                          /\ k = n => roster'[k] = row /\ adding'[k] = begun
       /\ clock'[n] = IF minted THEN own.at ELSE clock[n]
  <2>1. (IF minted THEN own.at ELSE clock[n]) \in Nat
    BY <1>3, <1>4
  <2>. QED BY <1>2, <1>3, <1>7, <1>10, <2>1 DEF Typed
<1>12. \A k \in msgs' : /\ k \in AnyCall /\ k.from \in Node /\ k.to \in Node
                        /\ RowFrom(k.records, p0, new)
  <2>1. \A k \in msgs : k \in AnyCall /\ k.from \in Node /\ k.to \in Node
    BY <1>3 DEF Typed
  <2>. QED BY <1>2, <1>6, <1>8, <1>9, <2>1
<1>13. Typed'
  <2>1. now' \in Nat
    BY <1>2, <1>3, VersionedTyped
  <2>. QED BY <1>2, <1>3, <1>11, <1>12, <2>1 DEF Typed
<1>14. JoinInv'
  BY <1>2, <1>3, <1>10, <1>11 DEF JoinInv
<1>15. RestartRemembers'
  <2>1. ASSUME NEW k \in up' PROVE RemembersAt(k)'
    <3>1. k \in Node /\ k \in up
      BY <1>2, <1>3, <2>1 DEF Typed
    <3>2. CASE k = n
      <4>1. adding'[k] # Idle
        BY <1>10, <1>11, <3>1, <3>2, IdleTyped
      <4>. QED BY <4>1 DEF RemembersAt
    <3>3. CASE k # n
      BY <1>2, <1>3, <1>11, <3>1, <3>3, RemembersStill
    <3>. QED BY <3>2, <3>3
  <2>. QED BY <2>1 DEF RestartRemembers, RemembersAt
<1>16. Spread(p0, new)
  <2>1. ASSUME NEW k \in Node
        PROVE  /\ RowFrom(roster'[k], p0, new) /\ RowFrom(disk'[k].roster, p0, new)
               /\ RowFrom(adopting'[k].call.records, p0, new)
    <3>1. /\ RowFrom(roster[k], p0, new) /\ RowFrom(disk[k].roster, p0, new)
          /\ RowFrom(adopting[k].call.records, p0, new)
      BY <1>3, OldRows
    <3>. QED BY <1>2, <1>7, <1>11, <3>1
  <2>2. \A k \in msgs' : RowFrom(k.records, p0, new)
    BY <1>12
  <2>3. ASSUME NEW k \in Node, NEW q \in Node, adding'[k].stage = "joined", adding'[k].member = q
        PROVE  From(adding'[k].answer, q, p0, new)
    <3>1. k # n
      BY <1>10, <1>11, <2>3
    <3>2. Circulates(adding[k].answer, q)
      BY <1>11, <2>3, <3>1 DEF Circulates
    <3>. QED BY <1>11, <3>1, <3>2 DEF From
  <2>. QED BY <2>1, <2>2, <2>3, Spreads
<1>17. n \in up' /\ Given(n) = clock[n] /\ Given(n)' = clock'[n]
  <2>1. n \in up /\ n \in up'
    BY <1>2
  <2>. QED BY <2>1 DEF Given
<1>18. /\ minted => clock'[n] = own.at /\ clock'[n] > clock[n]
       /\ ~minted => clock'[n] = clock[n]
  <2>1. CASE minted
    BY <1>4, <1>11, <2>1
  <2>2. CASE ~minted
    BY <1>11, <2>2
  <2>. QED BY <2>1, <2>2
<1>19. GivenGrows
  <2>1. ASSUME NEW b \in Node PROVE Given(b)' >= Given(b)
    <3>1. Given(b) \in Nat
      BY <1>3, GivenTyped
    <3>2. CASE b = n
      <4>1. clock'[n] \in Nat
        BY <1>11
      <4>2. clock'[n] >= clock[n]
        <5>1. CASE minted BY <1>3, <1>18, <4>1, <5>1
        <5>2. CASE ~minted BY <1>3, <1>18, <4>1, <5>2
        <5>. QED BY <5>1, <5>2
      <4>. QED BY <1>17, <3>2, <4>2
    <3>3. CASE b # n
      <4>1. Given(b)' = Given(b)
        BY <1>2, <1>11, <3>3 DEF Given
      <4>. QED BY <3>1, <4>1
    <3>. QED BY <3>2, <3>3
  <2>. QED BY <1>2, <2>1 DEF GivenGrows
<1>20. CASE minted
  <2>1. Given(n) = clock[n] /\ Given(n)' = own.at /\ p0 = n /\ new = own /\ own.by = n
    BY <1>4, <1>5, <1>20, <1>17, <1>18
  <2>2. Given(new.by) < new.at /\ new.at <= Given(new.by)' /\ new.by \in Node /\ new \in AnyRecord
    BY <1>3, <1>4, <1>20, <2>1
  <2>. QED BY <1>13, <1>14, <1>15, <1>16, <1>19, <2>2, NewOne
<1>21. CASE ~minted
  BY <1>5, <1>13, <1>14, <1>15, <1>16, <1>19, <1>21, NoNewOne
<1>. QED BY <1>20, <1>21

---------------------------------------------------------------------------
LEMMA InitMembership ==
  ASSUME Init
  PROVE  MembershipInv
<1>1. PICK founders \in Formation :
        /\ roster = [n \in Node |-> IF n \in founders THEN Founding(founders) ELSE Nobody]
        /\ clock = [n \in Node |-> IF n \in founders THEN 1 ELSE 0]
        /\ ops = IF founders = {} THEN 0 ELSE 1
  BY DEF Init
<1>2. /\ adding = [n \in Node |-> Idle] /\ adopting = [n \in Node |-> NoJoin]
      /\ disk = [n \in Node |-> [roster |-> roster[n], clock |-> clock[n]]]
      /\ msgs = {} /\ up = Node /\ now = 1 /\ lapsed = {}
  BY DEF Init
<1>3. founders \subseteq Node /\ MaxOps + 1 \in Nat
  BY ClusterMembershipAssumption
<1>4. \A p \in Node : LET made == Made(p, Founded, 1, FALSE)
                      IN  made \in AnyRecord /\ made.at = 1 /\ made.by = p
  BY <1>3, ClusterMembershipAssumption DEF Made, AnyRecord, Founded
<1>5. \A p \in Node : Founding(founders)[p] =
        IF p \in founders THEN Made(p, Founded, 1, FALSE) ELSE Unknown
  BY DEF Founding
<1>6. Founding(founders) \in AnyRow
  <2>1. \A p \in Node : Founding(founders)[p] \in AnyRecord
    BY <1>4, <1>5, UnknownTyped
  <2>2. Founding(founders) = [p \in Node |-> Founding(founders)[p]]
    BY DEF Founding
  <2>. QED BY <2>1, <2>2 DEF AnyRow
<1>7. /\ \A n \in Node : (n \in founders /\ roster[n] = Founding(founders)) \/ roster[n] = Nobody
      /\ \A n \in Node : clock[n] = IF n \in founders THEN 1 ELSE 0
      /\ \A n \in Node : disk[n].roster = roster[n] /\ disk[n].clock = clock[n]
      /\ \A n \in Node : adding[n] = Idle /\ adopting[n] = NoJoin
  BY <1>1, <1>2
<1>8. Typed
  <2>1. \A n \in Node : roster[n] \in AnyRow /\ clock[n] \in Nat
    BY <1>6, <1>7, UnknownTyped
  <2>2. roster \in [Node -> AnyRow] /\ clock \in [Node -> Nat]
    BY <1>1, <2>1
  <2>3. disk \in [Node -> [roster: AnyRow, clock: Nat]]
    BY <1>2, <2>1
  <2>4. adding \in [Node -> Adding] /\ adopting \in [Node -> [call: AnyCall, old: Nat, left: SUBSET Node]]
    BY <1>2, IdleTyped, NoJoinTyped
  <2>5. now \in Nat /\ ops \in Nat
    BY <1>1, <1>2
  <2>. QED BY <1>2, <2>2, <2>3, <2>4, <2>5 DEF Typed
<1>9. JoinInv
  BY <1>7, IdleTyped DEF JoinInv
<1>10. RestartRemembers
  BY <1>2, <1>7 DEF RestartRemembers
<1>11. \A p \in Node : Nobody[p] = Unknown
  BY DEF Nobody
<1>12. ASSUME NEW p \in Node, NEW r, Circulates(r, p), r # Unknown
       PROVE  p \in founders /\ r = Made(p, Founded, 1, FALSE)
  <2>1. \/ \E n \in Node : r = roster[n][p] \/ r = disk[n].roster[p] \/ r = adopting[n].call.records[p]
        \/ \E n \in Node : adding[n].stage = "joined"
    BY <1>2, <1>12 DEF Circulates
  <2>2. \A n \in Node : adding[n].stage # "joined"
    BY <1>7, IdleTyped
  <2>3. PICK n \in Node : r = roster[n][p] \/ r = Nobody[p]
    BY <1>7, <2>1, <2>2, NoJoinTyped
  <2>4. r = Founding(founders)[p]
    BY <1>7, <1>11, <1>12, <2>3
  <2>. QED BY <1>5, <1>12, <2>4
<1>13. VersionInv
  <2>1. ASSUME NEW p \in Node, NEW r, Circulates(r, p), r # Unknown PROVE Covered(r)
    <3>1. p \in founders /\ r.at = 1 /\ r.by = p
      BY <1>4, <1>12, <2>1
    <3>2. Given(p) = 1
      BY <1>2, <1>7, <3>1 DEF Given
    <3>. QED BY <3>1, <3>2 DEF Covered
  <2>2. \A p \in Node : \A r, s : Circulates(r, p) /\ Circulates(s, p) /\ r # Unknown /\ s # Unknown
                                  => r = s
    <3>. SUFFICES ASSUME NEW p \in Node, NEW r, NEW s, Circulates(r, p), Circulates(s, p),
                         r # Unknown, s # Unknown
                  PROVE  r = s
      OBVIOUS
    <3>1. r = Made(p, Founded, 1, FALSE) /\ s = Made(p, Founded, 1, FALSE)
      BY <1>12
    <3>. QED BY <3>1
  <2>. QED BY <2>1, <2>2 DEF VersionInv
<1>. QED BY <1>8, <1>9, <1>10, <1>13 DEF MembershipInv

LEMMA NextMembership ==
  ASSUME MembershipInv, [Next]_vars
  PROVE  MembershipInv'
<1>1. Typed
  BY DEF MembershipInv
<1>2. ASSUME NEW n \in Node, NEW p \in Node, CheckHold(n, p) PROVE MembershipInv'
  BY <1>1, <1>2, StillKeeps DEF CheckHold, bounds, Typed
<1>3. ASSUME NEW m \in msgs, Lose(m) PROVE MembershipInv'
  BY <1>1, <1>3, StillKeeps DEF Lose, Fault, Broken, node, bounds, Typed
<1>4. CASE CalmDown
  BY <1>1, <1>4, StillKeeps DEF CalmDown, node, Typed
<1>5. CASE UNCHANGED vars
  BY <1>1, <1>5, StillKeeps DEF vars, Typed
<1>6. ASSUME NEW n \in Node, NEW p \in Node,
             BeginAdd(n, p) \/ SetRemove(n, p) \/ Forget(n, p) \/ CheckHold(n, p)
      PROVE  MembershipInv'
  BY <1>2, <1>6, BeginAddKeeps, SetRemoveKeeps, ForgetKeeps
<1>7. ASSUME NEW n \in Node, FinishAdd(n) \/ Adopt(n) \/ Sweep(n) \/ Crash(n) \/ Restart(n)
      PROVE  MembershipInv'
  BY <1>7, FinishAddKeeps, AdoptKeeps, SweepKeeps, CrashKeeps, RestartKeeps
<1>8. ASSUME NEW m \in msgs, BeginJoin(m) \/ Evicted(m) \/ Leave(m) \/ Sync(m) \/ Lose(m)
      PROVE  MembershipInv'
  BY <1>3, <1>8, BeginJoinKeeps, EvictedKeeps, LeaveKeeps, SyncKeeps
<1>. QED BY <1>4, <1>5, <1>6, <1>7, <1>8 DEF Next

(* Every record that circulates is covered by the clock of whoever made it,  *)
(* and the disk of a node that is not in the middle of set_add has what its  *)
(* memory has of its cluster.                                              *)
THEOREM SpecMembershipInv == Spec => []MembershipInv
<1>1. Init => MembershipInv
  BY InitMembership
<1>2. MembershipInv /\ [Next]_vars => MembershipInv'
  BY NextMembership
<1>. QED BY <1>1, <1>2, PTL DEF Spec

(* Copies of a membership record that have the same version are the same,   *)
(* however many nodes exchange them: an exchange of versions misses nothing. *)
THEOREM SpecVersionTellsRecord == Spec => []VersionTellsRecord
<1>1. MembershipInv => VersionTellsRecord
  <2>. SUFFICES ASSUME MembershipInv, NEW n \in Node, NEW q \in Node, NEW p \in Node,
                       roster[n][p] # Unknown, roster[q][p] # Unknown,
                       roster[n][p].at = roster[q][p].at, roster[n][p].by = roster[q][p].by,
                       roster[n][p].by \notin lapsed
                PROVE  roster[n][p] = roster[q][p]
    BY DEF VersionTellsRecord
  <2>1. Circulates(roster[n][p], p) /\ Circulates(roster[q][p], p)
    BY DEF Circulates
  <2>2. SameVersion(roster[n][p], roster[q][p])
    BY DEF SameVersion
  <2>. QED BY <2>1, <2>2 DEF MembershipInv, VersionInv
<1>. QED BY <1>1, SpecMembershipInv, PTL

(* A process that dies between two operations comes back a member of the    *)
(* cluster it was in, with the members and the removals it knew of.         *)
THEOREM SpecRestartRemembers == Spec => []RestartRemembers
<1>1. MembershipInv => RestartRemembers
  BY DEF MembershipInv
<1>. QED BY <1>1, SpecMembershipInv, PTL

---------------------------------------------------------------------------
(* A removal of p that n knows of, and what a step may make of it.          *)
Holds(n, p) ==
  roster[n][p].removed /\ roster'[n][p] # Unknown /\ n \in up
    /\ adding'[n] = adding[n] /\ adopting'[n] = adopting[n]
    => roster'[n][p] = roster[n][p] \/ Newer(roster'[n][p], roster[n][p])

LEMMA SavedHolds ==
  ASSUME Typed, NEW n \in Node, NEW row \in AnyRow, NEW ts \in Nat, Has(n, row, ts),
         NEW p \in Node,
         \/ row = Nobody
         \/ row[p] = roster[n][p] \/ Newer(row[p], roster[n][p]) \/ ~roster[n][p].removed,
         NEW k \in Node
  PROVE  Holds(k, p)
<1>1. roster'[n] = row /\ \A q \in Node \ {n} : roster'[q] = roster[q]
  BY HasFacts
<1>2. Nobody[p] = Unknown
  BY DEF Nobody
<1>. QED BY <1>1, <1>2 DEF Holds

LEMMA MergedHolds ==
  ASSUME Typed, NEW n \in Node, NEW records \in AnyRow, Has(n, Merged(n, roster[n], records), 0),
         NEW p \in Node, NEW k \in Node
  PROVE  Holds(k, p)
<1>1. roster[n] \in AnyRow
  BY DEF Typed
<1>2. /\ Merged(n, roster[n], records) \in AnyRow
      /\ \/ Merged(n, roster[n], records)[p] = roster[n][p]
         \/ Newer(Merged(n, roster[n], records)[p], roster[n][p])
  BY <1>1, MergedTyped
<1>. QED BY <1>2, SavedHolds

LEMMA StillHolds ==
  ASSUME NEW n \in Node, NEW p \in Node,
         \/ roster'[n] = roster[n] \/ roster'[n][p] = Unknown \/ n \notin up
         \/ adding'[n] # adding[n] \/ adopting'[n] # adopting[n]
  PROVE  Holds(n, p)
BY DEF Holds

(* The removals that n makes itself, too, are newer than what it had.       *)
LEMMA MadeHolds ==
  ASSUME Typed, NEW n \in Node, NEW p \in Node, NEW c \in Nat, NEW gone,
         gone = Made(n, c, TsAfter(n, roster[n][p]), TRUE),
         Has(n, [roster[n] EXCEPT ![p] = gone], gone.at), NEW q \in Node, NEW k \in Node
  PROVE  Holds(k, q)
<1>1. roster[n] \in AnyRow /\ roster[n][p] \in AnyRecord
  BY DEF Typed, AnyRow
<1>2. TsAfter(n, roster[n][p]) \in Nat /\ TsAfter(n, roster[n][p]) > roster[n][p].at
  BY <1>1, NextTsAhead
<1>3. gone \in AnyRecord /\ gone.at \in Nat /\ gone.at > roster[n][p].at
  BY <1>2, MadeTyped
<1>4. /\ [roster[n] EXCEPT ![p] = gone] \in AnyRow
      /\ [roster[n] EXCEPT ![p] = gone][q] = IF q = p THEN gone ELSE roster[n][q]
  BY <1>1, <1>3 DEF AnyRow
<1>5. [roster[n] EXCEPT ![p] = gone][q] = roster[n][q]
      \/ Newer([roster[n] EXCEPT ![p] = gone][q], roster[n][q])
  <2>1. Newer(gone, roster[n][p])
    BY <1>3 DEF Newer
  <2>. QED BY <1>4, <2>1
<1>. QED BY <1>3, <1>4, <1>5, SavedHolds

LEMMA NextHolds ==
  ASSUME MembershipInv, [Next]_vars, NEW k \in Node, NEW q \in Node
  PROVE  Holds(k, q)
<1>1. Typed /\ JoinInv /\ \A n \in Node : roster[n] \in AnyRow
  BY DEF MembershipInv, Typed
<1>2. roster' = roster => Holds(k, q)
  BY StillHolds
<1>3. ASSUME NEW n \in Node, NEW p \in Node, BeginAdd(n, p) PROVE Holds(k, q)
  <2>1. PICK own : roster' = [roster EXCEPT ![n] = [roster[n] EXCEPT ![n] = own]]
    BY <1>3 DEF BeginAdd
  <2>2. PICK begun : adding' = [adding EXCEPT ![n] = begun] /\ begun.stage = "joining"
    <3>1. PICK c : adding' = [adding EXCEPT ![n] =
             [stage |-> "joining", member |-> p, cluster |-> c, answer |-> Unknown]]
      BY <1>3 DEF BeginAdd
    <3>2. [stage |-> "joining", member |-> p, cluster |-> c, answer |-> Unknown].stage = "joining"
      OBVIOUS
    <3>. QED BY <3>1, <3>2
  <2>3. adding'[n] # adding[n]
    <3>1. adding[n] = Idle
      BY <1>3 DEF BeginAdd
    <3>2. adding'[n] = begun
      BY <1>1, <2>2 DEF Typed
    <3>. QED BY <2>2, <3>1, <3>2, IdleTyped
  <2>4. k # n => roster'[k] = roster[k]
    BY <1>1, <2>1 DEF Typed
  <2>. QED BY <2>3, <2>4, StillHolds
<1>4. ASSUME NEW n \in Node, NEW p \in Node, SetRemove(n, p) PROVE Holds(k, q)
  <2>1. PICK gone : /\ gone = Made(n, ClusterOf(n, roster[n]), TsAfter(n, roster[n][p]), TRUE)
                    /\ Has(n, [roster[n] EXCEPT ![p] = gone], gone.at)
    BY <1>4 DEF SetRemove
  <2>2. ClusterOf(n, roster[n]) \in Nat
    BY <1>1 DEF AnyRow, AnyRecord, ClusterOf
  <2>. QED BY <1>1, <2>1, <2>2, MadeHolds
<1>5. ASSUME NEW n \in Node, NEW p \in Node, Forget(n, p) PROVE Holds(k, q)
  <2>1. roster' = [roster EXCEPT ![n][p] = Unknown]
    BY <1>5 DEF Forget
  <2>2. roster'[k][q] = IF k = n /\ q = p THEN Unknown ELSE roster[k][q]
    BY <1>1, <2>1 DEF Typed, AnyRow
  <2>. QED BY <2>2 DEF Holds
<1>6. ASSUME NEW n \in Node, FinishAdd(n) PROVE Holds(k, q)
  <2>1. PICK row : Has(n, row, 0)
    BY <1>6 DEF FinishAdd
  <2>2. adding'[n] = Idle /\ adding[n].stage # "idle"
    BY <1>1, <1>6 DEF FinishAdd, Typed
  <2>3. k # n => roster'[k] = roster[k]
    BY <1>1, <2>1 DEF Has, Typed
  <2>. QED BY <2>2, <2>3, IdleTyped, StillHolds
<1>7. ASSUME NEW p \in Node, Adopt(p) PROVE Holds(k, q)
  <2>1. PICK row, ts : Has(p, row, ts)
    BY <1>7 DEF Adopt
  <2>2. adopting'[p] = NoJoin /\ adopting[p] # NoJoin
    BY <1>1, <1>7 DEF Adopt, Typed
  <2>3. k # p => roster'[k] = roster[k]
    BY <1>1, <2>1 DEF Has, Typed
  <2>. QED BY <2>2, <2>3, StillHolds
<1>8. ASSUME NEW n \in Node, Has(n, Nobody, 0) PROVE Holds(k, q)
  BY <1>1, <1>8, UnknownTyped, SavedHolds
<1>9. ASSUME NEW n \in Node, Sweep(n) PROVE Holds(k, q)
  <2>1. PICK peers : /\ peers \subseteq Node
                     /\ \/ Has(n, Nobody, 0)
                        \/ Has(n, Merged(n, roster[n], Newest(peers)), 0)
                        \/ roster' = roster
    <3>1. Connected(n, roster[n], sessions)[n] \cap up \subseteq Node
      BY <1>1 DEF Typed
    <3>. QED BY <1>9, <3>1 DEF Sweep
  <2>2. Newest(peers) \in AnyRow
    BY <1>1, <2>1, NewestTyped
  <2>. QED BY <1>1, <1>2, <1>8, <2>1, <2>2, MergedHolds
<1>10. ASSUME NEW n \in Node, Crash(n) PROVE Holds(k, q)
  <2>1. roster' = [roster EXCEPT ![n] = Nobody]
    BY <1>10 DEF Crash
  <2>2. k # n => roster'[k] = roster[k]
    BY <1>1, <2>1 DEF Typed
  <2>3. k = n => roster'[k][q] = Unknown
    BY <1>1, <2>1 DEF Typed, Nobody
  <2>. QED BY <2>2, <2>3, StillHolds
<1>11. ASSUME NEW n \in Node, Restart(n) PROVE Holds(k, q)
  <2>1. n \notin up /\ roster' = [roster EXCEPT ![n] = disk[n].roster]
    BY <1>11 DEF Restart
  <2>2. k # n => roster'[k] = roster[k]
    BY <1>1, <2>1 DEF Typed
  <2>. QED BY <2>1, <2>2, StillHolds
<1>12. ASSUME NEW m \in msgs, Leave(m) PROVE Holds(k, q)
  <2>. DEFINE n == m.to
              p == m.from
              of == IF roster[n][p] # Unknown THEN roster[n][p].cluster ELSE ClusterOf(n, roster[n])
  <2>1. PICK gone : /\ gone = Made(n, of, TsAfter(n, roster[n][p]), TRUE)
                    /\ Has(n, [roster[n] EXCEPT ![p] = gone], gone.at)
    BY <1>12 DEF Leave
  <2>2. n \in Node /\ p \in Node
    BY <1>1 DEF Typed
  <2>3. of \in Nat
    BY <1>1, <2>2 DEF AnyRow, AnyRecord, ClusterOf
  <2>. HIDE DEF n, p, of
  <2>. QED BY <1>1, <2>1, <2>2, <2>3, MadeHolds
<1>13. ASSUME NEW m \in msgs, Sync(m) PROVE Holds(k, q)
  <2>1. m.to \in Node /\ m.records \in AnyRow
    BY <1>1 DEF Typed, AnyCall
  <2>2. \/ Has(m.to, Nobody, 0)
        \/ Has(m.to, Merged(m.to, roster[m.to], m.records), 0)
        \/ roster' = roster
    BY <1>13 DEF Sync, Standalone
  <2>. QED BY <1>1, <1>2, <1>8, <2>1, <2>2, MergedHolds
<1>14. ASSUME NEW m \in msgs, Evicted(m) PROVE Holds(k, q)
  <2>1. m.to \in Node /\ Has(m.to, Nobody, 0)
    BY <1>1, <1>14 DEF Typed, Evicted, Standalone
  <2>. QED BY <1>8, <2>1
<1>15. ASSUME \/ \E n, p \in Node : CheckHold(n, p)
              \/ \E m \in msgs : BeginJoin(m) \/ Lose(m)
              \/ CalmDown \/ UNCHANGED vars
       PROVE  Holds(k, q)
  <2>1. roster' = roster
    BY <1>15 DEF CheckHold, BeginJoin, Lose, CalmDown, vars, node
  <2>. QED BY <1>2, <2>1
<1>. QED BY <1>3, <1>4, <1>5, <1>6, <1>7, <1>9, <1>10, <1>11, <1>12, <1>13, <1>14, <1>15 DEF Next

(* A removal that a node knows of gives way to a newer record only, whatever *)
(* its peers push or have when they are asked.                              *)
THEOREM SpecRemovalHolds == Spec => RemovalHolds
<1>. DEFINE Step == \A n, p \in Node :
       roster[n][p].removed /\ roster'[n][p] # Unknown /\ n \in up
         /\ adding'[n] = adding[n] /\ adopting'[n] = adopting[n]
         => roster'[n][p] = roster[n][p] \/ Newer(roster'[n][p], roster[n][p])
<1>1. MembershipInv /\ [Next]_vars => [Step]_vars
  <2>. SUFFICES ASSUME MembershipInv, [Next]_vars, NEW n \in Node, NEW p \in Node PROVE Holds(n, p)
    BY DEF Holds
  <2>. QED BY NextHolds
<1>. QED BY <1>1, SpecMembershipInv, PTL DEF Spec, RemovalHolds
=============================================================================
