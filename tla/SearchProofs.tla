---------------------------- MODULE SearchProofs ----------------------------
(***************************************************************************)
(* Proofs about what a search walks over: the taxonomy's tree, with its     *)
(* builder and the searches over it, for every set of services, categories *)
(* and searchers; and the vector index, for every number of syncs, services*)
(* and models.                                                             *)
(***************************************************************************)
EXTENDS TaxonomySearch, VectorIndex, FiniteSetTheorems, WellFoundedInduction, TLAPS

(***************************************************************************)
(* The taxonomy's tree and its searches (TaxonomyTree, TaxonomySearch).     *)
(***************************************************************************)
(* A set of numbers up to a bound has a least one.                         *)
LEMMA LeastExists ==
  ASSUME NEW N \in Nat, NEW S, S \subseteq 0..N, S # {}
  PROVE  \E k \in S : \A j \in S : k <= j
<1>. DEFINE Below(k) == {j \in S : j < k}
            Sets == {Below(k) : k \in S}
<1>. HIDE DEF Below, Sets
<1>1. IsFiniteSet(S) /\ \A j \in S : j \in Nat
  <2>1. IsFiniteSet(0..N)
    BY FS_Interval
  <2>2. IsFiniteSet(S)
    BY <2>1, FS_Subset
  <2>. QED BY <2>2
<1>2. IsWellFoundedOn(StrictSubsetOrdering(S), SUBSET S)
  BY <1>1, FS_StrictSubsetOrderingWellFounded, FS_FiniteSubsetsOfFinite
<1>3. Sets \subseteq SUBSET S /\ Sets # {}
  BY DEF Below, Sets
<1>4. PICK A \in Sets : \A B \in Sets : ~ (<<B, A>> \in StrictSubsetOrdering(S))
  BY <1>2, <1>3, WFMin
<1>5. PICK k \in S : A = Below(k)
  BY <1>4 DEF Sets
<1>6. ASSUME NEW j \in S, j < k
      PROVE  FALSE
  <2>1. Below(j) \subseteq Below(k) /\ j \in Below(k) /\ j \notin Below(j)
    <3>1. j \in Nat /\ k \in Nat /\ \A i \in S : i \in Nat
      BY <1>1
    <3>2. \A i \in S : i < j => i < k
      BY <3>1, <1>6
    <3>3. j \in S /\ j < k /\ ~(j < j)
      BY <3>1, <1>6
    <3>. QED BY <3>2, <3>3 DEF Below
  <2>2. Below(j) \in SUBSET S /\ Below(k) \in SUBSET S /\ Below(j) # Below(k)
    BY <2>1 DEF Below
  <2>3. <<Below(j), Below(k)>> \in StrictSubsetOrdering(S)
    BY <2>1, <2>2 DEF StrictSubsetOrdering
  <2>4. Below(j) \in Sets
    BY DEF Sets
  <2>. QED BY <1>4, <1>5, <2>3, <2>4
<1>. QED BY <1>1, <1>6

(* Induction: a set that has 0 and, with a number, the next, has all.       *)
LEMMA Induction ==
  ASSUME NEW S, 0 \in S, \A k \in Nat : k \in S => k + 1 \in S
  PROVE  \A k \in Nat : k \in S
<1>. SUFFICES ASSUME NEW N \in Nat, N \notin S PROVE FALSE
  OBVIOUS
<1>. DEFINE Missing == {k \in 0..N : k \notin S}
<1>1. PICK k \in Missing : \A j \in Missing : k <= j
  <2>1. Missing \subseteq 0..N /\ Missing # {}
    OBVIOUS
  <2>. HIDE DEF Missing
  <2>. QED BY <2>1, LeastExists
<1>2. k \in Nat /\ k # 0 /\ k - 1 \in Nat /\ k - 1 \notin Missing /\ k - 1 \in 0..N
  BY <1>1
<1>3. k - 1 \in S /\ (k - 1) + 1 = k
  BY <1>2
<1>. QED BY <1>1, <1>2, <1>3

---------------------------------------------------------------------------
(* The levels below a node are each below the one before.                  *)
Below(t, level) == UNION {t.children[m] : m \in level}

(* h has them up to the k-th.                                              *)
Begins(h, k, t, n) ==
  h = [d \in 0..k |-> IF d = 0 THEN {n} ELSE Below(t, h[d - 1])]

LEMMA LevelStep ==
  ASSUME NEW t, NEW n
  PROVE  /\ Level(t, n)[0] = {n}
         /\ \A d \in Nat : Level(t, n)[d + 1] = Below(t, Level(t, n)[d])
<1>. DEFINE Starts == {k \in Nat : \E h : Begins(h, k, t, n)}
            Same == {k \in Nat : \A g, h : \A i, j \in Nat :
                       k <= i /\ k <= j /\ Begins(g, i, t, n) /\ Begins(h, j, t, n) => g[k] = h[k]}
<1>1. \A k \in Nat : k \in Starts
  <2>1. 0 \in Starts
    <3>1. Begins([d \in 0..0 |-> {n}], 0, t, n)
      BY DEF Begins
    <3>. QED BY <3>1
  <2>2. ASSUME NEW k \in Nat, k \in Starts PROVE k + 1 \in Starts
    <3>1. PICK h : Begins(h, k, t, n)
      BY <2>2
    <3>. DEFINE g == [d \in 0..(k + 1) |-> IF d = k + 1 THEN Below(t, h[k]) ELSE h[d]]
    <3>2. \A d \in 0..k : h[d] = IF d = 0 THEN {n} ELSE Below(t, h[d - 1])
      BY <3>1 DEF Begins
    <3>3. \A d \in 0..(k + 1) : g[d] = IF d = 0 THEN {n} ELSE Below(t, g[d - 1])
      <4>. TAKE d \in 0..(k + 1)
      <4>1. CASE d = k + 1
        <5>1. g[d] = Below(t, h[k]) /\ g[d - 1] = h[k] /\ d # 0
          BY <4>1
        <5>. HIDE DEF g
        <5>. QED BY <5>1
      <4>2. CASE d \in 0..k
        <5>1. g[d] = h[d] /\ (d # 0 => g[d - 1] = h[d - 1])
          BY <4>2
        <5>. HIDE DEF g
        <5>. QED BY <5>1, <4>2, <3>2
      <4>. QED BY <4>1, <4>2
    <3>4. g = [d \in 0..(k + 1) |-> IF d = 0 THEN {n} ELSE Below(t, g[d - 1])]
      <4>1. g = [d \in 0..(k + 1) |-> g[d]]
        OBVIOUS
      <4>. HIDE DEF g
      <4>. QED BY <4>1, <3>3
    <3>5. Begins(g, k + 1, t, n)
      <4>. HIDE DEF g
      <4>. QED BY <3>4 DEF Begins
    <3>. HIDE DEF g
    <3>. QED BY <3>5
  <2>. HIDE DEF Starts
  <2>. QED BY <2>1, <2>2, Induction
<1>2. \A k \in Nat : k \in Same
  <2>1. ASSUME NEW g, NEW i \in Nat, NEW k \in Nat, k <= i, Begins(g, i, t, n)
        PROVE  g[k] = IF k = 0 THEN {n} ELSE Below(t, g[k - 1])
    <3>1. \A d \in 0..i : g[d] = IF d = 0 THEN {n} ELSE Below(t, g[d - 1])
      BY <2>1 DEF Begins
    <3>2. k \in 0..i
      BY <2>1
    <3>. QED BY <3>1, <3>2
  <2>2. 0 \in Same
    BY <2>1
  <2>3. ASSUME NEW k \in Nat, k \in Same PROVE k + 1 \in Same
    <3>. SUFFICES ASSUME NEW g, NEW h, NEW i \in Nat, NEW j \in Nat, k + 1 <= i, k + 1 <= j,
                         Begins(g, i, t, n), Begins(h, j, t, n)
                  PROVE  g[k + 1] = h[k + 1]
      OBVIOUS
    <3>1. g[k] = h[k]
      BY <2>3
    <3>2. g[k + 1] = Below(t, g[k]) /\ h[k + 1] = Below(t, h[k])
      BY <2>1
    <3>. QED BY <3>1, <3>2
  <2>. HIDE DEF Same
  <2>. QED BY <2>2, <2>3, Induction
<1>. DEFINE first(k) == CHOOSE h : Begins(h, k, t, n)
            level == [k \in Nat |-> first(k)[k]]
<1>3. \A k \in Nat : Begins(first(k), k, t, n)
  BY <1>1
<1>4. \A k \in Nat : level[k] = IF k = 0 THEN {n} ELSE Below(t, level[k - 1])
  <2>. TAKE k \in Nat
  <2>. HIDE DEF first
  <2>1. first(k)[k] = IF k = 0 THEN {n} ELSE Below(t, first(k)[k - 1])
    <3>1. \A d \in 0..k : first(k)[d] = IF d = 0 THEN {n} ELSE Below(t, first(k)[d - 1])
      BY <1>3 DEF Begins
    <3>. QED BY <3>1
  <2>2. CASE k = 0
    BY <2>1, <2>2
  <2>3. CASE k # 0
    <3>1. k - 1 \in Nat /\ k - 1 <= k /\ k - 1 <= k - 1
      BY <2>3
    <3>2. first(k)[k - 1] = first(k - 1)[k - 1]
      BY <1>2, <1>3, <3>1
    <3>. QED BY <2>1, <2>3, <3>1, <3>2
  <2>. QED BY <2>2, <2>3
<1>5. level = [k \in Nat |-> IF k = 0 THEN {n} ELSE Below(t, level[k - 1])]
  <2>1. level = [k \in Nat |-> level[k]]
    OBVIOUS
  <2>. HIDE DEF level
  <2>. QED BY <2>1, <1>4
<1>6. Level(t, n) = [k \in Nat |-> IF k = 0 THEN {n} ELSE Below(t, Level(t, n)[k - 1])]
  <2>. HIDE DEF level
  <2>. QED BY <1>5 DEF Level, Below
<1>. QED
  <2>1. \A d \in Nat : Level(t, n)[d] = IF d = 0 THEN {n} ELSE Below(t, Level(t, n)[d - 1])
    BY <1>6
  <2>2. \A d \in Nat : d + 1 \in Nat /\ d + 1 # 0 /\ (d + 1) - 1 = d
    OBVIOUS
  <2>. QED BY <2>1, <2>2
---------------------------------------------------------------------------
Stage == {"idle", "load", "split", "classify", "cross", "save_tree", "save_names", "save_stamp"}

AnyTree ==
  [children: UNION {[N -> SUBSET N] : N \in SUBSET Node},
   services: UNION {[N -> SUBSET Service] : N \in SUBSET Node},
   status: {"bfs", "cross_domain", "complete"}, of: SUBSET Service,
   collided: BOOLEAN, stretched: BOOLEAN]

AnyDisk ==
  [tree: AnyTree \cup {Absent, Torn}, names: {Absent, Torn, Whole},
   stamp: {Absent, Torn} \cup SUBSET Service]

AnyJob ==
  [at: Stage, index: SUBSET Service, tree: AnyTree \cup {Absent},
   queue: SUBSET (Node \X (0..(MaxDepth - 1))), node: Node \X Nat,
   subs: SUBSET Category, round: 0..(IF MaxRefine > 0 THEN MaxRefine ELSE 1)]

BuilderTyped ==
  /\ services \subseteq Service
  /\ disk \in AnyDisk
  /\ job \in AnyJob
  /\ used \in [builds: Nat, faults: Nat]

---------------------------------------------------------------------------
(* No category is below itself: below tells what is below each.             *)
Descends(t, below) ==
  /\ below \in [DOMAIN t.children -> SUBSET DOMAIN t.children]
  /\ \A n \in DOMAIN t.children :
       /\ n \notin below[n]
       /\ \A c \in t.children[n] : c \in below[n] /\ below[c] \subseteq below[n]

(* Each category has one parent, and so many above it as it is deep.        *)
Parents(t, c) == {n \in DOMAIN t.children : c \in t.children[n]}

Arbor(t, above) ==
  /\ above \in [DOMAIN t.children -> SUBSET DOMAIN t.children]
  /\ above[Root] = {}
  /\ \A n \in DOMAIN t.children :
       /\ n \notin above[n]
       /\ Cardinality(above[n]) <= MaxDepth
       /\ \A c \in t.children[n] : above[c] = above[n] \cup {n}
       /\ n # Root => \E p \in DOMAIN t.children : Parents(t, n) = {p}

(* A node that waits to be split is a leaf, and as deep as the queue says.  *)
Awaits(t, above, q) ==
  q[1] \in DOMAIN t.children /\ t.children[q[1]] = {} /\ Cardinality(above[q[1]]) = q[2]

Held(t) == UNION {t.services[n] : n \in DOMAIN t.children}

Rooted(t) == Root \in DOMAIN t.children /\ DOMAIN t.services = DOMAIN t.children

(* What holds of any tree, on its way or on disk; some of its nodes wait.    *)
Good(t, waiting) ==
  /\ t \in AnyTree /\ Rooted(t)
  /\ \E below : Descends(t, below)
  /\ ~t.collided => \E above : Arbor(t, above) /\ \A q \in waiting : Awaits(t, above, q)
  /\ Sound(t) => t.of \subseteq Held(t)

Waiting == job.queue \cup (IF job.at = "classify" THEN {job.node} ELSE {})

Building == job.at \notin {"idle", "load"}

TreesInv ==
  /\ disk.tree \in {Absent, Torn} \/ Good(disk.tree, {})
  /\ job.at = "idle" => job = NoJob
  /\ job.at = "load" => job.tree = Absent \/ Good(job.tree, {})
  /\ Building => Good(job.tree, Waiting)
  /\ job.at = "classify" =>
       job.node \notin job.queue /\ job.node[2] < MaxDepth

(* A stamp is of the services that the tree beside it was begun with.       *)
Dated(t) == Readable(disk.stamp) /\ ~t.stretched => disk.stamp = t.of

StampInv ==
  /\ Readable(disk.tree) => Dated(disk.tree)
  /\ job.at = "load" => IF job.tree = Absent THEN ~Readable(disk.stamp) ELSE Dated(job.tree)
  /\ Building => Dated(job.tree) /\ (~job.tree.stretched => job.index = job.tree.of)
  /\ job.at \in {"save_names", "save_stamp"} => disk.tree = job.tree

BuilderInv == BuilderTyped /\ TreesInv /\ StampInv

---------------------------------------------------------------------------
(* What the tree looks like from a node. *)
LEMMA GoodParts ==
  ASSUME NEW t, t \in AnyTree, Rooted(t)
  PROVE  /\ Root \in DOMAIN t.children /\ DOMAIN t.children \subseteq Node
         /\ t.children \in [DOMAIN t.children -> SUBSET DOMAIN t.children]
         /\ t.services \in [DOMAIN t.children -> SUBSET Service]
         /\ IsFiniteSet(DOMAIN t.children)
         /\ Cardinality(DOMAIN t.children) \in Nat
         /\ Cardinality(DOMAIN t.children) <= Cardinality(Node) /\ Cardinality(Node) \in Nat
<1>1. PICK N \in SUBSET Node : t.children \in [N -> SUBSET N]
  BY DEF AnyTree
<1>2. PICK M \in SUBSET Node : t.services \in [M -> SUBSET Service]
  BY DEF AnyTree
<1>3. IsFiniteSet(Node)
  BY TreeAssumption, FS_AddElement DEF Node
<1>4. N = DOMAIN t.children /\ M = DOMAIN t.children
  BY <1>1, <1>2 DEF Rooted
<1>5. IsFiniteSet(N) /\ Cardinality(N) <= Cardinality(Node)
  BY <1>3, FS_Subset
<1>6. Cardinality(N) \in Nat /\ Cardinality(Node) \in Nat
  BY <1>3, <1>5, FS_CardinalityType
<1>. QED BY <1>1, <1>2, <1>4, <1>5, <1>6 DEF Rooted

LEMMA LevelsIn ==
  ASSUME NEW t, t \in AnyTree, Rooted(t), NEW n \in DOMAIN t.children
  PROVE  \A d \in Nat : Level(t, n)[d] \subseteq DOMAIN t.children
<1>. DEFINE S == {d \in Nat : Level(t, n)[d] \subseteq DOMAIN t.children}
<1>1. 0 \in S
  BY LevelStep
<1>2. ASSUME NEW k \in Nat, k \in S PROVE k + 1 \in S
  <2>1. Level(t, n)[k + 1] = Below(t, Level(t, n)[k])
    BY LevelStep
  <2>2. Below(t, Level(t, n)[k]) \subseteq DOMAIN t.children
    BY <1>2, GoodParts DEF Below
  <2>. QED BY <2>1, <2>2
<1>. HIDE DEF S
<1>3. \A k \in Nat : k \in S
  BY <1>1, <1>2, Induction
<1>. QED BY <1>3 DEF S

(* Going down, there is ever less below; so every walk ends. *)
LEMMA WalksEnd ==
  ASSUME NEW t, t \in AnyTree, Rooted(t), NEW below, Descends(t, below), NEW n \in DOMAIN t.children
  PROVE  Level(t, n)[Cardinality(DOMAIN t.children)] = {}
<1>. DEFINE nodes == DOMAIN t.children
            S == {d \in Nat : \A x \in Level(t, n)[d] :
                    x \in nodes /\ Cardinality(below[x]) + d <= Cardinality(below[n])}
<1>1. IsFiniteSet(nodes) /\ below \in [nodes -> SUBSET nodes] /\ Cardinality(nodes) \in Nat
  BY GoodParts DEF Descends
<1>2. \A x \in nodes : IsFiniteSet(below[x]) /\ Cardinality(below[x]) \in Nat
  BY <1>1, FS_Subset, FS_CardinalityType
<1>3. ASSUME NEW x \in nodes, NEW c \in t.children[x]
      PROVE  c \in nodes /\ Cardinality(below[c]) + 1 <= Cardinality(below[x])
  <2>1. c \in nodes /\ c \in below[x] /\ below[c] \subseteq below[x] /\ c \notin below[c]
    BY <1>3, GoodParts DEF Descends
  <2>2. Cardinality(below[c]) < Cardinality(below[x])
    BY <1>2, <2>1, FS_Subset
  <2>. QED BY <1>2, <2>1, <2>2
<1>4. 0 \in S
  <2>1. Level(t, n)[0] = {n}
    BY LevelStep
  <2>. QED BY <1>2, <2>1
<1>5. ASSUME NEW k \in Nat, k \in S PROVE k + 1 \in S
  <2>. SUFFICES ASSUME NEW c \in Level(t, n)[k + 1]
                PROVE  c \in nodes /\ Cardinality(below[c]) + (k + 1) <= Cardinality(below[n])
    OBVIOUS
  <2>1. PICK x \in Level(t, n)[k] : c \in t.children[x]
    BY LevelStep DEF Below
  <2>2. x \in nodes /\ Cardinality(below[x]) + k <= Cardinality(below[n])
    BY <1>5, <2>1
  <2>3. c \in nodes /\ Cardinality(below[c]) + 1 <= Cardinality(below[x])
    BY <1>3, <2>1, <2>2
  <2>. QED BY <1>2, <2>2, <2>3
<1>6. \A k \in Nat : k \in S
  <2>. HIDE DEF S
  <2>. QED BY <1>4, <1>5, Induction
<1>7. Cardinality(below[n]) < Cardinality(nodes)
  <2>1. below[n] \subseteq nodes /\ n \notin below[n]
    BY <1>1 DEF Descends
  <2>2. below[n] # nodes
    BY <2>1
  <2>3. Cardinality(below[n]) <= Cardinality(nodes) /\ Cardinality(below[n]) # Cardinality(nodes)
    BY <1>1, <2>1, <2>2, FS_Subset
  <2>. QED BY <1>1, <1>2, <2>3
<1>. QED
  <2>1. ASSUME NEW x \in Level(t, n)[Cardinality(nodes)] PROVE FALSE
    <3>1. x \in nodes /\ Cardinality(below[x]) + Cardinality(nodes) <= Cardinality(below[n])
      BY <1>1, <1>6
    <3>. QED BY <1>1, <1>2, <1>7, <3>1
  <2>. QED BY <2>1

(* In a tree, a node is at the level that is as deep as it is.              *)
LEMMA LevelsOfArbor ==
  ASSUME NEW t, t \in AnyTree, Rooted(t), NEW above, Arbor(t, above)
  PROVE  \A d \in Nat : Level(t, Root)[d] = {n \in DOMAIN t.children : Cardinality(above[n]) = d}
<1>. DEFINE nodes == DOMAIN t.children
            S == {d \in Nat : Level(t, Root)[d] = {n \in nodes : Cardinality(above[n]) = d}}
<1>1. IsFiniteSet(nodes) /\ above \in [nodes -> SUBSET nodes] /\ Root \in nodes
  BY GoodParts DEF Arbor
<1>2. \A x \in nodes : IsFiniteSet(above[x]) /\ Cardinality(above[x]) \in Nat
  BY <1>1, FS_Subset, FS_CardinalityType
<1>3. ASSUME NEW x \in nodes, NEW c \in t.children[x]
      PROVE  c \in nodes /\ Cardinality(above[c]) = Cardinality(above[x]) + 1
  <2>1. c \in nodes /\ above[c] = above[x] \cup {x} /\ x \notin above[x]
    BY <1>3, GoodParts DEF Arbor
  <2>. QED BY <1>2, <2>1, FS_AddElement
<1>4. ASSUME NEW c \in nodes, c # Root
      PROVE  \E p \in nodes : c \in t.children[p]
  BY <1>4 DEF Arbor, Parents
<1>5. 0 \in S
  <2>1. Level(t, Root)[0] = {Root}
    BY LevelStep
  <2>2. Cardinality(above[Root]) = 0
    BY FS_EmptySet DEF Arbor
  <2>3. ASSUME NEW c \in nodes, c # Root PROVE Cardinality(above[c]) # 0
    BY <1>2, <1>3, <1>4, <2>3
  <2>. QED BY <1>1, <2>1, <2>2, <2>3
<1>6. ASSUME NEW k \in Nat, k \in S PROVE k + 1 \in S
  <2>1. Level(t, Root)[k + 1] = Below(t, {n \in nodes : Cardinality(above[n]) = k})
    <3>1. Level(t, Root)[k] = {n \in nodes : Cardinality(above[n]) = k}
      BY <1>6
    <3>2. Level(t, Root)[k + 1] = Below(t, Level(t, Root)[k])
      BY LevelStep
    <3>. QED BY <3>1, <3>2
  <2>2. ASSUME NEW c \in Below(t, {n \in nodes : Cardinality(above[n]) = k})
        PROVE  c \in nodes /\ Cardinality(above[c]) = k + 1
    <3>1. PICK x \in nodes : Cardinality(above[x]) = k /\ c \in t.children[x]
      BY <2>2 DEF Below
    <3>. QED BY <1>3, <3>1
  <2>3. ASSUME NEW c \in nodes, Cardinality(above[c]) = k + 1
        PROVE  c \in Below(t, {n \in nodes : Cardinality(above[n]) = k})
    <3>1. c # Root
      <4>1. Cardinality(above[Root]) = 0 /\ k + 1 # 0
        BY FS_EmptySet DEF Arbor
      <4>. QED BY <2>3, <4>1
    <3>2. PICK p \in nodes : c \in t.children[p]
      BY <1>4, <3>1
    <3>3. Cardinality(above[p]) = k
      BY <1>2, <1>3, <2>3, <3>2
    <3>. QED BY <3>2, <3>3 DEF Below
  <2>. QED BY <2>1, <2>2, <2>3
<1>7. \A k \in Nat : k \in S
  <2>. HIDE DEF S
  <2>. QED BY <1>5, <1>6, Induction
<1>. QED BY <1>7

LEMMA ArborReached ==
  ASSUME NEW t, t \in AnyTree, Rooted(t), NEW above, Arbor(t, above)
  PROVE  Reached(t) = DOMAIN t.children
<1>. DEFINE nodes == DOMAIN t.children
<1>1. IsFiniteSet(nodes) /\ above \in [nodes -> SUBSET nodes]
      /\ Cardinality(nodes) \in Nat /\ Cardinality(Node) \in Nat
      /\ Cardinality(nodes) <= Cardinality(Node)
  BY GoodParts DEF Arbor
<1>2. \A d \in Nat : Level(t, Root)[d] = {n \in nodes : Cardinality(above[n]) = d}
  BY LevelsOfArbor
<1>3. ASSUME NEW n \in nodes PROVE n \in Reached(t)
  <2>1. Cardinality(above[n]) <= Cardinality(nodes) /\ Cardinality(above[n]) \in Nat
    BY <1>1, FS_Subset, FS_CardinalityType
  <2>2. Cardinality(above[n]) \in 0..Cardinality(Node)
    BY <1>1, <2>1
  <2>3. n \in Level(t, Root)[Cardinality(above[n])]
    BY <1>2, <2>1
  <2>. QED BY <2>2, <2>3 DEF Reached
<1>4. Reached(t) \subseteq nodes
  <2>1. \A d \in 0..Cardinality(Node) : d \in Nat
    BY <1>1
  <2>. QED BY <1>2, <2>1 DEF Reached
<1>. QED BY <1>3, <1>4

LEMMA GoodListed ==
  ASSUME NEW t, NEW waiting, Good(t, waiting), Sound(t)
  PROVE  t.of \subseteq Listed(t)
<1>1. PICK above : Arbor(t, above)
  BY DEF Good, Sound
<1>2. Reached(t) = DOMAIN t.children
  BY <1>1, ArborReached DEF Good
<1>. QED BY <1>2 DEF Good, Listed, Held

LEMMA GoodShaped ==
  ASSUME NEW t, NEW waiting, Good(t, waiting)
  PROVE  LET nodes == DOMAIN t.children IN
    /\ \A n \in nodes : Level(t, n)[Cardinality(nodes)] = {}
    /\ ~t.collided =>
         /\ \A c \in nodes \ {Root} : Cardinality({n \in nodes : c \in t.children[n]}) = 1
         /\ Reached(t) = nodes
         /\ \A d \in 0..Cardinality(Node) : d > MaxDepth => Level(t, Root)[d] = {}
<1>. DEFINE nodes == DOMAIN t.children
<1>1. \A n \in nodes : Level(t, n)[Cardinality(nodes)] = {}
  BY WalksEnd DEF Good
<1>2. ASSUME ~t.collided
      PROVE  /\ \A c \in nodes \ {Root} : Cardinality({n \in nodes : c \in t.children[n]}) = 1
             /\ Reached(t) = nodes
             /\ \A d \in 0..Cardinality(Node) : d > MaxDepth => Level(t, Root)[d] = {}
  <2>1. PICK above : Arbor(t, above)
    BY <1>2 DEF Good
  <2>2. ASSUME NEW c \in nodes \ {Root}
        PROVE  Cardinality({n \in nodes : c \in t.children[n]}) = 1
    <3>1. PICK p \in nodes : Parents(t, c) = {p}
      BY <2>1, <2>2 DEF Arbor
    <3>2. {n \in nodes : c \in t.children[n]} = {p}
      BY <3>1 DEF Parents
    <3>. QED BY <3>2, FS_Singleton
  <2>3. Reached(t) = nodes
    BY <2>1, ArborReached DEF Good
  <2>4. ASSUME NEW d \in 0..Cardinality(Node), d > MaxDepth
        PROVE  Level(t, Root)[d] = {}
    <3>1. t \in AnyTree /\ Rooted(t)
      BY DEF Good
    <3>2. d \in Nat
      BY <3>1, GoodParts
    <3>3. Level(t, Root)[d] = {n \in nodes : Cardinality(above[n]) = d}
      BY <2>1, <3>1, <3>2, LevelsOfArbor
    <3>4. \A n \in nodes : Cardinality(above[n]) <= MaxDepth
      BY <2>1 DEF Arbor
    <3>5. MaxDepth \in Nat
      BY TreeAssumption
    <3>. QED BY <2>4, <3>2, <3>3, <3>4, <3>5
  <2>. QED BY <2>2, <2>3, <2>4
<1>. QED BY <1>1, <1>2

---------------------------------------------------------------------------
(* The steps of a tree: it is planted, split, added to, or only marked.      *)
LEMMA PlantedGood ==
  ASSUME NEW index \in SUBSET Service
  PROVE  /\ Good(Planted(index), {}) /\ Planted(index).of = index
         /\ ~Planted(index).stretched /\ Planted(index).status = "bfs"
<1>. DEFINE t == Planted(index)
<1>1. /\ t.children = [n \in {Root} |-> {}] /\ t.services = [n \in {Root} |-> index]
      /\ t.status = "bfs" /\ t.of = index /\ t.collided = FALSE /\ t.stretched = FALSE
  BY DEF Planted, Tree
<1>2. t \in AnyTree
  <2>1. {Root} \in SUBSET Node
    BY DEF Node
  <2>2. t.children \in [{Root} -> SUBSET {Root}] /\ t.services \in [{Root} -> SUBSET Service]
    BY <1>1
  <2>3. /\ t.children \in UNION {[N -> SUBSET N] : N \in SUBSET Node}
        /\ t.services \in UNION {[N -> SUBSET Service] : N \in SUBSET Node}
    BY <2>1, <2>2
  <2>. QED BY <1>1, <2>3 DEF AnyTree, Planted, Tree
<1>3. DOMAIN t.children = {Root} /\ DOMAIN t.services = {Root}
      /\ t.children[Root] = {} /\ t.services[Root] = index
  BY <1>1
<1>4. Rooted(t)
  BY <1>3 DEF Rooted
<1>. DEFINE none == [n \in {Root} |-> {}]
<1>5. none \in [{Root} -> SUBSET {Root}] /\ none[Root] = {}
  OBVIOUS
<1>6. Descends(t, none)
  BY <1>3, <1>5 DEF Descends
<1>7. Arbor(t, none)
  <2>1. Cardinality(none[Root]) = 0 /\ 0 <= MaxDepth
    BY <1>5, FS_EmptySet, TreeAssumption
  <2>. QED BY <1>3, <1>5, <2>1 DEF Arbor
<1>8. t.of \subseteq Held(t)
  BY <1>1, <1>3 DEF Held
<1>. QED
  <2>. HIDE DEF none, t
  <2>1. Good(t, {})
    BY <1>2, <1>4, <1>6, <1>7, <1>8 DEF Good
  <2>. QED BY <1>1, <2>1 DEF t

(* What Good looks at. *)
LEMMA SameGood ==
  ASSUME NEW t, NEW u, NEW waiting, NEW fewer, fewer \subseteq waiting, Good(t, waiting),
         u \in AnyTree, u.children = t.children, DOMAIN u.services = DOMAIN t.services,
         \A n \in DOMAIN t.children : t.services[n] \subseteq u.services[n],
         u.of = t.of, u.collided = t.collided, t.stretched => u.stretched
  PROVE  Good(u, fewer)
<1>1. Rooted(u)
  BY DEF Good, Rooted
<1>2. \E below : Descends(u, below)
  BY DEF Good, Descends
<1>3. ASSUME ~u.collided
      PROVE  \E above : Arbor(u, above) /\ \A q \in fewer : Awaits(u, above, q)
  <2>1. PICK above : Arbor(t, above) /\ \A q \in waiting : Awaits(t, above, q)
    BY <1>3 DEF Good
  <2>2. Arbor(u, above)
    BY <2>1 DEF Arbor, Parents
  <2>3. \A q \in fewer : Awaits(u, above, q)
    BY <2>1 DEF Awaits
  <2>. QED BY <2>2, <2>3
<1>4. Sound(u) => u.of \subseteq Held(u)
  <2>1. Sound(u) => Sound(t)
    BY DEF Sound, Good, AnyTree
  <2>2. Held(t) \subseteq Held(u)
    BY DEF Held
  <2>. QED BY <2>1, <2>2 DEF Good
<1>. QED BY <1>1, <1>2, <1>3, <1>4 DEF Good

LEMMA ContinuedGood ==
  ASSUME NEW t, Good(t, {}), NEW index \in SUBSET Service
  PROVE  /\ Good(Continued(t, index), {}) /\ Continued(t, index).of = t.of
         /\ Continued(t, index).status = t.status
         /\ t.stretched => Continued(t, index).stretched
         /\ ~Continued(t, index).stretched => index = t.of
<1>1. t \in AnyTree
  BY DEF Good
<1>2. /\ Continued(t, index) \in AnyTree
      /\ Continued(t, index).children = t.children
      /\ Continued(t, index).services = t.services
      /\ Continued(t, index).of = t.of /\ Continued(t, index).collided = t.collided
      /\ Continued(t, index).status = t.status
      /\ Continued(t, index).stretched = (t.stretched \/ index # t.of)
  BY <1>1 DEF Continued, AnyTree
<1>3. Good(Continued(t, index), {})
  <2>. DEFINE u == Continued(t, index)
  <2>1. /\ DOMAIN u.services = DOMAIN t.services
        /\ \A n \in DOMAIN t.children : t.services[n] \subseteq u.services[n]
        /\ t.stretched => u.stretched
    BY <1>2
  <2>. HIDE DEF u
  <2>2. u \in AnyTree /\ u.children = t.children /\ u.of = t.of /\ u.collided = t.collided
    BY <1>2 DEF u
  <2>3. Good(u, {})
    BY <2>1, <2>2, SameGood
  <2>. QED BY <2>3 DEF u
<1>. QED BY <1>2, <1>3

(* The nodes that _find_pending_nodes finds, wait as the queue says.        *)
LEMMA PendingGood ==
  ASSUME NEW t, Good(t, {})
  PROVE  Good(t, Pending(t)) /\ Pending(t) \in SUBSET (Node \X (0..(MaxDepth - 1)))
<1>1. Pending(t) \in SUBSET (Node \X (0..(MaxDepth - 1)))
  BY DEF Pending
<1>2. ASSUME NEW above, Arbor(t, above), NEW q \in Pending(t)
      PROVE  Awaits(t, above, q)
  <2>1. q[2] \in 0..(MaxDepth - 1) /\ q[1] \in Level(t, Root)[q[2]] /\ t.children[q[1]] = {}
    BY <1>2 DEF Pending
  <2>2. q[2] \in Nat
    BY <2>1, TreeAssumption
  <2>3. Level(t, Root)[q[2]] = {n \in DOMAIN t.children : Cardinality(above[n]) = q[2]}
    BY <1>2, <2>2, LevelsOfArbor DEF Good
  <2>. QED BY <2>1, <2>3 DEF Awaits
<1>. QED BY <1>1, <1>2 DEF Good

---------------------------------------------------------------------------
(* A split: what Applied makes of a tree.                                  *)
SplitOf(t, u, n, subs, answer) ==
  /\ u = Applied(t, n, subs, answer)
  /\ t \in AnyTree /\ Rooted(t) /\ n \in Node /\ subs \subseteq Category
  /\ answer \in [DOMAIN answer -> SUBSET subs] /\ DOMAIN answer \subseteq Service

ChildrenSplit(t, u, n, subs) ==
  /\ DOMAIN u.children = DOMAIN t.children \cup subs
  /\ \A m \in DOMAIN u.children :
       u.children[m] = IF m \in subs THEN {} ELSE IF m = n THEN subs ELSE t.children[m]

ServicesSplit(t, u, n, subs, answer) ==
  \A m \in DOMAIN u.children :
    u.services[m] = IF m \in subs THEN {s \in DOMAIN answer : m \in answer[s]}
                    ELSE IF m = n THEN Unclassified(answer) ELSE t.services[m]

LEMMA AppliedParts ==
  ASSUME NEW t, NEW u, NEW n, NEW subs, NEW answer, SplitOf(t, u, n, subs, answer)
  PROVE  /\ u \in AnyTree /\ Rooted(u) /\ Root \notin subs
         /\ ChildrenSplit(t, u, n, subs) /\ ServicesSplit(t, u, n, subs, answer)
         /\ u.of = t.of /\ u.stretched = t.stretched /\ u.status = t.status
         /\ u.collided = (t.collided \/ subs \cap DOMAIN t.children # {})
<1>. DEFINE N == DOMAIN t.children \cup subs
            ch == [m \in N |-> IF m \in subs THEN {} ELSE IF m = n THEN subs ELSE t.children[m]]
            sv == [m \in N |-> IF m \in subs THEN {s \in DOMAIN answer : m \in answer[s]}
                               ELSE IF m = n THEN Unclassified(answer) ELSE t.services[m]]
<1>1. /\ Root \in DOMAIN t.children /\ DOMAIN t.children \subseteq Node
      /\ DOMAIN t.services = DOMAIN t.children
      /\ t.children \in [DOMAIN t.children -> SUBSET DOMAIN t.children]
      /\ t.services \in [DOMAIN t.children -> SUBSET Service]
  BY GoodParts DEF SplitOf, Rooted
<1>2. N \in SUBSET Node /\ Root \in N /\ Root \notin subs
  BY <1>1, TreeAssumption DEF SplitOf, Node
<1>3. ch \in [N -> SUBSET N]
  <2>1. ASSUME NEW m \in N
        PROVE  (IF m \in subs THEN {} ELSE IF m = n THEN subs ELSE t.children[m]) \in SUBSET N
    BY <1>1
  <2>. QED BY <2>1
<1>4. sv \in [N -> SUBSET Service]
  <2>1. Unclassified(answer) \subseteq Service
    BY DEF Unclassified, SplitOf
  <2>2. ASSUME NEW m \in N
        PROVE  (IF m \in subs THEN {s \in DOMAIN answer : m \in answer[s]}
                ELSE IF m = n THEN Unclassified(answer) ELSE t.services[m]) \in SUBSET Service
    BY <1>1, <2>1 DEF SplitOf
  <2>. QED BY <2>2
<1>5. /\ u.children = ch /\ u.services = sv /\ u.of = t.of /\ u.stretched = t.stretched
      /\ u.status = t.status /\ u.collided = (t.collided \/ subs \cap DOMAIN t.children # {})
      /\ u = [children |-> u.children, services |-> u.services, status |-> u.status, of |-> u.of,
              collided |-> u.collided, stretched |-> u.stretched]
  BY <1>1 DEF SplitOf, Applied, AnyTree
<1>6. u \in AnyTree
  <2>1. /\ ch \in UNION {[M -> SUBSET M] : M \in SUBSET Node}
        /\ sv \in UNION {[M -> SUBSET Service] : M \in SUBSET Node}
    <3>. HIDE DEF ch, sv, N
    <3>. QED BY <1>2, <1>3, <1>4
  <2>2. t.status \in {"bfs", "cross_domain", "complete"} /\ t.of \in SUBSET Service
        /\ t.collided \in BOOLEAN /\ t.stretched \in BOOLEAN
    BY DEF SplitOf, AnyTree
  <2>. HIDE DEF ch, sv, N
  <2>. QED BY <1>5, <2>1, <2>2 DEF AnyTree
<1>7. Rooted(u)
  BY <1>2, <1>5 DEF Rooted
<1>8. DOMAIN u.children = N
  BY <1>5
<1>9. \A m \in N :
        /\ u.children[m] = IF m \in subs THEN {} ELSE IF m = n THEN subs ELSE t.children[m]
        /\ u.services[m] = IF m \in subs THEN {s \in DOMAIN answer : m \in answer[s]}
                           ELSE IF m = n THEN Unclassified(answer) ELSE t.services[m]
  BY <1>5
<1>10. ChildrenSplit(t, u, n, subs) /\ ServicesSplit(t, u, n, subs, answer)
  BY <1>8, <1>9 DEF ChildrenSplit, ServicesSplit
<1>. QED BY <1>2, <1>5, <1>6, <1>7, <1>10

(* An entry that is written over has no children: no walk comes back.       *)
LEMMA SplitDescends ==
  ASSUME NEW t, NEW u, NEW n, NEW subs, NEW answer, SplitOf(t, u, n, subs, answer),
         NEW below, Descends(t, below)
  PROVE  \E lower : Descends(u, lower)
<1>. DEFINE N == DOMAIN u.children
            lower == [m \in N |-> IF m \in subs THEN {}
                                  ELSE IF m = n THEN subs
                                  ELSE below[m] \cup (IF n \in below[m] THEN subs ELSE {})]
<1>1. /\ N = DOMAIN t.children \cup subs
      /\ below \in [DOMAIN t.children -> SUBSET DOMAIN t.children]
      /\ \A m \in DOMAIN t.children : t.children[m] \subseteq DOMAIN t.children
      /\ \A m \in N : u.children[m] = IF m \in subs THEN {} ELSE IF m = n THEN subs ELSE t.children[m]
  <2>1. t \in AnyTree /\ Rooted(t)
    BY DEF SplitOf
  <2>2. /\ DOMAIN u.children = DOMAIN t.children \cup subs /\ Root \notin subs
        /\ \A m \in DOMAIN u.children :
             u.children[m] = IF m \in subs THEN {} ELSE IF m = n THEN subs ELSE t.children[m]
    BY AppliedParts DEF ChildrenSplit
  <2>3. /\ Root \in DOMAIN t.children /\ IsFiniteSet(DOMAIN t.children)
        /\ t.children \in [DOMAIN t.children -> SUBSET DOMAIN t.children]
    BY <2>1, GoodParts
  <2>4. \A m \in DOMAIN t.children : t.children[m] \subseteq DOMAIN t.children
    BY <2>3
  <2>. QED BY <2>2, <2>3, <2>4 DEF Descends
<1>2. lower \in [N -> SUBSET N]
  BY <1>1
<1>3. \A m \in N : lower[m] = IF m \in subs THEN {}
                              ELSE IF m = n THEN subs
                              ELSE below[m] \cup (IF n \in below[m] THEN subs ELSE {})
  OBVIOUS
<1>. HIDE DEF lower
<1>4. ASSUME NEW m \in N
      PROVE  m \notin lower[m] /\ \A c \in u.children[m] : c \in lower[m] /\ lower[c] \subseteq lower[m]
  <2>1. CASE m \in subs
    BY <1>1, <1>3, <2>1
  <2>2. CASE m \notin subs /\ m = n
    BY <1>1, <1>3, <2>2
  <2>3. CASE m \notin subs /\ m # n
    <3>1. m \in DOMAIN t.children /\ u.children[m] = t.children[m] /\ m \notin below[m]
          /\ lower[m] = below[m] \cup (IF n \in below[m] THEN subs ELSE {})
      BY <1>1, <1>3, <2>3 DEF Descends
    <3>2. ASSUME NEW c \in t.children[m]
          PROVE  c \in lower[m] /\ lower[c] \subseteq lower[m]
      <4>1. c \in DOMAIN t.children /\ c \in N /\ c \in below[m] /\ below[c] \subseteq below[m]
        BY <1>1, <3>1 DEF Descends
      <4>2. lower[c] = IF c \in subs THEN {} ELSE IF c = n THEN subs
                       ELSE below[c] \cup (IF n \in below[c] THEN subs ELSE {})
        BY <1>3, <4>1
      <4>. QED BY <3>1, <4>1, <4>2
    <3>. QED BY <2>3, <3>1, <3>2
  <2>. QED BY <2>1, <2>2, <2>3
<1>. QED BY <1>2, <1>4 DEF Descends

(* The subcategories of a leaf, under new ids, are one deeper than it.      *)
LEMMA SplitArbor ==
  ASSUME NEW t, NEW u, NEW n, NEW subs, NEW answer, SplitOf(t, u, n, subs, answer),
         NEW above, Arbor(t, above), subs \cap DOMAIN t.children = {},
         NEW d \in Nat, d < MaxDepth, Awaits(t, above, <<n, d>>)
  PROVE  \E higher :
           /\ Arbor(u, higher)
           /\ \A m \in subs : u.children[m] = {} /\ Cardinality(higher[m]) = d + 1
           /\ \A m \in DOMAIN t.children : higher[m] = above[m]
<1>. DEFINE N == DOMAIN u.children
            higher == [m \in N |-> IF m \in subs THEN above[n] \cup {n} ELSE above[m]]
<1>1. /\ N = DOMAIN t.children \cup subs /\ Root \in DOMAIN t.children /\ Root \notin subs
      /\ above \in [DOMAIN t.children -> SUBSET DOMAIN t.children]
      /\ IsFiniteSet(DOMAIN t.children)
      /\ \A m \in DOMAIN t.children : t.children[m] \subseteq DOMAIN t.children
      /\ \A m \in N : u.children[m] = IF m \in subs THEN {} ELSE IF m = n THEN subs ELSE t.children[m]
  <2>1. t \in AnyTree /\ Rooted(t)
    BY DEF SplitOf
  <2>2. /\ DOMAIN u.children = DOMAIN t.children \cup subs /\ Root \notin subs
        /\ \A m \in DOMAIN u.children :
             u.children[m] = IF m \in subs THEN {} ELSE IF m = n THEN subs ELSE t.children[m]
    BY AppliedParts DEF ChildrenSplit
  <2>3. /\ Root \in DOMAIN t.children /\ IsFiniteSet(DOMAIN t.children)
        /\ t.children \in [DOMAIN t.children -> SUBSET DOMAIN t.children]
    BY <2>1, GoodParts
  <2>4. \A m \in DOMAIN t.children : t.children[m] \subseteq DOMAIN t.children
    BY <2>3
  <2>. QED BY <2>2, <2>3, <2>4 DEF Arbor
<1>2. n \in DOMAIN t.children /\ t.children[n] = {} /\ Cardinality(above[n]) = d /\ n \notin subs
  BY <1>1 DEF Awaits
<1>3. higher \in [N -> SUBSET N]
  BY <1>1, <1>2
<1>4. /\ \A m \in subs : higher[m] = above[n] \cup {n}
      /\ \A m \in DOMAIN t.children : higher[m] = above[m]
  BY <1>1
<1>. HIDE DEF higher
<1>5. Cardinality(above[n] \cup {n}) = d + 1
  <2>1. IsFiniteSet(above[n]) /\ n \notin above[n]
    BY <1>1, <1>2, FS_Subset DEF Arbor
  <2>. QED BY <1>2, <2>1, FS_AddElement
<1>6. ASSUME NEW m \in N
      PROVE  /\ m \notin higher[m]
             /\ Cardinality(higher[m]) <= MaxDepth
             /\ \A c \in u.children[m] : higher[c] = higher[m] \cup {m}
  <2>1. CASE m \in subs
    <3>1. m \notin above[n] \cup {n} /\ u.children[m] = {} /\ d + 1 <= MaxDepth
      BY <1>1, <1>2, <2>1, TreeAssumption
    <3>. QED BY <1>4, <1>5, <2>1, <3>1
  <2>2. CASE m \in DOMAIN t.children
    <3>1. m \notin above[m] /\ Cardinality(above[m]) <= MaxDepth /\ m \notin subs
      BY <2>2 DEF Arbor
    <3>2. CASE m = n
      BY <1>1, <1>2, <1>4, <3>1, <3>2
    <3>3. CASE m # n
      <4>1. u.children[m] = t.children[m]
        BY <1>1, <2>2, <3>1, <3>3
      <4>2. \A c \in t.children[m] : c \in DOMAIN t.children /\ above[c] = above[m] \cup {m}
        BY <1>1, <2>2 DEF Arbor
      <4>. QED BY <1>4, <2>2, <3>1, <4>1, <4>2
    <3>. QED BY <3>2, <3>3
  <2>. QED BY <1>1, <2>1, <2>2
<1>7. ASSUME NEW c \in N, c # Root
      PROVE  \E p \in N : Parents(u, c) = {p}
  <2>1. CASE c \in subs
    <3>1. \A m \in N : c \in u.children[m] <=> m = n
      BY <1>1, <1>2, <2>1
    <3>2. Parents(u, c) = {n}
      BY <1>1, <1>2, <3>1 DEF Parents
    <3>. QED BY <1>1, <1>2, <3>2
  <2>2. CASE c \notin subs
    <3>1. PICK p \in DOMAIN t.children : Parents(t, c) = {p}
      BY <1>1, <1>7, <2>2 DEF Arbor
    <3>2. \A m \in DOMAIN t.children : c \in t.children[m] <=> m = p
      BY <3>1 DEF Parents
    <3>3. \A m \in N : c \in u.children[m] <=> m = p
      BY <1>1, <1>2, <2>2, <3>2
    <3>4. Parents(u, c) = {p}
      BY <1>1, <3>3 DEF Parents
    <3>. QED BY <1>1, <3>4
  <2>. QED BY <2>1, <2>2
<1>8. higher[Root] = {}
  BY <1>1, <1>4 DEF Arbor
<1>9. Arbor(u, higher)
  BY <1>3, <1>6, <1>7, <1>8 DEF Arbor
<1>10. \A m \in subs : u.children[m] = {} /\ Cardinality(higher[m]) = d + 1
  BY <1>1, <1>4, <1>5
<1>. QED BY <1>4, <1>9, <1>10

(* No service that the tree was begun with is lost by a split.              *)
(* The places of new subcategories in the queue. *)
Placed(subs, depth) == {<<m, depth>> : m \in subs}

(* The node that is split waits to be, and others may; its services of the   *)
(* index are answered for.                                                  *)
Splitting(t, waiting, n, d, index, answer, others) ==
  /\ Good(t, waiting) /\ <<n, d>> \in waiting /\ d \in Nat /\ d < MaxDepth
  /\ ~t.stretched => index = t.of
  /\ MaxRefine > 0 => DOMAIN answer = t.services[n] \cap index
  /\ others \subseteq waiting /\ \A q \in others : q[1] = n => q[2] # d

LEMMA SplitGood ==
  ASSUME NEW t, NEW u, NEW n, NEW d, NEW subs, NEW answer, SplitOf(t, u, n, subs, answer),
         NEW waiting, NEW index, NEW others, Splitting(t, waiting, n, d, index, answer, others)
  PROVE  Good(u, others \cup Placed(subs, d + 1))
<1>0. /\ Good(t, waiting) /\ <<n, d>> \in waiting /\ d \in Nat /\ d < MaxDepth
      /\ ~t.stretched => index = t.of
      /\ MaxRefine > 0 => DOMAIN answer = t.services[n] \cap index
      /\ others \subseteq waiting /\ \A q \in others : q[1] = n => q[2] # d
  BY DEF Splitting
<1>. DEFINE new == Placed(subs, d + 1)
<1>1. /\ u \in AnyTree /\ Rooted(u) /\ Root \notin subs
      /\ ChildrenSplit(t, u, n, subs) /\ ServicesSplit(t, u, n, subs, answer)
      /\ u.of = t.of /\ u.stretched = t.stretched
      /\ u.collided = (t.collided \/ subs \cap DOMAIN t.children # {})
  BY AppliedParts
<1>2. \E lower : Descends(u, lower)
  <2>1. PICK below : Descends(t, below)
    BY <1>0 DEF Good
  <2>. QED BY <2>1, SplitDescends
<1>3. ASSUME ~u.collided
      PROVE  \E above : Arbor(u, above) /\ \A q \in others \cup new : Awaits(u, above, q)
  <2>1. ~t.collided /\ subs \cap DOMAIN t.children = {}
    BY <1>0, <1>1, <1>3 DEF Good, AnyTree
  <2>2. PICK above : Arbor(t, above) /\ \A q \in waiting : Awaits(t, above, q)
    BY <1>0, <2>1 DEF Good
  <2>3. PICK higher :
           /\ Arbor(u, higher)
           /\ \A m \in subs : u.children[m] = {} /\ Cardinality(higher[m]) = d + 1
           /\ \A m \in DOMAIN t.children : higher[m] = above[m]
    BY <1>0, <2>1, <2>2, SplitArbor
  <2>4. ASSUME NEW q \in others PROVE Awaits(u, higher, q)
    <3>1. q[1] \in DOMAIN t.children /\ t.children[q[1]] = {} /\ Cardinality(above[q[1]]) = q[2]
      BY <1>0, <2>2 DEF Awaits
    <3>2. Cardinality(above[n]) = d
      BY <1>0, <2>2 DEF Awaits
    <3>3. q[1] # n /\ q[1] \notin subs
      BY <1>0, <2>1, <3>1, <3>2
    <3>4. q[1] \in DOMAIN u.children /\ u.children[q[1]] = {}
      BY <1>1, <3>1, <3>3 DEF ChildrenSplit
    <3>. QED BY <2>3, <3>1, <3>4 DEF Awaits
  <2>5. ASSUME NEW q \in new PROVE Awaits(u, higher, q)
    <3>1. PICK m \in subs : q = <<m, d + 1>>
      BY <2>5 DEF Placed
    <3>2. m \in DOMAIN u.children
      BY <1>1 DEF ChildrenSplit
    <3>. QED BY <2>3, <3>1, <3>2 DEF Awaits
  <2>. QED BY <2>3, <2>4, <2>5
<1>4. ASSUME Sound(u), NEW x \in u.of
      PROVE  x \in Held(u)
  <2>1. /\ Sound(t) /\ ~t.collided /\ ~t.stretched /\ MaxRefine > 0
        /\ subs \cap DOMAIN t.children = {} /\ x \in t.of
    BY <1>0, <1>1, <1>4 DEF Sound, Good, AnyTree
  <2>2. PICK m \in DOMAIN t.children : x \in t.services[m]
    BY <1>0, <2>1 DEF Good, Held
  <2>3. m \in DOMAIN u.children /\ m \notin subs
    BY <1>1, <2>1 DEF ChildrenSplit
  <2>4. CASE m # n
    <3>1. u.services[m] = t.services[m]
      BY <1>1, <2>3, <2>4 DEF ServicesSplit
    <3>. QED BY <2>2, <2>3, <3>1 DEF Held
  <2>5. CASE m = n
    <3>1. x \in DOMAIN answer /\ answer[x] \subseteq subs
      BY <1>0, <2>1, <2>2, <2>5 DEF SplitOf
    <3>2. CASE answer[x] = {}
      <4>1. u.services[m] = Unclassified(answer) /\ x \in Unclassified(answer)
        BY <1>1, <2>3, <2>5, <3>1, <3>2 DEF ServicesSplit, Unclassified
      <4>. QED BY <2>3, <4>1 DEF Held
    <3>3. CASE answer[x] # {}
      <4>1. PICK c \in subs : c \in answer[x]
        BY <3>1, <3>3
      <4>2. c \in DOMAIN u.children
        BY <1>1 DEF ChildrenSplit
      <4>3. x \in u.services[c]
        BY <1>1, <3>1, <4>1, <4>2 DEF ServicesSplit
      <4>. QED BY <4>2, <4>3 DEF Held
    <3>. QED BY <3>2, <3>3
  <2>. QED BY <2>4, <2>5
<1>. QED
  <2>. HIDE DEF new
  <2>1. Good(u, others \cup new)
    BY <1>1, <1>2, <1>3, <1>4 DEF Good
  <2>. QED BY <2>1 DEF new

LEMMA FewerGood ==
  ASSUME NEW t, NEW waiting, NEW fewer, fewer \subseteq waiting, Good(t, waiting)
  PROVE  Good(t, fewer)
BY DEF Good

---------------------------------------------------------------------------
(* The builder, action by action. *)
LEMMA NoJobFacts ==
  /\ NoJob \in AnyJob
  /\ NoJob.at = "idle" /\ NoJob.tree = Absent /\ NoJob.queue = {} /\ NoJob.node = <<Root, 0>>
  /\ NoJob.index = {} /\ NoJob.subs = {} /\ NoJob.round = 0
<1>1. 0 \in 0..(IF MaxRefine > 0 THEN MaxRefine ELSE 1) /\ <<Root, 0>> \in Node \X Nat
  BY TreeAssumption DEF Node
<1>. QED BY <1>1 DEF NoJob, AnyJob, Stage

LEMMA NoFilesTyped == NoFiles \in AnyDisk /\ NoFiles.tree = Absent /\ NoFiles.stamp = Absent
<1>1. /\ Absent \in AnyTree \cup {Absent, Torn} /\ Absent \in {Absent, Torn, Whole}
      /\ Absent \in {Absent, Torn} \cup SUBSET Service
  OBVIOUS
<1>2. NoFiles = [tree |-> Absent, names |-> Absent, stamp |-> Absent]
  BY DEF NoFiles
<1>3. NoFiles \in [tree: AnyTree \cup {Absent, Torn}, names: {Absent, Torn, Whole},
                   stamp: {Absent, Torn} \cup SUBSET Service]
  BY <1>1, <1>2
<1>4. NoFiles.tree = Absent /\ NoFiles.stamp = Absent
  BY <1>2
<1>. QED BY <1>3, <1>4 DEF AnyDisk

(* A builder that ends leaves files that hold what was saved, or are gone.  *)
LEMMA EndKeeps ==
  ASSUME BuilderInv, services' \in SUBSET Service, used' \in [builds: Nat, faults: Nat],
         job' = NoJob, disk' \in AnyDisk,
         disk.tree' \in {disk.tree, Torn, Absent}, disk.stamp' \in {disk.stamp, Torn, Absent}
  PROVE  BuilderInv'
<1>1. BuilderTyped'
  BY NoJobFacts DEF BuilderTyped
<1>2. TreesInv'
  <2>1. disk.tree' \in {Absent, Torn} \/ Good(disk.tree', {})
    BY DEF BuilderInv, TreesInv
  <2>2. disk.tree' \in {Absent, Torn} \/ Good(disk.tree, {})'
    BY <2>1
  <2>. QED BY <2>2, NoJobFacts DEF TreesInv, Building
<1>3. StampInv'
  BY NoJobFacts DEF BuilderInv, StampInv, Dated, Readable, Building
<1>. QED BY <1>1, <1>2, <1>3 DEF BuilderInv

LEMMA InitGood ==
  ASSUME TreeInit
  PROVE  BuilderInv
<1>1. BuilderTyped
  BY NoJobFacts, NoFilesTyped DEF TreeInit, BuilderTyped
<1>2. TreesInv
  BY NoJobFacts, NoFilesTyped DEF TreeInit, TreesInv, Building
<1>3. StampInv
  BY NoJobFacts, NoFilesTyped DEF TreeInit, StampInv, Readable, Building
<1>. QED BY <1>1, <1>2, <1>3 DEF BuilderInv

LEMMA CountTyped ==
  ASSUME NEW what \in {"builds", "faults"}, used \in [builds: Nat, faults: Nat], Count(what)
  PROVE  used' \in [builds: Nat, faults: Nat]
BY DEF Count

(* Steps that leave the files and the job alone. *)
LEMMA AloneKeeps ==
  ASSUME BuilderInv, UNCHANGED <<disk, job>>, services' \in SUBSET Service,
         used' \in [builds: Nat, faults: Nat]
  PROVE  BuilderInv'
<1>1. BuilderTyped'
  BY DEF BuilderInv, BuilderTyped
<1>2. TreesInv'
  BY DEF BuilderInv, TreesInv, Building, Waiting
<1>3. StampInv'
  BY DEF BuilderInv, StampInv, Building, Dated
<1>. QED BY <1>1, <1>2, <1>3 DEF BuilderInv

LEMMA SkipKeeps ==
  ASSUME BuilderInv, Skip PROVE BuilderInv'
BY AloneKeeps, CountTyped DEF Skip, Starting, BuilderInv, BuilderTyped

LEMMA ChangeServicesKeeps ==
  ASSUME BuilderInv, ChangeServices PROVE BuilderInv'
BY AloneKeeps, CountTyped DEF ChangeServices, BuilderInv, BuilderTyped

LEMMA GiveUpKeeps ==
  ASSUME BuilderInv, GiveUp PROVE BuilderInv'
BY EndKeeps DEF GiveUp, BuilderInv, BuilderTyped

LEMMA CrashKeeps ==
  ASSUME BuilderInv, Crash PROVE BuilderInv'
<1>1. disk' \in AnyDisk
  BY DEF Crash, BuilderInv, BuilderTyped, AnyDisk
<1>2. disk.tree' \in {disk.tree, Torn, Absent} /\ disk.stamp' \in {disk.stamp, Torn, Absent}
  BY DEF Crash, BuilderInv, BuilderTyped, AnyDisk
<1>. QED BY <1>1, <1>2, EndKeeps, CountTyped DEF Crash, BuilderInv, BuilderTyped

(* A build that begins: it has the tree on disk, or none.                   *)
LEMMA LoadingKeeps ==
  ASSUME BuilderInv, UNCHANGED services, used' \in [builds: Nat, faults: Nat],
         NEW t, job' = [NoJob EXCEPT !.at = "load", !.tree = t],
         \/ t = Absent /\ disk' = NoFiles
         \/ t = disk.tree /\ Readable(disk.tree) /\ disk' = disk
  PROVE  BuilderInv'
<1>1. t = Absent \/ Good(t, {})
  BY DEF BuilderInv, TreesInv, Readable
<1>2. /\ job'.at = "load" /\ job'.tree = t /\ job' \in AnyJob
  <2>1. t \in AnyTree \cup {Absent}
    BY <1>1 DEF Good
  <2>2. "load" \in Stage
    BY DEF Stage
  <2>. QED BY <2>1, <2>2, NoJobFacts DEF AnyJob
<1>3. disk' \in AnyDisk /\ (disk.tree' \in {Absent, Torn} \/ Good(disk.tree', {}))
  BY NoFilesTyped DEF BuilderInv, BuilderTyped, TreesInv
<1>4. BuilderTyped'
  BY <1>2, <1>3 DEF BuilderInv, BuilderTyped
<1>5. TreesInv'
  BY <1>1, <1>2, <1>3 DEF TreesInv, Building
<1>6. StampInv'
  <2>1. CASE t = disk.tree /\ Readable(disk.tree) /\ disk' = disk
    <3>1. t # Absent /\ Dated(t) /\ Dated(t)'
      BY <2>1 DEF Readable, Dated, BuilderInv, StampInv
    <3>. QED BY <2>1, <3>1, <1>2 DEF StampInv, Building
  <2>2. CASE t = Absent /\ disk' = NoFiles
    BY <2>2, <1>2, NoFilesTyped DEF StampInv, Building, Readable, Dated
  <2>. QED BY <2>1, <2>2
<1>. QED BY <1>4, <1>5, <1>6 DEF BuilderInv

LEMMA ResumeKeeps ==
  ASSUME BuilderInv, Resume PROVE BuilderInv'
<1>1. used' \in [builds: Nat, faults: Nat] /\ UNCHANGED services /\ Readable(disk.tree)
  BY CountTyped DEF Resume, Starting, Decision, BuilderInv, BuilderTyped
<1>2. CASE Readable(disk.names)
  BY <1>1, <1>2, LoadingKeeps DEF Resume
<1>3. CASE ~Readable(disk.names)
  BY <1>1, <1>3, EndKeeps DEF Resume, BuilderInv, BuilderTyped
<1>. QED BY <1>2, <1>3

LEMMA RebuildKeeps ==
  ASSUME BuilderInv, NEW resume, Rebuild(resume) PROVE BuilderInv'
<1>1. used' \in [builds: Nat, faults: Nat] /\ UNCHANGED services
  BY CountTyped DEF Rebuild, Starting, BuilderInv, BuilderTyped
<1>2. job' = [NoJob EXCEPT !.at = "load", !.tree = Absent]
  BY NoJobFacts DEF Rebuild, NoJob
<1>. QED BY <1>1, <1>2, LoadingKeeps DEF Rebuild

(* A step of a build at work on a tree, which leaves the files alone.       *)
LEMMA WorkKeeps ==
  ASSUME BuilderInv, UNCHANGED <<services, disk, used>>, job' \in AnyJob,
         job'.at \in Stage \ {"idle", "load", "save_names", "save_stamp"},
         Good(job'.tree, job'.queue \cup (IF job'.at = "classify" THEN {job'.node} ELSE {})),
         job'.at = "classify" => job'.node \notin job'.queue /\ job'.node[2] < MaxDepth,
         Dated(job'.tree), ~job'.tree.stretched => job'.index = job'.tree.of
  PROVE  BuilderInv'
<1>1. BuilderTyped'
  BY DEF BuilderInv, BuilderTyped
<1>2. TreesInv'
  BY DEF BuilderInv, TreesInv, Building, Waiting
<1>3. Dated(job.tree)'
  BY DEF Dated
<1>4. (Readable(disk.tree) => Dated(disk.tree))'
  BY DEF BuilderInv, StampInv, Dated
<1>5. StampInv'
  BY <1>3, <1>4 DEF StampInv, Building
<1>. QED BY <1>1, <1>2, <1>5 DEF BuilderInv

LEMMA LoadIndexKeeps ==
  ASSUME BuilderInv, LoadIndex PROVE BuilderInv'
<1>. DEFINE t == IF job.tree = Absent THEN Planted(services) ELSE Continued(job.tree, services)
<1>1. job.at = "load" /\ services \in SUBSET Service /\ job \in AnyJob
  BY DEF LoadIndex, BuilderInv, BuilderTyped
<1>2. Good(t, {}) /\ Dated(t) /\ (~t.stretched => services = t.of)
  <2>1. CASE job.tree = Absent
    BY <1>1, <2>1, PlantedGood DEF BuilderInv, StampInv, Dated
  <2>2. CASE job.tree # Absent
    <3>1. Good(job.tree, {}) /\ Dated(job.tree)
      BY <1>1, <2>2 DEF BuilderInv, TreesInv, StampInv
    <3>. QED BY <1>1, <2>2, <3>1, ContinuedGood DEF Dated
  <2>. QED BY <2>1, <2>2
<1>. DEFINE queue == IF t.status = "bfs" THEN Pending(t) ELSE {}
            at == IF t.status = "bfs" THEN "save_tree" ELSE "cross"
<1>3. Good(t, queue) /\ queue \in SUBSET (Node \X (0..(MaxDepth - 1)))
  BY <1>2, PendingGood
<1>4. t \in AnyTree
  BY <1>2 DEF Good
<1>5. job' = [job EXCEPT !.index = services, !.tree = t, !.at = at, !.queue = queue]
  BY DEF LoadIndex
<1>. HIDE DEF t
<1>6. at \in Stage \ {"idle", "load", "classify", "save_names", "save_stamp"}
  BY DEF Stage
<1>. HIDE DEF queue, at
<1>7. /\ job'.at = at /\ job'.tree = t /\ job'.queue = queue /\ job'.index = services
      /\ job' \in AnyJob
  BY <1>1, <1>3, <1>4, <1>5, <1>6 DEF AnyJob
<1>. QED BY <1>2, <1>3, <1>6, <1>7, WorkKeeps DEF LoadIndex

LEMMA WorkingFacts ==
  ASSUME BuilderInv, Building
  PROVE  /\ job \in AnyJob /\ Good(job.tree, Waiting) /\ Dated(job.tree)
         /\ ~job.tree.stretched => job.index = job.tree.of
BY DEF BuilderInv, BuilderTyped, TreesInv, StampInv

LEMMA SkipEmptyKeeps ==
  ASSUME BuilderInv, SkipEmpty PROVE BuilderInv'
<1>1. PICK q \in job.queue : job' = [job EXCEPT !.queue = @ \ {q}]
  BY DEF SkipEmpty
<1>2. Building /\ job.at = "split"
  BY DEF SkipEmpty, Building
<1>3. /\ job'.at = "split" /\ job'.tree = job.tree /\ job'.queue = job.queue \ {q}
      /\ job'.index = job.index /\ job' \in AnyJob
  BY <1>1, <1>2, WorkingFacts DEF AnyJob
<1>4. Good(job.tree, job.queue \ {q})
  BY <1>2, WorkingFacts, FewerGood DEF Waiting
<1>. QED BY <1>2, <1>3, <1>4, WorkKeeps, WorkingFacts DEF SkipEmpty, Stage

LEMMA DesignKeeps ==
  ASSUME BuilderInv, Design PROVE BuilderInv'
<1>1. PICK q \in job.queue : \E subs \in IF q[1] = Root THEN RootDesigns ELSE Designs :
        job' = [job EXCEPT !.queue = @ \ {q}, !.node = q, !.subs = subs, !.round = 1,
                           !.at = "classify"]
  BY DEF Design
<1>2. PICK subs \in SUBSET Category :
        job' = [job EXCEPT !.queue = @ \ {q}, !.node = q, !.subs = subs, !.round = 1,
                           !.at = "classify"]
  <2>1. Designs \subseteq SUBSET Category /\ RootDesigns \subseteq SUBSET Category
    BY DEF Designs, RootDesigns, Redesigned
  <2>. QED BY <1>1, <2>1
<1>3. Building /\ job.at = "split"
  BY DEF Design, Building
<1>4. q \in Node \X (0..(MaxDepth - 1)) /\ MaxDepth \in Nat /\ MaxRefine \in Nat
  BY <1>3, WorkingFacts, TreeAssumption DEF AnyJob
<1>5. q \in Node \X Nat /\ q[2] < MaxDepth
  BY <1>4
<1>6. 1 \in 0..(IF MaxRefine > 0 THEN MaxRefine ELSE 1) /\ "classify" \in Stage
  BY <1>4 DEF Stage
<1>7. /\ job'.at = "classify" /\ job'.tree = job.tree /\ job'.queue = job.queue \ {q}
      /\ job'.node = q /\ job'.index = job.index /\ job' \in AnyJob
  BY <1>2, <1>3, <1>5, <1>6, WorkingFacts DEF AnyJob
<1>8. Good(job.tree, (job.queue \ {q}) \cup {q})
  BY <1>3, WorkingFacts, FewerGood DEF Waiting
<1>. QED BY <1>3, <1>5, <1>6, <1>7, <1>8, WorkKeeps, WorkingFacts DEF Design

LEMMA SplitDoneKeeps ==
  ASSUME BuilderInv, job.at = "classify", UNCHANGED <<services, disk, used>>,
         NEW answer \in Answers, SplitDone(answer)
  PROVE  BuilderInv'
<1>. DEFINE kept == Kept(answer, job.subs)
            final == Final(answer, job.subs)
            n == job.node[1]
            d == job.node[2]
            t == Applied(job.tree, n, kept, final)
            deeper == Deeper(t, kept, d + 1)
<1>1. Building /\ job \in AnyJob /\ Good(job.tree, Waiting)
  BY WorkingFacts DEF Building
<1>2. /\ n \in Node /\ d \in Nat /\ job.node = <<n, d>> /\ d < MaxDepth /\ <<n, d>> \notin job.queue
      /\ job.subs \subseteq Category /\ job.index \subseteq Service /\ MaxDepth \in Nat
  BY <1>1, TreeAssumption DEF AnyJob, BuilderInv, TreesInv
<1>3. /\ DOMAIN answer = (IF MaxRefine = 0 THEN {} ELSE job.tree.services[n] \cap job.index)
      /\ \A s \in DOMAIN answer : answer[s] \subseteq job.subs
  BY DEF Answers, ToSplit, Classified
<1>4. /\ DOMAIN final = DOMAIN answer /\ final \in [DOMAIN final -> SUBSET kept]
      /\ kept \subseteq Category
  BY <1>2, <1>3 DEF Final, Kept
<1>5. SplitOf(job.tree, t, n, kept, final)
  <2>1. DOMAIN final \subseteq Service
    BY <1>2, <1>3, <1>4
  <2>. QED BY <1>1, <1>2, <1>4, <2>1 DEF SplitOf, Good
<1>6. Good(t, job.queue \cup Placed(kept, d + 1))
  <2>1. job.queue \subseteq Waiting /\ <<n, d>> \in Waiting
    BY <1>2 DEF Waiting
  <2>2. ~job.tree.stretched => job.index = job.tree.of
    BY <1>1, WorkingFacts
  <2>3. MaxRefine > 0 => DOMAIN final = job.tree.services[n] \cap job.index
    BY <1>3, <1>4
  <2>4. \A q \in job.queue : q[1] = n => q[2] # d
    <3>1. ASSUME NEW q \in job.queue, q[1] = n, q[2] = d PROVE FALSE
      <4>1. q \in Node \X (0..(MaxDepth - 1))
        BY <1>1 DEF AnyJob
      <4>2. q = <<n, d>>
        BY <3>1, <4>1
      <4>. QED BY <1>2, <4>2
    <3>. QED BY <3>1
  <2>5. Splitting(job.tree, Waiting, n, d, job.index, final, job.queue)
    BY <1>1, <1>2, <2>1, <2>2, <2>3, <2>4 DEF Splitting
  <2>. HIDE DEF kept, final, t, n, d, deeper
  <2>. QED BY <1>5, <2>5, SplitGood
<1>7. deeper \subseteq Placed(kept, d + 1)
      /\ deeper \subseteq Node \X (0..(MaxDepth - 1))
  <2>1. ASSUME NEW q \in deeper
        PROVE  q \in Placed(kept, d + 1) /\ q \in Node \X (0..(MaxDepth - 1))
    <3>1. PICK m \in kept : d + 1 < MaxDepth /\ q = <<m, d + 1>>
      BY <2>1 DEF Deeper
    <3>2. m \in Node /\ d + 1 \in 0..(MaxDepth - 1)
      BY <1>2, <1>4, <3>1 DEF Node
    <3>. QED BY <3>1, <3>2 DEF Placed
  <2>. QED BY <2>1
<1>8. Good(t, job.queue \cup deeper)
  <2>. HIDE DEF kept, t, d, deeper
  <2>1. job.queue \cup deeper \subseteq job.queue \cup Placed(kept, d + 1)
    BY <1>7
  <2>. QED BY <1>6, <2>1, FewerGood
<1>9. t.of = job.tree.of /\ t.stretched = job.tree.stretched /\ t \in AnyTree
  BY <1>5, AppliedParts
<1>10. job' = [job EXCEPT !.tree = t, !.at = "save_tree",
                          !.node = NoJob.node, !.subs = {}, !.round = 0,
                          !.queue = @ \cup deeper]
  BY DEF SplitDone
<1>11. /\ job'.at = "save_tree" /\ job'.tree = t /\ job'.queue = job.queue \cup deeper
       /\ job'.index = job.index /\ job' \in AnyJob
  <2>. HIDE DEF t, deeper
  <2>1. /\ NoJob.node \in Node \X Nat /\ "save_tree" \in Stage
        /\ 0 \in 0..(IF MaxRefine > 0 THEN MaxRefine ELSE 1)
        /\ job.queue \cup deeper \in SUBSET (Node \X (0..(MaxDepth - 1)))
    BY <1>1, <1>7, NoJobFacts DEF AnyJob, Stage
  <2>. QED BY <1>1, <1>9, <1>10, <2>1 DEF AnyJob
<1>. HIDE DEF t, deeper
<1>12. Dated(t) /\ (~t.stretched => job.index = t.of)
  BY <1>1, <1>9, WorkingFacts DEF Dated
<1>. QED BY <1>8, <1>11, <1>12, WorkKeeps DEF Stage

LEMMA RefinedKeeps ==
  ASSUME BuilderInv, job.at = "classify", UNCHANGED <<services, disk, used>>,
         job.round < MaxRefine, NEW subs \in Refined(job.subs),
         job' = [job EXCEPT !.subs = subs, !.round = @ + 1]
  PROVE  BuilderInv'
<1>1. Building /\ job \in AnyJob /\ Good(job.tree, Waiting)
  BY WorkingFacts DEF Building
<1>2. subs \in SUBSET Category
  BY <1>1 DEF AnyJob, Refined, Designs
<1>3. job.round + 1 \in 0..(IF MaxRefine > 0 THEN MaxRefine ELSE 1)
  BY <1>1, TreeAssumption DEF AnyJob
<1>4. /\ job'.at = "classify" /\ job'.tree = job.tree /\ job'.queue = job.queue
      /\ job'.node = job.node /\ job'.index = job.index /\ job' \in AnyJob
  BY <1>1, <1>2, <1>3 DEF AnyJob
<1>5. job.node \notin job.queue /\ job.node[2] < MaxDepth
  BY DEF BuilderInv, TreesInv
<1>. QED BY <1>1, <1>4, <1>5, WorkKeeps, WorkingFacts DEF Stage, Waiting

LEMMA ClassifyKeeps ==
  ASSUME BuilderInv, Classify PROVE BuilderInv'
<1>1. job.at = "classify" /\ UNCHANGED <<services, disk, used>>
  BY DEF Classify
<1>2. job.round \in Nat /\ MaxRefine \in Nat
  BY TreeAssumption DEF BuilderInv, BuilderTyped, AnyJob
<1>3. PICK answer \in Answers :
        IF job.round >= MaxRefine \/ Settled(answer, job.subs)
        THEN SplitDone(answer)
        ELSE \E subs \in Refined(job.subs) : job' = [job EXCEPT !.subs = subs, !.round = @ + 1]
  BY DEF Classify
<1>4. CASE SplitDone(answer)
  BY <1>1, <1>4, SplitDoneKeeps
<1>5. CASE ~(job.round >= MaxRefine \/ Settled(answer, job.subs))
  <2>1. job.round < MaxRefine
    BY <1>2, <1>5
  <2>. QED BY <1>1, <1>3, <1>5, <2>1, RefinedKeeps
<1>. QED BY <1>3, <1>4, <1>5

LEMMA FinishBfsKeeps ==
  ASSUME BuilderInv, FinishBfs PROVE BuilderInv'
<1>1. Building /\ job.at = "split" /\ job \in AnyJob /\ Good(job.tree, Waiting)
  BY WorkingFacts DEF FinishBfs, Building
<1>. DEFINE t == [job.tree EXCEPT !.status = "cross_domain"]
<1>2. job.tree \in AnyTree
  BY <1>1 DEF Good
<1>3. /\ t \in AnyTree /\ t.children = job.tree.children /\ t.services = job.tree.services
      /\ t.of = job.tree.of /\ t.collided = job.tree.collided /\ t.stretched = job.tree.stretched
  BY <1>2 DEF AnyTree
<1>4. job' = [job EXCEPT !.tree = t, !.at = "save_tree"]
  BY <1>1, <1>2 DEF FinishBfs, AnyJob, AnyTree
<1>. HIDE DEF t
<1>5. /\ job'.at = "save_tree" /\ job'.tree = t /\ job'.queue = job.queue
      /\ job'.index = job.index /\ job' \in AnyJob
  BY <1>1, <1>3, <1>4 DEF AnyJob, Stage
<1>6. Good(t, job.queue)
  <2>1. job.queue \subseteq Waiting /\ Rooted(job.tree)
    BY <1>1 DEF Waiting, Good
  <2>2. \A n \in DOMAIN job.tree.children : job.tree.services[n] \subseteq t.services[n]
    BY <1>3
  <2>. QED BY <1>1, <1>3, <2>1, <2>2, SameGood
<1>7. Dated(t) /\ (~t.stretched => job.index = t.of)
  BY <1>1, <1>3, WorkingFacts DEF Dated
<1>. QED BY <1>5, <1>6, <1>7, WorkKeeps DEF FinishBfs, Stage

LEMMA CrossDomainKeeps ==
  ASSUME BuilderInv, CrossDomain PROVE BuilderInv'
<1>1. Building /\ job.at = "cross" /\ job \in AnyJob /\ Good(job.tree, Waiting)
  BY WorkingFacts DEF CrossDomain, Building
<1>2. PICK added \in Additions(job.tree) :
       job' = [job EXCEPT
         !.tree.status = "complete", !.at = "save_tree",
         !.tree.services = [n \in DOMAIN @ |-> @[n] \cup {s \in job.index : <<s, n>> \in added}]]
  BY DEF CrossDomain
<1>3. job.tree \in AnyTree /\ Rooted(job.tree) /\ job.index \subseteq Service
  BY <1>1 DEF Good, AnyJob
<1>. DEFINE N == DOMAIN job.tree.services
            held == [n \in N |->
                       job.tree.services[n] \cup {s \in job.index : <<s, n>> \in added}]
            t == [job.tree EXCEPT !.status = "complete", !.services = held]
<1>4. held \in UNION {[M -> SUBSET Service] : M \in SUBSET Node}
  <2>1. N \in SUBSET Node /\ job.tree.services \in [N -> SUBSET Service]
    BY <1>3, GoodParts DEF Rooted
  <2>2. held \in [N -> SUBSET Service]
    BY <1>3, <2>1
  <2>. HIDE DEF held, N
  <2>. QED BY <2>1, <2>2
<1>5. job' = [job EXCEPT !.tree = t, !.at = "save_tree"]
  BY <1>1, <1>2, <1>3 DEF AnyJob, AnyTree
<1>6. DOMAIN held = N /\ \A n \in N : job.tree.services[n] \subseteq held[n]
  OBVIOUS
<1>. HIDE DEF held
<1>7. /\ t \in AnyTree /\ t.children = job.tree.children /\ t.services = held
      /\ t.of = job.tree.of /\ t.collided = job.tree.collided /\ t.stretched = job.tree.stretched
  BY <1>3, <1>4 DEF AnyTree
<1>. HIDE DEF t
<1>8. /\ job'.at = "save_tree" /\ job'.tree = t /\ job'.queue = job.queue
      /\ job'.index = job.index /\ job' \in AnyJob
  BY <1>1, <1>5, <1>7 DEF AnyJob, Stage
<1>9. Good(t, job.queue)
  <2>1. job.queue \subseteq Waiting
    BY DEF Waiting
  <2>2. \A n \in DOMAIN job.tree.children : job.tree.services[n] \subseteq t.services[n]
    BY <1>3, <1>6, <1>7 DEF Rooted
  <2>3. DOMAIN t.services = DOMAIN job.tree.services
    BY <1>6, <1>7
  <2>. QED BY <1>1, <1>7, <2>1, <2>2, <2>3, SameGood
<1>10. Dated(t) /\ (~t.stretched => job.index = t.of)
  BY <1>1, <1>7, WorkingFacts DEF Dated
<1>. QED BY <1>8, <1>9, <1>10, WorkKeeps DEF CrossDomain, Stage

(* A step of the same build that writes a file. *)
LEMMA SaveKeeps ==
  ASSUME BuilderInv, Building, job.at # "classify", UNCHANGED <<services, used>>, disk' \in AnyDisk,
         NEW at \in Stage \ {"idle", "load", "classify"}, job' = [job EXCEPT !.at = at],
         disk'.tree = disk.tree \/ disk'.tree = job.tree,
         disk'.stamp = disk.stamp \/ (disk'.stamp = job.index /\ disk'.tree = job.tree),
         at \in {"save_names", "save_stamp"} => disk'.tree = job.tree
  PROVE  BuilderInv'
<1>1. /\ job \in AnyJob /\ Good(job.tree, Waiting) /\ Dated(job.tree)
      /\ ~job.tree.stretched => job.index = job.tree.of
  BY WorkingFacts
<1>2. /\ job'.at = at /\ job'.tree = job.tree /\ job'.queue = job.queue
      /\ job'.index = job.index /\ job' \in AnyJob
  BY <1>1 DEF AnyJob
<1>3. Good(job.tree, {}) /\ Good(job.tree, job.queue) /\ Waiting' = job.queue
  <2>1. {} \subseteq Waiting /\ job.queue \subseteq Waiting
    BY DEF Waiting
  <2>2. Waiting' = job.queue
    BY <1>2 DEF Waiting
  <2>. QED BY <1>1, <2>1, <2>2, FewerGood
<1>4. BuilderTyped'
  BY <1>2 DEF BuilderInv, BuilderTyped
<1>5. TreesInv'
  <2>1. disk'.tree \in {Absent, Torn} \/ Good(disk'.tree, {})
    BY <1>3 DEF BuilderInv, TreesInv
  <2>2. Good(job'.tree, Waiting')
    BY <1>2, <1>3
  <2>. QED BY <1>2, <2>1, <2>2 DEF TreesInv, Building
<1>6. StampInv'
  <2>1. ~job.tree.stretched /\ disk'.stamp \notin {Absent, Torn} => disk'.stamp = job.tree.of
    BY <1>1 DEF Dated, Readable
  <2>2. Dated(job.tree)'
    BY <1>2, <2>1 DEF Dated, Readable
  <2>3. (Readable(disk.tree) => Dated(disk.tree))'
    BY <2>1 DEF BuilderInv, StampInv, Dated, Readable
  <2>. QED BY <1>1, <1>2, <2>2, <2>3 DEF StampInv, Building
<1>. QED BY <1>4, <1>5, <1>6 DEF BuilderInv

LEMMA SaveTreeKeeps ==
  ASSUME BuilderInv, SaveTree PROVE BuilderInv'
<1>1. Building /\ job.at = "save_tree" /\ job.tree \in AnyTree /\ disk \in AnyDisk
  BY WorkingFacts DEF SaveTree, Building, Good, BuilderInv, BuilderTyped
<1>2. disk' \in AnyDisk /\ disk'.tree = job.tree /\ disk'.stamp = disk.stamp
  BY <1>1 DEF SaveTree, AnyDisk
<1>. QED BY <1>1, <1>2, SaveKeeps DEF SaveTree, Stage

LEMMA SaveNamesKeeps ==
  ASSUME BuilderInv, SaveNames PROVE BuilderInv'
<1>1. Building /\ job.at = "save_names" /\ disk \in AnyDisk /\ disk.tree = job.tree
  BY DEF SaveNames, Building, BuilderInv, BuilderTyped, StampInv
<1>2. disk' \in AnyDisk /\ disk'.tree = disk.tree /\ disk'.stamp = disk.stamp
  BY <1>1 DEF SaveNames, AnyDisk
<1>. QED BY <1>1, <1>2, SaveKeeps DEF SaveNames, Stage

LEMMA SaveStampKeeps ==
  ASSUME BuilderInv, SaveStamp PROVE BuilderInv'
<1>1. Building /\ job.at = "save_stamp" /\ disk \in AnyDisk /\ disk.tree = job.tree
      /\ job.index \in SUBSET Service
  BY WorkingFacts DEF SaveStamp, Building, BuilderInv, BuilderTyped, StampInv, AnyJob
<1>2. disk' \in AnyDisk /\ disk'.tree = job.tree /\ disk'.stamp = job.index
  BY <1>1 DEF SaveStamp, Stamped, AnyDisk
<1>3. CASE job.tree.status = "complete"
  <2>1. ~job.tree.stretched => job.index = job.tree.of
    BY <1>1, WorkingFacts
  <2>2. Good(job.tree, {})
    BY <1>1, WorkingFacts, FewerGood
  <2>3. job' = NoJob
    BY <1>3 DEF SaveStamp
  <2>4. BuilderTyped'
    BY <1>2, <2>3, NoJobFacts DEF BuilderInv, BuilderTyped, SaveStamp
  <2>5. TreesInv'
    BY <1>2, <2>2, <2>3, NoJobFacts DEF TreesInv, Building
  <2>6. StampInv'
    BY <1>2, <2>1, <2>3, NoJobFacts DEF StampInv, Building, Dated
  <2>. QED BY <2>4, <2>5, <2>6 DEF BuilderInv
<1>4. CASE job.tree.status # "complete"
  <2>. DEFINE at == IF job.tree.status = "bfs" THEN "split" ELSE "cross"
  <2>1. at \in Stage \ {"idle", "load", "classify"} /\ at \notin {"save_names", "save_stamp"}
    BY DEF Stage
  <2>2. job' = [job EXCEPT !.at = at]
    BY <1>4 DEF SaveStamp
  <2>. HIDE DEF at
  <2>. QED BY <1>1, <1>2, <2>1, <2>2, SaveKeeps DEF SaveStamp
<1>. QED BY <1>3, <1>4

LEMMA BuildKeeps ==
  ASSUME BuilderInv, BuildStep \/ Crash PROVE BuilderInv'
<1>1. CASE Skip
  BY <1>1, SkipKeeps
<1>2. CASE Resume
  BY <1>2, ResumeKeeps
<1>3. CASE \E resume \in {"no", "keyword", "yes"} : Rebuild(resume)
  BY <1>3, RebuildKeeps
<1>4. CASE LoadIndex
  BY <1>4, LoadIndexKeeps
<1>5. CASE SkipEmpty
  BY <1>5, SkipEmptyKeeps
<1>6. CASE Design
  BY <1>6, DesignKeeps
<1>7. CASE Classify
  BY <1>7, ClassifyKeeps
<1>8. CASE FinishBfs
  BY <1>8, FinishBfsKeeps
<1>9. CASE CrossDomain
  BY <1>9, CrossDomainKeeps
<1>10. CASE SaveTree \/ SaveNames \/ SaveStamp
  BY <1>10, SaveTreeKeeps, SaveNamesKeeps, SaveStampKeeps
<1>11. CASE GiveUp
  BY <1>11, GiveUpKeeps
<1>12. CASE ChangeServices
  BY <1>12, ChangeServicesKeeps
<1>13. CASE Crash
  BY <1>13, CrashKeeps
<1>. QED BY <1>1, <1>2, <1>3, <1>4, <1>5, <1>6, <1>7, <1>8, <1>9, <1>10, <1>11, <1>12, <1>13
        DEF BuildStep
---------------------------------------------------------------------------
(* What the invariant says of the trees. *)
LEMMA TreesGood ==
  ASSUME BuilderInv, NEW t \in Trees
  PROVE  \E waiting : Good(t, waiting)
BY DEF BuilderInv, TreesInv, Trees, Readable, Building, NoJob

LEMMA BuilderWellShaped ==
  ASSUME BuilderInv PROVE WellShaped
BY TreesGood, GoodShaped DEF WellShaped

LEMMA BuilderNothingLost ==
  ASSUME BuilderInv PROVE NothingLost
BY TreesGood, GoodListed DEF NothingLost

LEMMA BuilderAvailable ==
  ASSUME BuilderInv PROVE AvailableListsAll
<1>. SUFFICES ASSUME disk.stamp = services, Readable(disk.tree), Sound(disk.tree)
              PROVE  services \subseteq Listed(disk.tree)
  BY DEF AvailableListsAll
<1>1. Readable(disk.stamp)
  BY TreeAssumption DEF BuilderInv, BuilderTyped, Readable
<1>2. services = disk.tree.of
  BY <1>1 DEF BuilderInv, StampInv, Dated, Sound
<1>3. Good(disk.tree, {})
  BY DEF BuilderInv, TreesInv, Readable
<1>. QED BY <1>2, <1>3, GoodListed
---------------------------------------------------------------------------
(* The searches. *)
Mode == {"get_all", "get_one", "get_important"}

AnyEngine == [tree: AnyTree, mode: Mode]

AnySearch ==
  [at: {"idle", "navigate", "merge", "select", "judge", "fall back", "answer"},
   engine: Nat, groups: SUBSET SUBSET Service, found: SUBSET Service,
   saved: Seq(Mode), full: BOOLEAN]

(* A model that wants everything has before it all that the tree lists.     *)
Thorough(x, t) ==
  /\ x.saved # <<>> => ~x.full
  /\ x.full /\ x.at \in {"merge", "select"} => Listed(t) \subseteq UNION x.groups
  /\ x.full /\ x.at \in {"judge", "fall back", "answer"} => Listed(t) \subseteq x.found

EnginesInv ==
  /\ engines \in Seq(AnyEngine)
  /\ \A i \in 1..Len(engines) : Good(engines[i].tree, {})
  /\ cached \in [AskedMode -> 0..Len(engines)]

SearchingAt(x) ==
  /\ x.engine \in 0..Len(engines)
  /\ x.at # "idle" => x.engine # 0 /\ Thorough(x, engines[x.engine].tree)

SearchInv ==
  /\ EnginesInv
  /\ search \in [Searcher -> AnySearch]
  /\ \A s \in Searcher : SearchingAt(search[s])

IInv == BuilderInv /\ SearchInv

LEMMA NoSearchFacts ==
  /\ NoSearch \in AnySearch
  /\ NoSearch.at = "idle" /\ NoSearch.engine = 0 /\ NoSearch.saved = <<>> /\ NoSearch.full = TRUE
  /\ NoSearch.groups = {} /\ NoSearch.found = {}
<1>1. <<>> \in Seq(Mode)
  OBVIOUS
<1>. QED BY <1>1 DEF NoSearch, AnySearch

LEMMA NoneSearching ==
  ASSUME engines = <<>>, cached = [m \in AskedMode |-> 0], search = [s \in Searcher |-> NoSearch]
  PROVE  SearchInv
<1>1. engines \in Seq(AnyEngine) /\ Len(engines) = 0
  OBVIOUS
<1>2. EnginesInv
  BY <1>1 DEF EnginesInv
<1>. QED BY <1>1, <1>2, NoSearchFacts DEF SearchInv, SearchingAt

(* One searcher moves on, and the trees of the engines stay.                *)
LEMMA SearcherKeeps ==
  ASSUME SearchInv, EnginesInv', Len(engines) <= Len(engines'),
         \A i \in 1..Len(engines) : engines'[i].tree = engines[i].tree,
         NEW s \in Searcher, NEW x \in AnySearch, search' = [search EXCEPT ![s] = x],
         SearchingAt(x)'
  PROVE  SearchInv'
<1>1. search' \in [Searcher -> AnySearch]
  BY DEF SearchInv
<1>2. ASSUME NEW r \in Searcher, r # s PROVE SearchingAt(search[r])'
  <2>1. search'[r] = search[r] /\ SearchingAt(search[r]) /\ search[r] \in AnySearch
    BY <1>2 DEF SearchInv
  <2>2. Len(engines) \in Nat /\ Len(engines') \in Nat
    BY DEF SearchInv, EnginesInv
  <2>3. search[r].engine \in 0..Len(engines')
    BY <2>1, <2>2 DEF SearchingAt
  <2>4. ASSUME search[r].at # "idle"
        PROVE  search[r].engine # 0 /\ Thorough(search[r], engines'[search[r].engine].tree)
    BY <2>1, <2>2, <2>4 DEF SearchingAt
  <2>. QED BY <2>1, <2>3, <2>4 DEF SearchingAt
<1>3. SearchingAt(search[s])'
  BY DEF SearchInv
<1>. QED BY <1>1, <1>2, <1>3 DEF SearchInv

(* The same, of engines that stay as they are.                             *)
LEMMA MovesOn ==
  ASSUME SearchInv, UNCHANGED <<engines, cached>>,
         NEW s \in Searcher, NEW x \in AnySearch, search' = [search EXCEPT ![s] = x],
         x.engine = search[s].engine, search[s].at # "idle",
         Thorough(x, engines[x.engine].tree)
  PROVE  SearchInv'
<1>1. EnginesInv' /\ Len(engines) <= Len(engines')
  BY DEF SearchInv, EnginesInv
<1>2. SearchingAt(x)'
  BY DEF SearchInv, SearchingAt
<1>. QED BY <1>1, <1>2, SearcherKeeps

LEMMA SearcherFacts ==
  ASSUME SearchInv, NEW s \in Searcher, search[s].at # "idle"
  PROVE  /\ search[s] \in AnySearch /\ search[s].engine \in 1..Len(engines)
         /\ engines \in Seq(AnyEngine)
         /\ Of(s) \in AnyEngine /\ Good(Of(s).tree, {})
         /\ Thorough(search[s], engines[search[s].engine].tree)
<1>1. /\ search[s] \in AnySearch /\ engines \in Seq(AnyEngine) /\ Len(engines) \in Nat
      /\ search[s].engine \in 0..Len(engines) /\ search[s].engine # 0
      /\ Thorough(search[s], engines[search[s].engine].tree)
  BY DEF SearchInv, EnginesInv, SearchingAt
<1>2. search[s].engine \in 1..Len(engines)
  BY <1>1
<1>. QED BY <1>1, <1>2 DEF SearchInv, EnginesInv, Of

(* Another mode for the engine of a searcher that moves on.                 *)
LEMMA SwitchesMode ==
  ASSUME SearchInv, UNCHANGED cached,
         NEW s \in Searcher, NEW x \in AnySearch, search' = [search EXCEPT ![s] = x],
         x.engine = search[s].engine, search[s].at # "idle",
         Thorough(x, engines[x.engine].tree),
         NEW mode \in Mode, engines' = [engines EXCEPT ![search[s].engine].mode = mode]
  PROVE  SearchInv'
<1>1. /\ engines \in Seq(AnyEngine) /\ search[s].engine \in 1..Len(engines) /\ Len(engines) \in Nat
  BY SearcherFacts
<1>2. \A i \in 1..Len(engines) : engines[i] \in AnyEngine
  BY <1>1
<1>3. /\ DOMAIN engines' = 1..Len(engines)
      /\ \A i \in 1..Len(engines) :
           engines'[i] \in AnyEngine /\ engines'[i].tree = engines[i].tree
  BY <1>1, <1>2 DEF AnyEngine
<1>4. engines' \in Seq(AnyEngine) /\ Len(engines') = Len(engines)
  <2>1. engines' \in [1..Len(engines) -> AnyEngine]
    BY <1>1, <1>3
  <2>. QED BY <1>1, <2>1
<1>5. EnginesInv'
  BY <1>3, <1>4 DEF SearchInv, EnginesInv
<1>6. SearchingAt(x)'
  BY <1>1, <1>3, <1>4 DEF SearchingAt
<1>7. Len(engines) <= Len(engines')
  BY <1>1, <1>4
<1>8. \A i \in 1..Len(engines) : engines'[i].tree = engines[i].tree
  BY <1>3
<1>. QED BY <1>5, <1>6, <1>7, <1>8, SearcherKeeps

LEMMA OpenKeeps ==
  ASSUME IInv, NEW s \in Searcher, NEW m \in AskedMode, Open(s, m)
  PROVE  IInv'
<1>1. engines \in Seq(AnyEngine) /\ Len(engines) \in Nat
      /\ cached \in [AskedMode -> 0..Len(engines)]
  BY DEF IInv, SearchInv, EnginesInv
<1>2. /\ EnginesInv' /\ Len(engines) <= Len(engines')
      /\ \A i \in 1..Len(engines) : engines'[i].tree = engines[i].tree
      /\ cached'[m] \in 1..Len(engines')
  <2>1. CASE cached[m] # 0 /\ UNCHANGED <<engines, cached>>
    <3>1. EnginesInv'
      BY <2>1 DEF IInv, SearchInv, EnginesInv
    <3>. QED BY <1>1, <2>1, <3>1
  <2>2. CASE /\ cached[m] = 0 /\ Readable(disk.tree)
             /\ engines' = Append(engines, Engine(disk.tree, m))
             /\ cached' = [cached EXCEPT ![m] = Len(engines) + 1]
    <3>1. Good(disk.tree, {}) /\ disk.tree \in AnyTree
      BY <2>2 DEF IInv, BuilderInv, TreesInv, Readable, Good
    <3>2. Engine(disk.tree, m) \in AnyEngine /\ Engine(disk.tree, m).tree = disk.tree
      BY <3>1, SearchAssumption DEF Engine, AnyEngine, Mode
    <3>3. /\ engines' \in Seq(AnyEngine) /\ Len(engines') = Len(engines) + 1
          /\ \A i \in 1..Len(engines) : engines'[i] = engines[i]
          /\ engines'[Len(engines) + 1] = Engine(disk.tree, m)
      BY <1>1, <2>2, <3>2
    <3>4. \A i \in 1..Len(engines') : Good(engines'[i].tree, {})
      <4>. TAKE i \in 1..Len(engines')
      <4>1. i \in 1..Len(engines) \/ i = Len(engines) + 1
        BY <1>1, <3>3
      <4>. QED BY <3>1, <3>2, <3>3, <4>1 DEF IInv, SearchInv, EnginesInv
    <3>5. cached' \in [AskedMode -> 0..Len(engines')] /\ cached'[m] = Len(engines) + 1
      BY <1>1, <2>2, <3>3
    <3>6. EnginesInv'
      BY <3>3, <3>4, <3>5 DEF EnginesInv
    <3>. QED BY <1>1, <3>3, <3>5, <3>6
  <2>. QED BY <2>1, <2>2 DEF Open
<1>3. PICK e : e = cached'[m]
  OBVIOUS
<1>4. PICK x : x = [NoSearch EXCEPT !.at = "navigate", !.engine = e]
  OBVIOUS
<1>5. SearchInv'
  <2>1. Len(engines') \in Nat
    BY <1>2 DEF EnginesInv
  <2>2. e \in 1..Len(engines') /\ e \in Nat
    BY <1>2, <1>3, <2>1
  <2>3. x \in AnySearch /\ x.engine = e /\ x.at = "navigate" /\ x.saved = <<>>
    BY <1>4, <2>2, NoSearchFacts DEF AnySearch
  <2>4. search' = [search EXCEPT ![s] = x]
    BY <1>3, <1>4 DEF Open
  <2>5. x.engine \in 0..Len(engines') /\ x.engine # 0
    BY <2>1, <2>2, <2>3
  <2>6. Thorough(x, engines'[x.engine].tree)
    BY <2>3 DEF Thorough
  <2>7. SearchingAt(x)'
    BY <2>5, <2>6 DEF SearchingAt
  <2>8. EnginesInv' /\ Len(engines) <= Len(engines')
    BY <1>2
  <2>9. \A i \in 1..Len(engines) : engines'[i].tree = engines[i].tree
    BY <1>2
  <2>. QED BY <2>3, <2>4, <2>7, <2>8, <2>9, SearcherKeeps DEF IInv
<1>6. BuilderInv'
  BY AloneKeeps DEF IInv, Open, treeVars, BuilderInv, BuilderTyped
<1>. QED BY <1>5, <1>6 DEF IInv

(* The groups of a search are of services, and hold all those of the nodes. *)
LEMMA GroupingsHold ==
  ASSUME NEW t, t \in AnyTree, Rooted(t), NEW walk \in SUBSET DOMAIN t.children,
         NEW groups \in Groupings(t, Terminals(t, walk))
  PROVE  /\ groups \in SUBSET SUBSET Service
         /\ walk = Reached(t) => Listed(t) \subseteq UNION groups
<1>. DEFINE nodes == Terminals(t, walk)
            held == UNION {t.services[n] : n \in nodes}
<1>1. nodes \subseteq DOMAIN t.children /\ held \subseteq Service
  <2>1. t.services \in [DOMAIN t.children -> SUBSET Service]
    BY GoodParts
  <2>. QED BY <2>1 DEF Terminals
<1>2. PICK first \in [held -> nodes] :
        groups = {{x \in DOMAIN first : first[x] = n} : n \in nodes} \ {{}}
  BY DEF Groupings
<1>3. groups \in SUBSET SUBSET Service
  BY <1>1, <1>2
<1>4. ASSUME walk = Reached(t), NEW x \in Listed(t)
      PROVE  x \in UNION groups
  <2>1. x \in held
    <3>1. PICK n \in Reached(t) : x \in t.services[n]
      BY DEF Listed
    <3>. QED BY <1>4, <3>1 DEF Terminals
  <2>. HIDE DEF held
  <2>. DEFINE g == {y \in DOMAIN first : first[y] = first[x]}
  <2>2. x \in g /\ first[x] \in nodes
    BY <1>2, <2>1
  <2>3. g \in groups
    BY <1>2, <2>2
  <2>. QED BY <2>2, <2>3
<1>. QED BY <1>3, <1>4

LEMMA SearchTreeKeeps ==
  ASSUME BuilderInv, UNCHANGED treeVars
  PROVE  BuilderInv'
BY AloneKeeps DEF treeVars, BuilderInv, BuilderTyped

LEMMA NavigateKeeps ==
  ASSUME SearchInv, NEW s \in Searcher, Navigate(s)
  PROVE  SearchInv'
<1>. DEFINE t == Of(s).tree
<1>1. PICK walk \in Walks(t, Of(s).mode) : \E groups \in Groupings(t, Terminals(t, walk)) :
        search' = [search EXCEPT ![s].at = "merge", ![s].groups = groups,
                                 ![s].full = @ /\ walk = Reached(t)]
  BY DEF Navigate
<1>2. PICK groups \in Groupings(t, Terminals(t, walk)) :
        search' = [search EXCEPT ![s].at = "merge", ![s].groups = groups,
                                 ![s].full = @ /\ walk = Reached(t)]
  BY <1>1
<1>. DEFINE x == [search[s] EXCEPT !.at = "merge", !.groups = groups,
                                   !.full = @ /\ walk = Reached(t)]
<1>3. /\ search[s].at = "navigate" /\ search[s] \in AnySearch
      /\ t \in AnyTree /\ Rooted(t)
      /\ Thorough(search[s], t)
  BY SearcherFacts DEF Navigate, Good, Of
<1>4. walk \in SUBSET DOMAIN t.children
  BY DEF Walks
<1>5. /\ groups \in SUBSET SUBSET Service
      /\ walk = Reached(t) => Listed(t) \subseteq UNION groups
  BY <1>3, <1>4, GroupingsHold
<1>6. /\ x \in AnySearch /\ x.at = "merge" /\ x.groups = groups /\ x.engine = search[s].engine
      /\ x.saved = search[s].saved /\ x.full = (search[s].full /\ walk = Reached(t))
  BY <1>3, <1>5 DEF AnySearch
<1>7. search' = [search EXCEPT ![s] = x]
  BY <1>2, <1>3 DEF SearchInv, AnySearch
<1>8. Thorough(x, t)
  BY <1>3, <1>5, <1>6 DEF Thorough
<1>. HIDE DEF x
<1>. QED BY <1>3, <1>6, <1>7, <1>8, MovesOn DEF Navigate, Of

(* Moving on with what has been found so far. *)
LEMMA GotoKeeps ==
  ASSUME SearchInv, UNCHANGED <<engines, cached>>, NEW s \in Searcher, search[s].at # "idle",
         NEW pc \in {"merge", "select", "judge", "fall back", "answer"}, Goto(s, pc),
         pc \in {"merge", "select"} => search[s].at \in {"merge", "select"},
         pc \in {"judge", "fall back", "answer"} =>
           search[s].at \in {"judge", "fall back", "answer"}
  PROVE  SearchInv'
<1>. DEFINE x == [search[s] EXCEPT !.at = pc]
<1>1. search[s] \in AnySearch /\ Thorough(search[s], engines[search[s].engine].tree)
  BY SearcherFacts
<1>2. /\ x \in AnySearch /\ x.at = pc /\ x.engine = search[s].engine
      /\ x.groups = search[s].groups /\ x.found = search[s].found
      /\ x.saved = search[s].saved /\ x.full = search[s].full
  BY <1>1 DEF AnySearch
<1>3. search' = [search EXCEPT ![s] = x]
  BY DEF Goto
<1>4. Thorough(x, engines[x.engine].tree)
  BY <1>1, <1>2 DEF Thorough
<1>. HIDE DEF x
<1>. QED BY <1>2, <1>3, <1>4, MovesOn

LEMMA MergeKeeps ==
  ASSUME SearchInv, NEW s \in Searcher, Merge(s)
  PROVE  SearchInv'
<1>. DEFINE groups == search[s].groups
<1>1. /\ search[s].at = "merge" /\ UNCHANGED <<engines, cached>>
      /\ search[s] \in AnySearch /\ Thorough(search[s], engines[search[s].engine].tree)
  BY SearcherFacts DEF Merge
<1>2. CASE Cardinality(groups) > 1 /\ Small(groups) # {}
  <2>1. PICK g \in Small(groups) : \E h \in groups \ {g} :
          search' = [search EXCEPT ![s].groups = (groups \ {g, h}) \cup {g \cup h}]
    BY <1>2 DEF Merge
  <2>2. PICK h \in groups \ {g} :
          search' = [search EXCEPT ![s].groups = (groups \ {g, h}) \cup {g \cup h}]
    BY <2>1
  <2>. DEFINE new == (groups \ {g, h}) \cup {g \cup h}
              x == [search[s] EXCEPT !.groups = new]
  <2>3. g \in groups /\ groups \in SUBSET SUBSET Service
    BY <1>1 DEF Small, AnySearch
  <2>4. UNION new = UNION groups /\ new \in SUBSET SUBSET Service
    <3>1. \A y : y \in UNION groups => y \in UNION new
      <4>1. SUFFICES ASSUME NEW k \in groups, NEW y \in k PROVE y \in UNION new
        OBVIOUS
      <4>2. CASE k \in {g, h}
        <5>1. y \in g \cup h /\ g \cup h \in new
          BY <4>2
        <5>. QED BY <5>1
      <4>3. CASE k \notin {g, h}
        BY <4>3
      <4>. QED BY <4>2, <4>3
    <3>2. \A y : y \in UNION new => y \in UNION groups
      BY <2>3
    <3>3. new \in SUBSET SUBSET Service
      BY <2>3
    <3>. HIDE DEF new
    <3>. QED BY <3>1, <3>2, <3>3
  <2>. HIDE DEF new
  <2>5. /\ x \in AnySearch /\ x.at = "merge" /\ x.engine = search[s].engine
        /\ x.groups = new /\ x.saved = search[s].saved /\ x.full = search[s].full
    BY <1>1, <2>4 DEF AnySearch
  <2>6. search' = [search EXCEPT ![s] = x]
    BY <2>2 DEF new
  <2>7. Thorough(x, engines[x.engine].tree)
    BY <1>1, <2>4, <2>5 DEF Thorough
  <2>. HIDE DEF x
  <2>. QED BY <1>1, <2>5, <2>6, <2>7, MovesOn
<1>3. CASE Goto(s, "select")
  BY <1>1, <1>3, GotoKeeps
<1>. QED BY <1>2, <1>3 DEF Merge

LEMMA SelectKeeps ==
  ASSUME SearchInv, NEW s \in Searcher, Select(s)
  PROVE  SearchInv'
<1>. DEFINE groups == search[s].groups
<1>1. /\ search[s].at = "select" /\ UNCHANGED <<engines, cached>>
      /\ search[s] \in AnySearch /\ Thorough(search[s], engines[search[s].engine].tree)
  BY SearcherFacts DEF Select
<1>2. PICK found \in SUBSET UNION groups :
        search' = [search EXCEPT ![s].at = "judge", ![s].found = found, ![s].groups = {},
                                 ![s].full = @ /\ found = UNION groups]
  BY DEF Select
<1>. DEFINE x == [search[s] EXCEPT !.at = "judge", !.found = found, !.groups = {},
                                   !.full = @ /\ found = UNION groups]
<1>3. found \in SUBSET Service
  BY <1>1 DEF AnySearch
<1>4. /\ x \in AnySearch /\ x.at = "judge" /\ x.engine = search[s].engine /\ x.found = found
      /\ x.saved = search[s].saved /\ x.full = (search[s].full /\ found = UNION groups)
  BY <1>1, <1>3 DEF AnySearch
<1>5. search' = [search EXCEPT ![s] = x]
  BY <1>1, <1>2 DEF SearchInv, AnySearch
<1>6. Thorough(x, engines[x.engine].tree)
  BY <1>1, <1>4 DEF Thorough
<1>. HIDE DEF x
<1>. QED BY <1>1, <1>4, <1>5, <1>6, MovesOn

LEMMA JudgeKeeps ==
  ASSUME SearchInv, NEW s \in Searcher, Judge(s)
  PROVE  SearchInv'
<1>1. Goto(s, "fall back") \/ Goto(s, "answer")
  BY DEF Judge
<1>. QED BY <1>1, GotoKeeps DEF Judge

LEMMA FallBackKeeps ==
  ASSUME SearchInv, NEW s \in Searcher, FallBack(s)
  PROVE  SearchInv'
<1>. DEFINE e == search[s].engine
            saved == Append(search[s].saved, engines[e].mode)
            x == [search[s] EXCEPT !.at = "navigate", !.full = FALSE, !.saved = saved]
<1>1. /\ search[s].at = "fall back" /\ UNCHANGED cached
      /\ search[s] \in AnySearch /\ engines[e] \in AnyEngine
  BY SearcherFacts DEF FallBack, Of
<1>2. saved \in Seq(Mode)
  <2>1. search[s].saved \in Seq(Mode) /\ engines[e].mode \in Mode
    BY <1>1 DEF AnySearch, AnyEngine
  <2>. QED BY <2>1
<1>3. search' = [search EXCEPT ![s] = x]
  BY <1>1 DEF FallBack, SearchInv
<1>. HIDE DEF saved
<1>4. /\ x \in AnySearch /\ x.at = "navigate" /\ x.engine = e /\ x.full = FALSE
  BY <1>1, <1>2 DEF AnySearch
<1>5. Thorough(x, engines[x.engine].tree)
  BY <1>4 DEF Thorough
<1>6. engines' = [engines EXCEPT ![e].mode = "get_important"] /\ "get_important" \in Mode
  BY DEF FallBack, Mode
<1>. HIDE DEF x
<1>. QED BY <1>1, <1>3, <1>4, <1>5, <1>6, SwitchesMode

LEMMA ReturnKeeps ==
  ASSUME SearchInv, NEW s \in Searcher, Return(s)
  PROVE  SearchInv'
<1>. DEFINE e == search[s].engine
            saved == search[s].saved
            rest == SubSeq(saved, 1, Len(saved) - 1)
<1>1. /\ search[s].at = "answer" /\ UNCHANGED cached /\ saved # <<>>
      /\ search[s] \in AnySearch /\ Thorough(search[s], engines[e].tree)
  BY SearcherFacts DEF Return
<1>2. saved \in Seq(Mode) /\ Len(saved) \in Nat /\ Len(saved) # 0
  <2>1. saved \in Seq(Mode) /\ saved # <<>>
    BY <1>1 DEF AnySearch
  <2>. QED BY <2>1
<1>3. rest \in Seq(Mode) /\ saved[Len(saved)] \in Mode
  BY <1>2
<1>4. PICK first \in IF search[s].found = {} THEN {{}} ELSE {{x} : x \in search[s].found} :
        search' = [search EXCEPT ![s].found = first, ![s].saved = rest]
  BY DEF Return
<1>5. first \in SUBSET Service
  <2>1. search[s].found \subseteq Service
    BY <1>1 DEF AnySearch
  <2>. QED BY <1>4, <2>1
<1>. DEFINE x == [search[s] EXCEPT !.found = first, !.saved = rest]
<1>6. search' = [search EXCEPT ![s] = x]
  BY <1>4 DEF SearchInv
<1>. HIDE DEF rest
<1>7. /\ x \in AnySearch /\ x.at = "answer" /\ x.engine = e /\ x.full = search[s].full
  BY <1>1, <1>3, <1>5 DEF AnySearch
<1>8. ~search[s].full
  BY <1>1 DEF Thorough
<1>9. Thorough(x, engines[x.engine].tree)
  BY <1>7, <1>8 DEF Thorough
<1>10. engines' = [engines EXCEPT ![e].mode = saved[Len(saved)]]
  BY DEF Return, Restored
<1>. HIDE DEF x
<1>. QED BY <1>1, <1>3, <1>6, <1>7, <1>9, <1>10, SwitchesMode

LEMMA AnswerKeeps ==
  ASSUME SearchInv, NEW s \in Searcher, Answer(s)
  PROVE  SearchInv'
<1>1. EnginesInv' /\ Len(engines) <= Len(engines') /\ Len(engines') \in Nat
  BY DEF Answer, SearchInv, EnginesInv
<1>2. SearchingAt(NoSearch)'
  BY <1>1, NoSearchFacts DEF SearchingAt
<1>3. search' = [search EXCEPT ![s] = NoSearch]
      /\ \A i \in 1..Len(engines) : engines'[i].tree = engines[i].tree
  BY DEF Answer
<1>. QED BY <1>1, <1>2, <1>3, NoSearchFacts, SearcherKeeps

LEMMA SwitchProviderKeeps ==
  ASSUME SearchInv, SwitchProvider
  PROVE  SearchInv'
<1>1. EnginesInv'
  BY DEF SwitchProvider, SearchInv, EnginesInv
<1>. QED BY <1>1 DEF SwitchProvider, SearchInv, SearchingAt

LEMMA StepKeeps == IInv /\ [Next]_vars => IInv'
<1>. SUFFICES ASSUME IInv, [Next]_vars PROVE IInv'
  OBVIOUS
<1>1. CASE Build
  <2>1. BuilderInv'
    BY <1>1, BuildKeeps DEF Build, IInv
  <2>2. SearchInv'
    BY <1>1 DEF Build, searchVars, IInv, SearchInv, EnginesInv, SearchingAt
  <2>. QED BY <2>1, <2>2 DEF IInv
<1>2. CASE Restart
  <2>1. SearchInv'
    <3>1. engines' = <<>> /\ cached' = [m \in AskedMode |-> 0]
          /\ search' = [s \in Searcher |-> NoSearch]
      BY <1>2 DEF Restart
    <3>2. engines' \in Seq(AnyEngine) /\ Len(engines') = 0
      BY <3>1
    <3>3. EnginesInv'
      BY <3>1, <3>2 DEF EnginesInv
    <3>. QED BY <3>1, <3>2, <3>3, NoSearchFacts DEF SearchInv, SearchingAt
  <2>. QED BY <1>2, <2>1, BuildKeeps DEF Restart, IInv
<1>3. CASE \E s \in Searcher, m \in AskedMode : Open(s, m)
  BY <1>3, OpenKeeps
<1>4. ASSUME NEW s \in Searcher,
             \/ Navigate(s) \/ Merge(s) \/ Select(s)
             \/ Judge(s) \/ FallBack(s) \/ Return(s) \/ Answer(s)
      PROVE  IInv'
  <2>1. UNCHANGED treeVars
    BY <1>4 DEF Navigate, Merge, Select, Judge, FallBack, Return, Answer
  <2>2. SearchInv'
    BY <1>4, NavigateKeeps, MergeKeeps, SelectKeeps, JudgeKeeps, FallBackKeeps, ReturnKeeps,
       AnswerKeeps DEF IInv
  <2>. QED BY <2>1, <2>2, SearchTreeKeeps DEF IInv
<1>5. CASE SwitchProvider
  BY <1>5, SwitchProviderKeeps, SearchTreeKeeps DEF SwitchProvider, IInv
<1>6. CASE UNCHANGED vars
  <2>1. SearchInv'
    BY <1>6 DEF vars, searchVars, IInv, SearchInv, EnginesInv, SearchingAt
  <2>. QED BY <1>6, <2>1, SearchTreeKeeps DEF vars, IInv
<1>. QED BY <1>1, <1>2, <1>3, <1>4, <1>5, <1>6 DEF Next, SearchStep

LEMMA SearchFindsAll ==
  ASSUME IInv PROVE FullSearchFindsAll
<1>. SUFFICES ASSUME NEW s \in Searcher, search[s].at = "answer", search[s].full,
                     Sound(Of(s).tree)
              PROVE  Of(s).tree.of \subseteq search[s].found
  BY DEF FullSearchFindsAll
<1>1. Good(Of(s).tree, {}) /\ Thorough(search[s], Of(s).tree)
  BY SearcherFacts DEF IInv, Of
<1>2. Of(s).tree.of \subseteq Listed(Of(s).tree)
  BY <1>1, GoodListed
<1>. QED BY <1>1, <1>2 DEF Thorough
---------------------------------------------------------------------------
LEMMA SpecIInv == Spec => []IInv
<1>1. Init => IInv
  BY InitGood, NoneSearching DEF Init, SearchInit, IInv
<1>. QED BY <1>1, StepKeeps, PTL DEF Spec

LEMMA Typed ==
  ASSUME IInv PROVE TypeOK
<1>1. ASSUME NEW t \in Trees
      PROVE  /\ Root \in DOMAIN t.children /\ DOMAIN t.children = DOMAIN t.services
             /\ \A n \in DOMAIN t.children :
                  t.children[n] \subseteq DOMAIN t.children /\ t.services[n] \subseteq Service
  <2>1. t \in AnyTree /\ Rooted(t)
    BY TreesGood DEF IInv, Good
  <2>. QED BY <2>1, GoodParts DEF Rooted
<1>2. TreeTypeOK
  BY <1>1 DEF IInv, BuilderInv, BuilderTyped, AnyDisk, AnyJob, TreeTypeOK
<1>3. \A m \in AskedMode : cached[m] \in 0..Len(engines)
  BY DEF IInv, SearchInv, EnginesInv
<1>4. ASSUME NEW s \in Searcher
      PROVE  /\ search[s].engine \in 0..Len(engines)
             /\ search[s].found \subseteq Service /\ UNION search[s].groups \subseteq Service
  BY DEF IInv, SearchInv, SearchingAt, AnySearch
<1>. QED BY <1>2, <1>3, <1>4 DEF TypeOK

(* Every variable of the builder and of the searches has its type. *)
THEOREM SpecTypeOK == Spec => []TypeOK
<1>1. IInv => TypeOK
  BY Typed
<1>. QED BY <1>1, SpecIInv, PTL

(* The walks over the tree end, and where the model reuses no id, every      *)
(* category has one parent, is reached from the root and no deeper than      *)
(* max_depth: _apply_split_result adds leaves that were not there, below a   *)
(* leaf that waited in the queue at its depth.                               *)
THEOREM SpecWellShaped == Spec => []WellShaped
<1>1. IInv => WellShaped
  BY BuilderWellShaped DEF IInv
<1>. QED BY <1>1, SpecIInv, PTL

(* No split, no deletion of a small category, no cross-domain addition, no   *)
(* crash and no resumed build loses a service of the tree.                   *)
THEOREM SpecNothingLost == Spec => []NothingLost
<1>1. IInv => NothingLost
  BY BuilderNothingLost DEF IInv
<1>. QED BY <1>1, SpecIInv, PTL

(* A stamp of the services there are stands beside a tree that lists them.   *)
THEOREM SpecAvailableListsAll == Spec => []AvailableListsAll
<1>1. IInv => AvailableListsAll
  BY BuilderAvailable DEF IInv
<1>. QED BY <1>1, SpecIInv, PTL

(* A search whose model wants everything finds every service of the tree.   *)
THEOREM SpecFullSearchFindsAll == Spec => []FullSearchFindsAll
<1>. QED BY SearchFindsAll, SpecIInv, PTL
---------------------------------------------------------------------------
(***************************************************************************)
(* The vector index (VectorIndex).                                         *)
(*                                                                         *)
(* A sync has seen services and model that others may have changed since;   *)
(* so the invariant says how far a sync that is alone has come, that while  *)
(* nothing overlapped or failed nobody works beside another, and that the   *)
(* instance agrees with the collection until a sync changes it, which then  *)
(* drops it.                                                               *)
(***************************************************************************)
AnySync ==
  [at: {"idle", "read", "model", "open", "compare", "delete", "upsert", "invalidate"},
   target: Services, model: Model \cup {"none"}, old: SUBSET Id, new: SUBSET Id, alone: BOOLEAN]

AnyInstance == [knows: Services, model: Model \cup {"none"}]

AnyBuild == [at: {"idle", "add", "load"}, services: Services, model: Model \cup {"none"}]

VectorTyped ==
  /\ file \in Services /\ config \in Model
  /\ docs \in [Id -> Doc \cup {NoDoc}]
  /\ recorded \in Model \cup {"no collection", "unrecorded"}
  /\ sync \in [Sync -> AnySync]
  /\ instance \in AnyInstance /\ build \in AnyBuild
  /\ removing \in BOOLEAN
  /\ unsure \subseteq {"overlap", "failed", "instance", "model"}
  /\ ops \in 0..MaxOps /\ failures \in 0..MaxFailures

(* What each thread has read is what it may write. *)
HasModel(t) == sync[t].at \in {"open", "compare", "delete", "upsert", "invalidate"}

HasOpened(t) == sync[t].at \in {"compare", "delete", "upsert", "invalidate"}

ThreadsInv ==
  /\ build.at = "idle" => build = NoBuild
  /\ build # NoBuild => build.model \in Model /\ recorded # "no collection" /\ instance = NoInstance
  /\ recorded = "no collection" => Found = {}
  /\ \A t \in Sync :
       /\ sync[t].at \in {"delete", "upsert"} => sync[t].new \subseteq Ids(sync[t].target)
       /\ HasModel(t) => sync[t].model \in Model
       /\ HasOpened(t) => recorded # "no collection"

Told == "model" \notin unsure

Sure == "overlap" \notin unsure /\ "failed" \notin unsure

(* While the metadata tell the model, nobody writes with another; and what  *)
(* was made with another will be seen to be.                               *)
ModelsInv ==
  Told =>
    /\ \A t \in Sync : HasModel(t) => sync[t].model = config
    /\ build # NoBuild => build.model = config
    /\ recorded \in Model \ {config} \/ \A s \in Found : docs[s].model = config

Texts == \A s \in Id : docs[s].text = file[s]

Models == Told => \A s \in Found : docs[s].model = config

(* How far a sync that is alone has come. *)
Progress(t) ==
  /\ sync[t].at \notin {"idle", "read"} => sync[t].target = file /\ file # Nothing
  /\ HasModel(t) => sync[t].model = config
  /\ HasOpened(t) => Models
  /\ sync[t].at = "delete" => sync[t].old = Stale(file) /\ sync[t].new = Fresh(file)
  /\ sync[t].at = "upsert" =>
       /\ Found \subseteq Ids(file)
       /\ \A s \in Ids(file) \ sync[t].new : docs[s].text = file[s]
  /\ sync[t].at = "invalidate" => Texts

AloneInv ==
  \A t \in Sync :
    sync[t].alone => Working = {t} /\ build = NoBuild /\ ~removing /\ Progress(t)

(* Unless syncs overlapped or one failed, one thing at a time is done.      *)
SureInv ==
  Sure =>
    /\ \A t \in Working : sync[t].alone
    /\ build # NoBuild => Working = {} /\ ~removing /\ build.services = file
    /\ removing => Working = {} /\ instance = NoInstance
    /\ Working = {} /\ ~removing /\ file # Nothing => Texts /\ Models

Knows == \A s \in Found : instance.knows[s] = docs[s].text

(* The instance is consistent with the collection until the collection      *)
(* changes; then it is dropped.                                            *)
Dropping == \E t \in Sync : sync[t].at = "invalidate"

Replacing == \E t \in Sync : sync[t].at \in {"delete", "upsert", "invalidate"}

Outdated == recorded \in Model \ {config} /\ \A t \in Sync : ~HasOpened(t)

InstanceInv ==
  "instance" \notin unsure =>
    /\ Sure
    /\ instance # NoInstance =>
         /\ Dropping \/ Knows
         /\ Told => \/ instance.model = config
                    \/ Found = {} \/ Replacing
                    \/ Outdated
    /\ instance # NoInstance /\ Told /\ Quiet /\ file # Nothing => instance.model = config

VectorInv == VectorTyped /\ ThreadsInv /\ ModelsInv /\ AloneInv /\ SureInv /\ InstanceInv
---------------------------------------------------------------------------
LEMMA Nothings ==
  /\ Nothing \in Services /\ Idle \in AnySync /\ NoBuild \in AnyBuild /\ NoInstance \in AnyInstance
  /\ NoDocs \in [Id -> Doc \cup {NoDoc}]
  /\ Idle.at = "idle" /\ Idle.alone = FALSE /\ NoBuild.at = "idle" /\ NoInstance.model = "none"
BY DEF Nothing, Services, Idle, AnySync, NoBuild, AnyBuild, NoInstance, AnyInstance, NoDocs, Doc, NoDoc

LEMMA DocFacts ==
  ASSUME VectorTyped
  PROVE  /\ \A s \in Id : docs[s] = NoDoc \/ docs[s] \in Doc
         /\ \A s \in Id : s \in Found <=> docs[s] \in Doc
         /\ \A s \in Id : s \in Found <=> docs[s].text # NoText
         /\ \A s \in Id : docs[s].text \in Text \cup {NoText}
         /\ NoDoc.text = NoText /\ NoText \notin Text
         /\ file # Nothing <=> Ids(file) # {}
<1>1. \A d \in Doc : d.text \in Text /\ d.text # NoText /\ d # NoDoc
  <2>1. NoText \notin Text
    BY VectorIndexAssumption
  <2>2. NoDoc.text = NoText
    BY DEF NoDoc
  <2>3. \A d \in Doc : d.text \in Text
    BY DEF Doc
  <2>. QED BY <2>1, <2>2, <2>3
<1>2. \A s \in Id : docs[s] = NoDoc \/ docs[s] \in Doc
  BY DEF VectorTyped
<1>3. NoDoc.text = NoText /\ NoText \notin Text
  BY VectorIndexAssumption DEF NoDoc
<1>4. file # Nothing <=> Ids(file) # {}
  BY DEF VectorTyped, Services, Nothing, Ids
<1>. QED BY <1>1, <1>2, <1>3, <1>4 DEF Found

LEMMA InitVector ==
  ASSUME VectorInit
  PROVE  VectorInv
<1>1. Found = {} /\ Working = {}
  BY Nothings DEF VectorInit, Found, Working, NoDocs
<1>2. VectorTyped
  <2>1. 0 \in 0..MaxOps /\ 0 \in 0..MaxFailures /\ DefaultModel \in Model
    <3>1. MaxOps \in Nat /\ MaxFailures \in Nat /\ DefaultModel \in Model
      BY VectorIndexAssumption
    <3>. QED BY <3>1
  <2>2. [t \in Sync |-> Idle] \in [Sync -> AnySync]
    BY Nothings
  <2>. QED BY <2>1, <2>2, Nothings DEF VectorInit, VectorTyped
<1>3. ThreadsInv /\ ModelsInv /\ AloneInv
  BY <1>1, Nothings DEF VectorInit, ThreadsInv, ModelsInv, AloneInv, HasModel, HasOpened
<1>4. SureInv /\ InstanceInv
  BY <1>1, Nothings DEF VectorInit, SureInv, InstanceInv, Sure
<1>. QED BY <1>2, <1>3, <1>4 DEF VectorInv

(* Types. *)
LEMMA BoundsKept ==
  ASSUME VectorTyped
  PROVE  /\ Counted => ops' \in 0..MaxOps
         /\ failures < MaxFailures => failures + 1 \in 0..MaxFailures
<1>1. MaxOps \in Nat /\ MaxFailures \in Nat
  BY VectorIndexAssumption
<1>2. ops \in 0..MaxOps /\ failures \in 0..MaxFailures
  BY DEF VectorTyped
<1>. QED BY <1>1, <1>2 DEF Counted

LEMMA ScheduledTyped ==
  ASSUME VectorTyped, NEW t \in Sync
  PROVE  /\ Scheduled(t) \in [Sync -> AnySync]
         /\ Scheduled(t)[t].at = "read" /\ Scheduled(t)[t].alone = Quiet
         /\ \A i \in Sync \ {t} :
              /\ Scheduled(t)[i].alone = FALSE
              /\ Scheduled(t)[i].at = sync[i].at /\ Scheduled(t)[i].target = sync[i].target
              /\ Scheduled(t)[i].model = sync[i].model
              /\ Scheduled(t)[i].old = sync[i].old /\ Scheduled(t)[i].new = sync[i].new
<1>1. \A i \in Sync : sync[i] \in AnySync
  BY DEF VectorTyped
<1>2. Quiet \in BOOLEAN
  BY DEF Quiet
<1>. QED BY <1>1, <1>2, Nothings DEF Scheduled, AnySync

(* A sync that moves on. *)
At == {"idle", "read", "model", "open", "compare", "delete", "upsert", "invalidate"}

LEMMA MovedTyped ==
  ASSUME VectorTyped, NEW t \in Sync, NEW at \in At, sync' = [sync EXCEPT ![t].at = at]
  PROVE  /\ sync' \in [Sync -> AnySync]
         /\ sync'[t].at = at /\ sync'[t].target = sync[t].target
         /\ sync'[t].model = sync[t].model /\ sync'[t].old = sync[t].old
         /\ sync'[t].new = sync[t].new /\ sync'[t].alone = sync[t].alone
         /\ \A i \in Sync \ {t} : sync'[i] = sync[i]
<1>1. sync \in [Sync -> AnySync] /\ sync[t] \in AnySync
  BY DEF VectorTyped
<1>. QED BY <1>1 DEF AnySync, At

LEMMA ComparedTyped ==
  ASSUME VectorTyped, NEW t \in Sync, NEW old \in SUBSET Id, NEW new \in SUBSET Id,
         sync' = [sync EXCEPT ![t].at = "delete", ![t].old = old, ![t].new = new]
  PROVE  /\ sync' \in [Sync -> AnySync]
         /\ sync'[t].at = "delete" /\ sync'[t].target = sync[t].target
         /\ sync'[t].model = sync[t].model /\ sync'[t].old = old
         /\ sync'[t].new = new /\ sync'[t].alone = sync[t].alone
         /\ \A i \in Sync \ {t} : sync'[i] = sync[i]
<1>1. sync \in [Sync -> AnySync] /\ sync[t] \in AnySync
  BY DEF VectorTyped
<1>. QED BY <1>1 DEF AnySync

LEMMA EndedTyped ==
  ASSUME VectorTyped, NEW t \in Sync, sync' = End(t)
  PROVE  /\ sync' \in [Sync -> AnySync]
         /\ sync'[t].at = "idle" /\ sync'[t].alone = FALSE
         /\ \A i \in Sync \ {t} : sync'[i] = sync[i]
BY Nothings DEF VectorTyped, End

(* None is alone any more. *)
LEMMA JoinedTyped ==
  ASSUME VectorTyped, sync' = [t \in Sync |-> [sync[t] EXCEPT !.alone = FALSE]]
  PROVE  /\ sync' \in [Sync -> AnySync]
         /\ \A i \in Sync :
              /\ sync'[i].alone = FALSE
              /\ sync'[i].at = sync[i].at /\ sync'[i].target = sync[i].target
              /\ sync'[i].model = sync[i].model
              /\ sync'[i].old = sync[i].old /\ sync'[i].new = sync[i].new
<1>1. \A i \in Sync : sync[i] \in AnySync
  BY DEF VectorTyped
<1>. QED BY <1>1 DEF AnySync

LEMMA TypedStep ==
  ASSUME VectorTyped, ThreadsInv, VectorNext
  PROVE  VectorTyped'
<1>1. \A i \in Sync : sync[i] \in AnySync
  BY DEF VectorTyped
<1>2. ASSUME NEW t \in Sync, NEW new \in Services, Change(new, t) PROVE VectorTyped'
  BY <1>2, BoundsKept, ScheduledTyped DEF Change, Schedule, Overlap, VectorTyped
<1>3. ASSUME NEW t \in Sync, NEW model \in Model, SetModel(model, t) PROVE VectorTyped'
  BY <1>3, BoundsKept, ScheduledTyped DEF SetModel, Unnoticed, Overlap, VectorTyped
<1>4. ASSUME NEW t \in Sync, ReadServices(t) PROVE VectorTyped'
  BY <1>1, <1>4, Nothings DEF ReadServices, End, VectorTyped, AnySync
<1>5. ASSUME NEW t \in Sync, ReadModel(t) PROVE VectorTyped'
  BY <1>1, <1>5, Nothings DEF ReadModel, VectorTyped, AnySync
<1>6. ASSUME NEW t \in Sync, OpenCollection(t) PROVE VectorTyped'
  BY <1>1, <1>6, Nothings DEF OpenCollection, Recorded, VectorTyped, AnySync, ThreadsInv, HasModel
<1>7. ASSUME NEW t \in Sync, Compare(t) PROVE VectorTyped'
  <2>1. Stale(sync[t].target) \in SUBSET Id /\ Fresh(sync[t].target) \in SUBSET Id
    BY DEF Stale, Fresh, Found, Ids
  <2>2. sync' \in [Sync -> AnySync]
    BY <1>7, <2>1, EndedTyped, ComparedTyped DEF Compare
  <2>3. unsure' \subseteq unsure
    BY <1>7 DEF Compare, Mended
  <2>. QED BY <1>7, <2>2, <2>3 DEF Compare, VectorTyped
<1>8. ASSUME NEW t \in Sync, DeleteIds(t) PROVE VectorTyped'
  BY <1>1, <1>8, Nothings DEF DeleteIds, VectorTyped, AnySync
<1>9. ASSUME NEW t \in Sync, Upsert(t) PROVE VectorTyped'
  <2>1. /\ sync[t].target \in Services /\ sync[t].new \subseteq Ids(sync[t].target)
        /\ sync[t].model \in Model
    BY <1>1, <1>9 DEF Upsert, AnySync, ThreadsInv, HasModel
  <2>2. \A s \in sync[t].new : sync[t].target[s] \in Text
    BY <2>1 DEF Ids, Services
  <2>3. \A s \in sync[t].new :
          [text |-> sync[t].target[s], model |-> sync[t].model] \in Doc
    BY <2>1, <2>2 DEF Doc
  <2>4. docs' \in [Id -> Doc \cup {NoDoc}]
    BY <1>9, <2>3 DEF Upsert, VectorTyped
  <2>5. sync' \in [Sync -> AnySync]
    BY <1>9, MovedTyped DEF Upsert, At
  <2>. QED BY <1>9, <2>4, <2>5 DEF Upsert, VectorTyped
<1>10. ASSUME NEW t \in Sync, Invalidate(t) PROVE VectorTyped'
  BY <1>1, <1>10, Nothings DEF Invalidate, Dropped, End, Renewed, VectorTyped
<1>11. ASSUME NEW t \in Sync, SyncFails(t) PROVE VectorTyped'
  BY <1>1, <1>11, Nothings, BoundsKept DEF SyncFails, End, Failed, VectorTyped
<1>12. ASSUME NEW t \in Sync, WarmUp(t) PROVE VectorTyped'
  BY <1>1, <1>12, Nothings, BoundsKept DEF WarmUp, Failed, VectorTyped, AnySync
<1>13. CASE BuildOpen
  BY <1>1, <1>13, Nothings DEF BuildOpen, Recorded, Overlap, VectorTyped, AnySync, AnyBuild
<1>14. CASE BuildAdd
  BY <1>14, Nothings DEF BuildAdd, VectorTyped, AnyBuild, ThreadsInv, Ids, Services, Doc
<1>15. CASE BuildLoad
  BY <1>15, Nothings DEF BuildLoad, VectorTyped, AnyBuild, AnyInstance
<1>16. CASE BuildFails
  BY <1>16, Nothings DEF BuildFails, VectorTyped
<1>17. CASE Purge
  BY <1>1, <1>17, Nothings, BoundsKept DEF Purge, Recorded, Dropped, Overlap, Failed, VectorTyped, AnySync
<1>18. CASE Remove
  BY <1>18, Nothings, VectorIndexAssumption DEF Remove, Unnoticed, Overlap, VectorTyped
<1>. QED BY <1>2, <1>3, <1>4, <1>5, <1>6, <1>7, <1>8, <1>9, <1>10, <1>11, <1>12, <1>13, <1>14,
           <1>15, <1>16, <1>17, <1>18 DEF VectorNext, SyncStep

---------------------------------------------------------------------------
(* A sync moves on, *)
LEMMA Onward ==
  ASSUME VectorInv, NEW t \in Sync, sync[t].at # "idle", sync'[t].at # "idle",
         sync'[t].alone = sync[t].alone, \A i \in Sync \ {t} : sync'[i] = sync[i],
         UNCHANGED <<file, config, instance, build, removing, unsure>>,
         sync[t].alone => Progress(t)'
  PROVE  /\ t \in Working /\ Working' = Working
         /\ AloneInv' /\ SureInv'
<1>1. t \in Working /\ Working' = Working
  BY DEF Working
<1>2. ASSUME NEW i \in Sync, sync'[i].alone
      PROVE  i = t /\ sync[t].alone
  <2>1. sync[i].alone
    BY <1>2
  <2>. QED BY <1>1, <2>1 DEF VectorInv, AloneInv
<1>3. AloneInv'
  BY <1>1, <1>2 DEF VectorInv, AloneInv
<1>4. SureInv'
  <2>. SUFFICES ASSUME Sure' PROVE SureInv'
    BY DEF SureInv
  <2>1. Sure /\ (\A i \in Working : sync[i].alone) /\ build = NoBuild /\ ~removing
    BY <1>1 DEF VectorInv, SureInv, Sure
  <2>2. \A i \in Working : sync'[i].alone
    BY <2>1 DEF Working
  <2>. QED BY <1>1, <2>1, <2>2 DEF SureInv
<1>. QED BY <1>1, <1>3, <1>4

(* or ends; if it was not alone, the index may now differ.                  *)
LEMMA Ending ==
  ASSUME VectorInv, NEW t \in Sync, sync[t].at # "idle", sync'[t].at = "idle",
         sync'[t].alone = FALSE, \A i \in Sync \ {t} : sync'[i] = sync[i],
         UNCHANGED <<file, build, removing>>,
         Sure' => Sure \/ sync[t].alone,
         sync[t].alone /\ Sure' /\ file # Nothing => Texts' /\ Models'
  PROVE  /\ t \in Working /\ Working' = Working \ {t}
         /\ AloneInv' /\ SureInv'
         /\ Sure' => sync[t].alone
<1>1. t \in Working /\ Working' = Working \ {t}
  BY DEF Working
<1>2. ASSUME NEW i \in Sync PROVE ~sync'[i].alone
  BY <1>1 DEF VectorInv, AloneInv
<1>3. AloneInv'
  BY <1>2 DEF AloneInv
<1>4. Sure' => sync[t].alone
  BY <1>1 DEF VectorInv, SureInv
<1>5. SureInv'
  BY <1>1, <1>4 DEF VectorInv, AloneInv, SureInv
<1>. QED BY <1>1, <1>3, <1>4, <1>5

(* While nothing has happened to the instance, a sync at work is alone.     *)
LEMMA AloneAtWork ==
  ASSUME VectorInv, NEW t \in Sync, sync[t].at # "idle"
  PROVE  /\ "instance" \notin unsure => Sure /\ sync[t].alone
         /\ sync[t].alone => Working = {t} /\ Progress(t) /\ build = NoBuild /\ ~removing
         /\ sync[t].alone => \A i \in Sync \ {t} : sync[i].at = "idle"
<1>1. t \in Working
  BY DEF Working
<1>2. sync[t].alone => Working = {t} /\ Progress(t) /\ build = NoBuild /\ ~removing
  BY DEF VectorInv, AloneInv
<1>3. sync[t].alone => \A i \in Sync \ {t} : sync[i].at = "idle"
  BY <1>2 DEF Working
<1>4. "instance" \notin unsure => Sure /\ sync[t].alone
  BY <1>1 DEF VectorInv, InstanceInv, SureInv
<1>. QED BY <1>2, <1>3, <1>4

LEMMA ReadServicesKeeps ==
  ASSUME VectorInv, NEW t \in Sync, ReadServices(t), VectorTyped'
  PROVE  VectorInv'
<1>1. /\ sync[t].at = "read" /\ VectorTyped
      /\ UNCHANGED <<file, config, docs, recorded, instance, build, removing, unsure>>
  BY DEF ReadServices, VectorInv
<1>2. CASE file = Nothing
  <2>1. sync' = End(t)
    BY <1>2 DEF ReadServices
  <2>2. /\ sync'[t].at = "idle" /\ sync'[t].alone = FALSE
        /\ \A i \in Sync \ {t} : sync'[i] = sync[i]
    BY <1>1, <2>1, EndedTyped
  <2>3. Sure' = Sure
    BY <1>1 DEF Sure
  <2>4. AloneInv' /\ SureInv'
    BY <1>1, <1>2, <2>2, <2>3, Ending
  <2>5. ThreadsInv' /\ ModelsInv'
    BY <1>1, <2>2 DEF VectorInv, ThreadsInv, ModelsInv, HasModel, HasOpened, Told, Found
  <2>6. InstanceInv'
    BY <1>1, <1>2, <2>2, <2>3, AloneAtWork
       DEF VectorInv, InstanceInv, Dropping, Replacing, Knows, Found, Told, Outdated, HasOpened
  <2>. QED BY <2>4, <2>5, <2>6 DEF VectorInv
<1>3. CASE file # Nothing
  <2>1. sync' = [sync EXCEPT ![t].at = "model", ![t].target = file]
    BY <1>3 DEF ReadServices
  <2>2. /\ sync'[t].at = "model" /\ sync'[t].alone = sync[t].alone /\ sync'[t].target = file
        /\ \A i \in Sync \ {t} : sync'[i] = sync[i]
    BY <1>1, <2>1 DEF VectorTyped, AnySync
  <2>3. Progress(t)'
    BY <1>1, <1>3, <2>2 DEF Progress, HasModel, HasOpened
  <2>4. t \in Working /\ Working' = Working /\ AloneInv' /\ SureInv'
    BY <1>1, <2>2, <2>3, Onward
  <2>5. ThreadsInv' /\ ModelsInv'
    BY <1>1, <2>2 DEF VectorInv, ThreadsInv, ModelsInv, HasModel, HasOpened, Told, Found
  <2>6. InstanceInv'
    BY <1>1, <2>2, <2>4, AloneAtWork
       DEF VectorInv, InstanceInv, Sure, Dropping, Replacing, Knows, Found, Told, Outdated,
           HasOpened, Quiet
  <2>. QED BY <2>4, <2>5, <2>6 DEF VectorInv
<1>. QED BY <1>2, <1>3

LEMMA ReadModelKeeps ==
  ASSUME VectorInv, NEW t \in Sync, ReadModel(t), VectorTyped'
  PROVE  VectorInv'
<1>1. /\ sync[t].at = "model" /\ VectorTyped
      /\ UNCHANGED <<file, config, docs, recorded, instance, build, removing, unsure>>
  BY DEF ReadModel, VectorInv
<1>2. /\ sync'[t].at = "open" /\ sync'[t].alone = sync[t].alone
      /\ sync'[t].target = sync[t].target /\ sync'[t].model = config
      /\ \A i \in Sync \ {t} : sync'[i] = sync[i]
  BY <1>1 DEF ReadModel, VectorTyped, AnySync
<1>3. sync[t].alone => Progress(t)'
  BY <1>1, <1>2, AloneAtWork DEF Progress, HasModel, HasOpened
<1>4. t \in Working /\ Working' = Working /\ AloneInv' /\ SureInv'
  BY <1>1, <1>2, <1>3, Onward
<1>5. ThreadsInv' /\ ModelsInv'
  BY <1>1, <1>2 DEF VectorInv, VectorTyped, ThreadsInv, ModelsInv, HasModel, HasOpened, Told, Found
<1>6. InstanceInv'
  BY <1>1, <1>2, <1>4, AloneAtWork
     DEF VectorInv, InstanceInv, Sure, Dropping, Replacing, Knows, Found, Told, Outdated,
         HasOpened, Quiet
<1>. QED BY <1>4, <1>5, <1>6 DEF VectorInv

LEMMA OpenCollectionKeeps ==
  ASSUME VectorInv, NEW t \in Sync, OpenCollection(t), VectorTyped'
  PROVE  VectorInv'
<1>. DEFINE model == sync[t].model
<1>1. /\ sync[t].at = "open" /\ VectorTyped /\ model \in Model
      /\ UNCHANGED <<file, config, instance, build, removing, unsure>>
  BY DEF OpenCollection, VectorInv, ThreadsInv, HasModel
<1>2. /\ sync'[t].at = "compare" /\ sync'[t].alone = sync[t].alone
      /\ sync'[t].target = sync[t].target /\ sync'[t].model = sync[t].model
      /\ \A i \in Sync \ {t} : sync'[i] = sync[i]
  BY <1>1, MovedTyped DEF OpenCollection, At
<1>3. /\ recorded' # "no collection"
      /\ recorded' = IF recorded = "no collection" THEN model ELSE recorded
  BY <1>1, VectorIndexAssumption DEF OpenCollection, Recorded
<1>4. \/ Found' = {}
      \/ recorded \notin Model \ {model} /\ docs' = docs /\ Found' = Found
  <2>1. CASE Mismatch(model)
    <3>1. docs' = NoDocs
      BY <2>1 DEF OpenCollection
    <3>. QED BY <3>1 DEF Found, NoDocs
  <2>2. CASE ~Mismatch(model)
    BY <2>2 DEF OpenCollection, Mismatch, Found
  <2>. QED BY <2>1, <2>2
<1>5. Told => model = config
  BY <1>1 DEF VectorInv, ModelsInv, HasModel
<1>6. Models'
  <2>1. CASE Found' = {}
    BY <2>1 DEF Models
  <2>2. CASE recorded \notin Model \ {model} /\ docs' = docs /\ Found' = Found
    BY <1>1, <1>5, <2>2 DEF Models, VectorInv, ModelsInv, Told
  <2>. QED BY <1>4, <2>1, <2>2
<1>7. sync[t].alone => Progress(t)'
  BY <1>1, <1>2, <1>6, AloneAtWork DEF Progress, HasModel, HasOpened
<1>8. t \in Working /\ Working' = Working /\ AloneInv' /\ SureInv'
  BY <1>1, <1>2, <1>7, Onward
<1>9. ThreadsInv'
  BY <1>1, <1>2, <1>3 DEF VectorInv, ThreadsInv, HasModel, HasOpened
<1>10. ModelsInv'
  BY <1>1, <1>2, <1>6 DEF VectorInv, ModelsInv, Models, HasModel, Told
<1>11. ASSUME "instance" \notin unsure, instance # NoInstance
       PROVE  Knows' /\ (Told => instance.model = config \/ Found' = {})
  <2>1. sync[t].alone /\ ~Dropping /\ ~Replacing
    BY <1>1, <1>11, AloneAtWork DEF Dropping, Replacing
  <2>2. Knows /\ (Told => instance.model = config \/ Found = {} \/ Outdated)
    BY <1>11, <2>1 DEF VectorInv, InstanceInv
  <2>3. Knows'
    BY <1>1, <1>4, <2>2 DEF Knows
  <2>4. ASSUME Told, Outdated PROVE Found' = {}
    BY <1>4, <1>5, <2>4 DEF Outdated
  <2>. QED BY <1>4, <2>2, <2>3, <2>4
<1>12. InstanceInv'
  BY <1>1, <1>8, <1>11 DEF VectorInv, InstanceInv, Sure, Told, Quiet
<1>. QED BY <1>8, <1>9, <1>10, <1>12 DEF VectorInv

(* Nothing stale and nothing fresh: the texts are those of the services.    *)
LEMMA ComparedTexts ==
  ASSUME VectorTyped, Stale(file) = {}, Fresh(file) = {}
  PROVE  Texts /\ (file # Nothing => Found # {})
<1>1. ASSUME NEW s \in Id PROVE docs[s].text = file[s]
  <2>1. CASE s \in Ids(file)
    BY <2>1 DEF Fresh
  <2>2. CASE s \notin Ids(file)
    BY <2>2, DocFacts DEF Stale, Ids
  <2>. QED BY <2>1, <2>2
<1>2. ASSUME file # Nothing PROVE Found # {}
  <2>1. PICK s \in Ids(file) : TRUE
    BY <1>2, DocFacts
  <2>2. s \in Id /\ docs[s].text # NoText
    BY <1>1 DEF Ids
  <2>. QED BY <2>2, DocFacts
<1>. QED BY <1>1, <1>2 DEF Texts

LEMMA CompareKeeps ==
  ASSUME VectorInv, NEW t \in Sync, Compare(t), VectorTyped'
  PROVE  VectorInv'
<1>. DEFINE old == Stale(sync[t].target)
            new == Fresh(sync[t].target)
<1>1. /\ sync[t].at = "compare" /\ VectorTyped
      /\ UNCHANGED <<file, config, docs, recorded, instance, build, removing>>
  BY DEF Compare, VectorInv
<1>2. ("instance" \notin unsure /\ instance # NoInstance) =>
        Knows /\ (Told => instance.model = config \/ Found = {})
  <2>1. ASSUME "instance" \notin unsure, instance # NoInstance
        PROVE  Knows /\ (Told => instance.model = config \/ Found = {})
    <3>1. sync[t].alone /\ ~Dropping /\ ~Replacing /\ ~Outdated
      BY <1>1, <2>1, AloneAtWork DEF Dropping, Replacing, Outdated, HasOpened
    <3>. QED BY <2>1, <3>1 DEF VectorInv, InstanceInv
  <2>. QED BY <2>1
<1>3. Knows' = Knows /\ Found' = Found /\ Texts' = Texts
  BY <1>1 DEF Knows, Found, Texts
<1>4. sync[t].alone => sync[t].target = file /\ file # Nothing /\ Models
  BY <1>1, AloneAtWork DEF Progress, HasOpened
<1>5. CASE old \cup new = {}
  <2>1. sync' = End(t) /\ unsure' = Mended(t)
    BY <1>5 DEF Compare
  <2>2. /\ sync'[t].at = "idle" /\ sync'[t].alone = FALSE
        /\ \A i \in Sync \ {t} : sync'[i] = sync[i]
    BY <1>1, <2>1, EndedTyped
  <2>3. /\ Told' = Told /\ (Sure' => Sure \/ sync[t].alone) /\ (Sure => Sure')
        /\ "instance" \notin unsure' <=> "instance" \notin unsure
    BY <2>1 DEF Told, Sure, Mended
  <2>4. sync[t].alone => Texts /\ Found # {}
    BY <1>1, <1>4, <1>5, ComparedTexts
  <2>5. Models' = Models
    BY <1>1, <2>3 DEF Models, Found
  <2>6. AloneInv' /\ SureInv'
    <3>1. sync[t].alone /\ Sure' /\ file # Nothing => Texts' /\ Models'
      BY <1>3, <1>4, <2>4, <2>5
    <3>. QED BY <1>1, <2>2, <2>3, <3>1, Ending
  <2>7. ThreadsInv' /\ ModelsInv'
    BY <1>1, <2>2, <2>3 DEF VectorInv, ThreadsInv, ModelsInv, HasModel, HasOpened, Found
  <2>8. InstanceInv'
    <3>. SUFFICES ASSUME "instance" \notin unsure PROVE InstanceInv'
      BY <2>3 DEF InstanceInv
    <3>1. Sure /\ sync[t].alone
      BY <1>1, AloneAtWork
    <3>2. Found # {}
      BY <2>4, <3>1
    <3>. QED BY <1>1, <1>2, <1>3, <2>3, <3>1, <3>2 DEF InstanceInv
  <2>. QED BY <2>6, <2>7, <2>8 DEF VectorInv
<1>6. CASE old \cup new # {}
  <2>1. /\ sync' = [sync EXCEPT ![t].at = "delete", ![t].old = old, ![t].new = new]
        /\ unsure' = unsure
    BY <1>6 DEF Compare
  <2>2. old \in SUBSET Id /\ new \in SUBSET Id /\ new \subseteq Ids(sync[t].target)
    BY DEF Stale, Fresh, Found, Ids
  <2>a. PICK gone \in SUBSET Id, come \in SUBSET Id : gone = old /\ come = new
    BY <2>2
  <2>b. sync' = [sync EXCEPT ![t].at = "delete", ![t].old = gone, ![t].new = come]
    BY <2>1, <2>a
  <2>3. /\ sync'[t].at = "delete" /\ sync'[t].alone = sync[t].alone
        /\ sync'[t].target = sync[t].target /\ sync'[t].model = sync[t].model
        /\ sync'[t].old = gone /\ sync'[t].new = come
        /\ \A i \in Sync \ {t} : sync'[i] = sync[i]
    BY <1>1, <2>b, ComparedTyped
  <2>. HIDE DEF old, new
  <2>4. sync[t].alone => Progress(t)'
    <3>1. Models' = Models /\ Stale(file)' = Stale(file) /\ Fresh(file)' = Fresh(file)
      BY <1>1, <2>1 DEF Models, Told, Found, Stale, Fresh, Ids
    <3>2. sync[t].alone => sync[t].model = config
      BY <1>1, AloneAtWork DEF Progress, HasModel
    <3>3. sync[t].alone => sync'[t].old = Stale(file) /\ sync'[t].new = Fresh(file)
      BY <1>4, <2>a, <2>3 DEF old, new
    <3>. QED BY <1>1, <1>4, <2>3, <3>1, <3>2, <3>3 DEF Progress, HasModel, HasOpened
  <2>5. t \in Working /\ Working' = Working /\ AloneInv' /\ SureInv'
    BY <1>1, <2>1, <2>3, <2>4, Onward
  <2>6. ThreadsInv' /\ ModelsInv'
    <3>1. come \subseteq Ids(sync[t].target) /\ Ids(sync[t].target)' = Ids(sync'[t].target)
      BY <2>2, <2>a DEF Ids
    <3>2. Found' = Found /\ Told' = Told
      BY <1>1, <2>1 DEF Found, Told
    <3>3. ThreadsInv'
      BY <1>1, <2>1, <2>3, <3>1, <3>2 DEF VectorInv, ThreadsInv, HasModel, HasOpened
    <3>4. ModelsInv'
      BY <1>1, <2>1, <2>3, <3>2 DEF VectorInv, ModelsInv, HasModel
    <3>. QED BY <3>3, <3>4
  <2>7. InstanceInv'
    BY <1>1, <1>2, <1>3, <2>1, <2>3, <2>5
       DEF VectorInv, InstanceInv, Sure, Told, Replacing, Quiet
  <2>. QED BY <2>5, <2>6, <2>7 DEF VectorInv
<1>. QED BY <1>5, <1>6

LEMMA DeleteIdsKeeps ==
  ASSUME VectorInv, NEW t \in Sync, DeleteIds(t), VectorTyped'
  PROVE  VectorInv'
<1>1. /\ sync[t].at = "delete" /\ VectorTyped
      /\ docs' = [s \in Id |-> IF s \in sync[t].old THEN NoDoc ELSE docs[s]]
      /\ UNCHANGED <<file, config, recorded, instance, build, removing, unsure>>
  BY DEF DeleteIds, VectorInv
<1>2. /\ sync'[t].at = "upsert" /\ sync'[t].alone = sync[t].alone
      /\ sync'[t].target = sync[t].target /\ sync'[t].model = sync[t].model
      /\ sync'[t].new = sync[t].new
      /\ \A i \in Sync \ {t} : sync'[i] = sync[i]
  BY <1>1, MovedTyped DEF DeleteIds, At
<1>3. /\ Found' = Found \ sync[t].old
      /\ \A s \in Found' : docs'[s] = docs[s]
      /\ \A s \in Id \ sync[t].old : docs'[s] = docs[s]
  BY <1>1 DEF Found
<1>4. Told' = Told /\ Sure' = Sure
  BY <1>1 DEF Told, Sure
<1>5. sync[t].alone => Progress(t)'
  <2>. SUFFICES ASSUME sync[t].alone PROVE Progress(t)'
    OBVIOUS
  <2>1. /\ sync[t].target = file /\ file # Nothing /\ sync[t].model = config /\ Models
        /\ sync[t].old = Stale(file) /\ sync[t].new = Fresh(file)
    BY <1>1, AloneAtWork DEF Progress, HasModel, HasOpened
  <2>2. Models'
    BY <1>1, <1>3, <1>4, <2>1 DEF Models
  <2>3. Found' \subseteq Ids(file)
    BY <1>3, <2>1 DEF Stale
  <2>4. \A s \in Ids(file) \ sync[t].new : docs'[s].text = file[s]
    BY <1>3, <2>1 DEF Stale, Fresh, Ids
  <2>. QED BY <1>1, <1>2, <2>1, <2>2, <2>3, <2>4 DEF Progress, HasModel, HasOpened, Ids
<1>6. t \in Working /\ Working' = Working /\ AloneInv' /\ SureInv'
  BY <1>1, <1>2, <1>5, Onward
<1>7. ThreadsInv' /\ ModelsInv'
  <2>1. ThreadsInv'
    <3>1. recorded = "no collection" => Found' = {}
      BY <1>3 DEF VectorInv, ThreadsInv
    <3>2. sync'[t].new \subseteq Ids(sync'[t].target)
      BY <1>1, <1>2 DEF VectorInv, ThreadsInv
    <3>3. sync'[t].model \in Model /\ recorded # "no collection"
      BY <1>1, <1>2 DEF VectorInv, ThreadsInv, HasModel, HasOpened
    <3>4. \A i \in Sync : Ids(sync[i].target)' = Ids(sync'[i].target)
      BY DEF Ids
    <3>5. \A i \in Sync : i = t \/ sync'[i] = sync[i]
      BY <1>2
    <3>. QED BY <1>1, <3>1, <3>2, <3>3, <3>4, <3>5 DEF VectorInv, ThreadsInv, HasModel, HasOpened
  <2>2. ModelsInv'
    BY <1>1, <1>2, <1>3, <1>4 DEF VectorInv, ModelsInv, HasModel
  <2>. QED BY <2>1, <2>2
<1>8. InstanceInv'
  <2>. SUFFICES ASSUME "instance" \notin unsure PROVE InstanceInv'
    BY <1>1 DEF InstanceInv
  <2>1. Sure /\ sync[t].alone /\ ~Dropping
    BY <1>1, AloneAtWork DEF Dropping
  <2>2. instance # NoInstance => Knows
    BY <2>1 DEF VectorInv, InstanceInv
  <2>3. instance # NoInstance => Knows'
    BY <1>1, <1>3, <2>2 DEF Knows
  <2>4. Replacing'
    BY <1>2 DEF Replacing
  <2>. QED BY <1>1, <1>4, <1>6, <2>1, <2>3, <2>4 DEF InstanceInv, Quiet
<1>. QED BY <1>6, <1>7, <1>8 DEF VectorInv

LEMMA UpsertKeeps ==
  ASSUME VectorInv, NEW t \in Sync, Upsert(t), VectorTyped'
  PROVE  VectorInv'
<1>. DEFINE new == sync[t].new
<1>1. /\ sync[t].at = "upsert" /\ VectorTyped
      /\ docs' = [s \in Id |-> IF s \in new
                               THEN [text |-> sync[t].target[s], model |-> sync[t].model]
                               ELSE docs[s]]
      /\ UNCHANGED <<file, config, recorded, instance, build, removing, unsure>>
  BY DEF Upsert, VectorInv
<1>2. /\ sync'[t].at = "invalidate" /\ sync'[t].alone = sync[t].alone
      /\ sync'[t].target = sync[t].target /\ sync'[t].model = sync[t].model
      /\ \A i \in Sync \ {t} : sync'[i] = sync[i]
  BY <1>1, MovedTyped DEF Upsert, At
<1>3. /\ Found' \subseteq Found \cup new
      /\ \A s \in Id \ new : docs'[s] = docs[s]
      /\ \A s \in Id \cap new : docs'[s].text = sync[t].target[s] /\ docs'[s].model = sync[t].model
  BY <1>1 DEF Found
<1>4. Told' = Told /\ Sure' = Sure
  BY <1>1 DEF Told, Sure
<1>5. /\ Told => sync[t].model = config
      /\ recorded # "no collection" /\ new \subseteq Ids(sync[t].target)
  BY <1>1 DEF VectorInv, ModelsInv, ThreadsInv, HasModel, HasOpened
<1>6. ASSUME NEW s \in Found', Told
      PROVE  docs'[s].model = config \/ (s \in Found /\ docs'[s] = docs[s])
  BY <1>3, <1>5, <1>6 DEF Found
<1>7. sync[t].alone => Progress(t)'
  <2>. SUFFICES ASSUME sync[t].alone PROVE Progress(t)'
    OBVIOUS
  <2>1. /\ sync[t].target = file /\ file # Nothing /\ sync[t].model = config /\ Models
        /\ Found \subseteq Ids(file)
        /\ \A s \in Ids(file) \ new : docs[s].text = file[s]
    BY <1>1, AloneAtWork DEF Progress, HasModel, HasOpened
  <2>2. Models'
    BY <1>1, <1>4, <1>6, <2>1 DEF Models
  <2>3. ASSUME NEW s \in Id PROVE docs'[s].text = file[s]
    <3>1. CASE s \in new
      BY <1>3, <2>1, <3>1
    <3>2. CASE s \in Ids(file) \ new
      BY <1>3, <2>1, <3>2 DEF Ids
    <3>3. CASE s \notin Ids(file) /\ s \notin new
      <4>1. s \notin Found /\ docs'[s] = docs[s]
        BY <1>3, <2>1, <3>3
      <4>. QED BY <1>1, <3>3, <4>1, DocFacts DEF Ids
    <3>. QED BY <3>1, <3>2, <3>3
  <2>4. Texts'
    BY <1>1, <2>3 DEF Texts
  <2>. QED BY <1>1, <1>2, <2>1, <2>2, <2>4 DEF Progress, HasModel, HasOpened
<1>8. t \in Working /\ Working' = Working /\ AloneInv' /\ SureInv'
  BY <1>1, <1>2, <1>7, Onward
<1>9. ThreadsInv'
  BY <1>1, <1>2, <1>5 DEF VectorInv, ThreadsInv, HasModel, HasOpened, Ids
<1>10. ModelsInv'
  BY <1>1, <1>2, <1>4, <1>6 DEF VectorInv, ModelsInv, HasModel
<1>11. InstanceInv'
  BY <1>1, <1>2, <1>4, <1>8 DEF VectorInv, InstanceInv, Dropping, Replacing, Quiet
<1>. QED BY <1>8, <1>9, <1>10, <1>11 DEF VectorInv

LEMMA InvalidateKeeps ==
  ASSUME VectorInv, NEW t \in Sync, Invalidate(t), VectorTyped'
  PROVE  VectorInv'
<1>1. /\ sync[t].at = "invalidate" /\ VectorTyped /\ build = NoBuild
      /\ instance' = NoInstance /\ unsure' = Renewed(t) /\ sync' = End(t)
      /\ UNCHANGED <<file, config, docs, recorded, build, removing>>
  BY DEF Invalidate, Dropped, VectorInv
<1>2. /\ sync'[t].at = "idle" /\ sync'[t].alone = FALSE
      /\ \A i \in Sync \ {t} : sync'[i] = sync[i]
  BY <1>1, EndedTyped
<1>3. /\ Told' = Told /\ (Sure' => Sure \/ sync[t].alone) /\ (Sure => Sure')
      /\ sync[t].alone => Sure'
      /\ "instance" \notin unsure' => sync[t].alone \/ "instance" \notin unsure
  BY <1>1 DEF Told, Sure, Renewed
<1>4. sync[t].alone => Texts' /\ Models'
  BY <1>1, <1>3, AloneAtWork DEF Progress, HasOpened, Texts, Models, Found
<1>5. AloneInv' /\ SureInv'
  BY <1>1, <1>2, <1>3, <1>4, Ending
<1>6. ThreadsInv' /\ ModelsInv'
  BY <1>1, <1>2, <1>3 DEF VectorInv, ThreadsInv, ModelsInv, HasModel, HasOpened, Found
<1>7. InstanceInv'
  BY <1>1, <1>3 DEF VectorInv, InstanceInv
<1>. QED BY <1>5, <1>6, <1>7 DEF VectorInv

LEMMA SyncFailsKeeps ==
  ASSUME VectorInv, NEW t \in Sync, SyncFails(t), VectorTyped'
  PROVE  VectorInv'
<1>1. /\ sync[t].at # "idle" /\ VectorTyped /\ unsure' = unsure \cup Failed /\ sync' = End(t)
      /\ UNCHANGED <<file, config, docs, recorded, instance, build, removing>>
  BY DEF SyncFails, VectorInv
<1>2. /\ sync'[t].at = "idle" /\ sync'[t].alone = FALSE
      /\ \A i \in Sync \ {t} : sync'[i] = sync[i]
  BY <1>1, EndedTyped
<1>3. Told' = Told /\ ~Sure' /\ "instance" \in unsure'
  BY <1>1 DEF Told, Sure, Failed
<1>4. AloneInv' /\ SureInv'
  BY <1>1, <1>2, <1>3, Ending
<1>5. ThreadsInv' /\ ModelsInv'
  BY <1>1, <1>2, <1>3 DEF VectorInv, ThreadsInv, ModelsInv, HasModel, HasOpened, Found
<1>6. InstanceInv'
  BY <1>3 DEF InstanceInv
<1>. QED BY <1>4, <1>5, <1>6 DEF VectorInv

(* A change starts a sync, which is alone if nothing else is done.          *)
LEMMA StartedSync ==
  ASSUME VectorInv, NEW t \in Sync, t \notin Working, sync' = Scheduled(t),
         UNCHANGED <<docs, recorded, instance, build, removing>>,
         unsure \subseteq unsure', Quiet /\ Sure => Sure',
         ~Quiet => "overlap" \in unsure' /\ "instance" \in unsure'
  PROVE  /\ sync'[t].at = "read"
         /\ \A i \in Sync \ {t} : sync'[i].at = sync[i].at /\ sync'[i].model = sync[i].model
         /\ ThreadsInv' /\ AloneInv' /\ SureInv'
         /\ "instance" \notin unsure' =>
              /\ Quiet /\ Sure' /\ ~Quiet' /\ "instance" \notin unsure
              /\ instance # NoInstance => Knows'
<1>1. /\ VectorTyped /\ sync[t].at = "idle"
      /\ Quiet => Working = {} /\ build = NoBuild /\ ~removing
  BY DEF VectorInv, Working, Quiet
<1>2. /\ sync'[t].at = "read" /\ sync'[t].alone = Quiet
      /\ \A i \in Sync \ {t} :
           /\ sync'[i].alone = FALSE /\ sync'[i].at = sync[i].at
           /\ sync'[i].target = sync[i].target /\ sync'[i].model = sync[i].model
           /\ sync'[i].new = sync[i].new
  BY <1>1, ScheduledTyped
<1>3. t \in Working' /\ (Quiet => Working' = {t})
  BY <1>1, <1>2 DEF Working
<1>4. Found' = Found /\ Knows' = Knows /\ ~Quiet'
  BY <1>3 DEF Found, Knows, Quiet
<1>5. ThreadsInv'
  <2>1. \A i \in Sync : Ids(sync[i].target)' = Ids(sync'[i].target)
    BY DEF Ids
  <2>2. ~HasModel(t)' /\ ~HasOpened(t)'
    BY <1>2 DEF HasModel, HasOpened
  <2>3. \A i \in Sync \ {t} : HasModel(i)' = HasModel(i) /\ HasOpened(i)' = HasOpened(i)
    BY <1>2 DEF HasModel, HasOpened
  <2>4. ASSUME NEW i \in Sync
        PROVE  /\ sync'[i].at \in {"delete", "upsert"} => sync'[i].new \subseteq Ids(sync'[i].target)
               /\ HasModel(i)' => sync'[i].model \in Model
               /\ HasOpened(i)' => recorded # "no collection"
    <3>1. CASE i = t
      BY <1>2, <2>2, <3>1
    <3>2. CASE i # t
      BY <1>2, <2>3, <3>2 DEF VectorInv, ThreadsInv
    <3>. QED BY <3>1, <3>2
  <2>. QED BY <1>4, <2>1, <2>4 DEF VectorInv, ThreadsInv
<1>6. AloneInv'
  <2>1. ASSUME Quiet PROVE Progress(t)'
    BY <1>2 DEF Progress, HasModel, HasOpened
  <2>. QED BY <1>1, <1>2, <1>3, <2>1 DEF AloneInv
<1>7. SureInv'
  <2>. SUFFICES ASSUME Sure' PROVE SureInv'
    BY DEF SureInv
  <2>1. Quiet
    BY DEF Sure
  <2>. QED BY <1>1, <1>2, <1>3, <2>1 DEF SureInv
<1>8. ASSUME "instance" \notin unsure'
      PROVE  /\ Quiet /\ Sure' /\ "instance" \notin unsure
             /\ instance # NoInstance => Knows'
  <2>1. Quiet /\ "instance" \notin unsure
    BY <1>8
  <2>2. Sure /\ ~Dropping
    BY <1>1, <2>1 DEF VectorInv, InstanceInv, Dropping, Working
  <2>. QED BY <1>4, <2>1, <2>2 DEF VectorInv, InstanceInv
<1>. QED BY <1>2, <1>4, <1>5, <1>6, <1>7, <1>8

LEMMA ChangeKeeps ==
  ASSUME VectorInv, NEW t \in Sync, NEW new \in Services, Change(new, t), VectorTyped'
  PROVE  VectorInv'
<1>1. /\ t \notin Working /\ sync' = Scheduled(t)
      /\ UNCHANGED <<config, docs, recorded, instance, build, removing>>
      /\ unsure' = IF Quiet THEN unsure ELSE unsure \cup Overlap
  BY DEF Change, Schedule
<1>2. /\ unsure \subseteq unsure' /\ (Quiet /\ Sure => Sure') /\ Told' = Told
      /\ ~Quiet => "overlap" \in unsure' /\ "instance" \in unsure'
  BY <1>1 DEF Overlap, Sure, Told
<1>3. /\ sync'[t].at = "read"
      /\ \A i \in Sync \ {t} : sync'[i].at = sync[i].at /\ sync'[i].model = sync[i].model
      /\ ThreadsInv' /\ AloneInv' /\ SureInv'
      /\ "instance" \notin unsure' =>
           /\ Quiet /\ Sure' /\ ~Quiet' /\ "instance" \notin unsure
           /\ instance # NoInstance => Knows'
  BY <1>1, <1>2, StartedSync
<1>4. Found' = Found
  BY <1>1 DEF Found
<1>5. ModelsInv'
  BY <1>1, <1>2, <1>3, <1>4 DEF VectorInv, ModelsInv, HasModel
<1>6. InstanceInv'
  <2>. SUFFICES ASSUME "instance" \notin unsure' PROVE InstanceInv'
    BY DEF InstanceInv
  <2>1. ~Replacing
    BY <1>3 DEF Quiet, Working, Replacing
  <2>2. Outdated => Outdated'
    BY <1>1, <1>3 DEF Outdated, HasOpened
  <2>3. instance # NoInstance /\ Told => instance.model = config \/ Found = {} \/ Outdated
    BY <1>3, <2>1 DEF VectorInv, InstanceInv
  <2>. QED BY <1>1, <1>2, <1>3, <1>4, <2>2, <2>3 DEF InstanceInv
<1>. QED BY <1>3, <1>5, <1>6 DEF VectorInv

LEMMA SetModelKeeps ==
  ASSUME VectorInv, NEW t \in Sync, NEW model \in Model, SetModel(model, t), VectorTyped'
  PROVE  VectorInv'
<1>1. /\ t \notin Working /\ sync' = Scheduled(t) /\ model # config /\ config' = model
      /\ UNCHANGED <<file, docs, recorded, instance, build, removing>>
      /\ unsure' = unsure \cup (IF Quiet THEN {} ELSE Overlap) \cup Unnoticed(model, Quiet)
  BY DEF SetModel
<1>2. /\ unsure \subseteq unsure' /\ (Quiet /\ Sure => Sure')
      /\ ~Quiet => "overlap" \in unsure' /\ "instance" \in unsure'
  BY <1>1 DEF Overlap, Sure, Unnoticed
<1>3. /\ sync'[t].at = "read"
      /\ \A i \in Sync \ {t} : sync'[i].at = sync[i].at /\ sync'[i].model = sync[i].model
      /\ ThreadsInv' /\ AloneInv' /\ SureInv'
      /\ "instance" \notin unsure' =>
           /\ Quiet /\ Sure' /\ ~Quiet' /\ "instance" \notin unsure
           /\ instance # NoInstance => Knows'
  BY <1>1, <1>2, StartedSync
<1>4. Found' = Found
  BY <1>1 DEF Found
<1>5. ASSUME Told'
      PROVE  /\ build = NoBuild /\ \A i \in Sync : ~HasModel(i)' /\ ~HasOpened(i)'
             /\ Found = {} \/ recorded \in Model \ {model}
  <2>1. Quiet /\ (Found = {} \/ recorded \notin {model, "unrecorded"})
    BY <1>1, <1>5 DEF Told, Unnoticed
  <2>2. build = NoBuild /\ Working = {}
    BY <2>1 DEF Quiet
  <2>3. \A i \in Sync : sync[i].at = "idle"
    BY <2>2 DEF Working
  <2>4. \A i \in Sync : ~HasModel(i)' /\ ~HasOpened(i)'
    BY <1>3, <2>3 DEF HasModel, HasOpened
  <2>5. Found = {} \/ recorded \in Model \ {model}
    BY <2>1 DEF VectorInv, VectorTyped, ThreadsInv
  <2>. QED BY <2>2, <2>4, <2>5
<1>6. ModelsInv'
  BY <1>1, <1>4, <1>5 DEF ModelsInv
<1>7. InstanceInv'
  <2>. SUFFICES ASSUME "instance" \notin unsure' PROVE InstanceInv'
    BY DEF InstanceInv
  <2>1. Told' => Found' = {} \/ Outdated'
    BY <1>1, <1>4, <1>5 DEF Outdated
  <2>. QED BY <1>1, <1>3, <2>1 DEF InstanceInv
<1>. QED BY <1>3, <1>6, <1>7 DEF VectorInv

LEMMA WarmUpKeeps ==
  ASSUME VectorInv, NEW t \in Sync, WarmUp(t), VectorTyped'
  PROVE  VectorInv'
<1>1. /\ docs' = (IF HasQueries THEN docs ELSE NoDocs)
      /\ recorded' = (IF HasQueries THEN recorded ELSE "no collection")
      /\ sync' = [i \in Sync |-> IF i = t THEN [Idle EXCEPT !.at = "read", !.alone = TRUE] ELSE Idle]
      /\ instance' = NoInstance /\ build' = NoBuild /\ removing' = FALSE
      /\ unsure' = (IF HasQueries THEN unsure ELSE {}) \cup (IF removing THEN Failed ELSE {})
      /\ UNCHANGED <<file, config>>
  BY DEF WarmUp
<1>2. /\ sync'[t].at = "read" /\ sync'[t].alone = TRUE
      /\ \A i \in Sync \ {t} : sync'[i].at = "idle" /\ sync'[i].alone = FALSE
  BY <1>1 DEF Idle
<1>3. Working' = {t} /\ \A i \in Sync : ~HasModel(i)' /\ ~HasOpened(i)'
  BY <1>2 DEF Working, HasModel, HasOpened
<1>4. HasQueries \/ Found' = {}
  BY <1>1 DEF Found, NoDocs
<1>5. HasQueries => Found' = Found /\ docs' = docs /\ recorded' = recorded
  BY <1>1 DEF Found
<1>6. HasQueries => (Told' => Told)
  BY <1>1 DEF Told
<1>7. ThreadsInv'
  <2>1. \A i \in Sync : sync'[i].at \notin {"delete", "upsert"}
    BY <1>2
  <2>2. recorded' = "no collection" => Found' = {}
    BY <1>4, <1>5 DEF VectorInv, ThreadsInv
  <2>. QED BY <1>1, <1>3, <2>1, <2>2, Nothings DEF ThreadsInv
<1>8. ModelsInv'
  BY <1>1, <1>3, <1>4, <1>5, <1>6 DEF VectorInv, ModelsInv
<1>9. AloneInv'
  <2>1. Progress(t)'
    BY <1>2 DEF Progress, HasModel, HasOpened
  <2>. QED BY <1>1, <1>2, <1>3, <2>1 DEF AloneInv
<1>10. SureInv'
  BY <1>1, <1>2, <1>3 DEF SureInv
<1>11. InstanceInv'
  <2>1. "instance" \notin unsure' => Sure'
    BY <1>1 DEF VectorInv, InstanceInv, Sure, Failed
  <2>. QED BY <1>1, <2>1 DEF InstanceInv
<1>. QED BY <1>7, <1>8, <1>9, <1>10, <1>11 DEF VectorInv

(* What joins the syncs leaves them as they are, but none alone.            *)
LEMMA Joining ==
  ASSUME VectorInv, sync' = [t \in Sync |-> [sync[t] EXCEPT !.alone = FALSE]]
  PROVE  /\ Working' = Working /\ AloneInv'
         /\ \A i \in Sync :
              /\ sync'[i].at = sync[i].at /\ sync'[i].model = sync[i].model
              /\ HasModel(i)' = HasModel(i) /\ HasOpened(i)' = HasOpened(i)
              /\ sync'[i].at \in {"delete", "upsert"} => sync'[i].new \subseteq Ids(sync'[i].target)
              /\ HasModel(i)' => sync'[i].model \in Model
              /\ HasOpened(i)' => recorded # "no collection"
         /\ Working = {} => \A i \in Working' : sync'[i].alone
<1>1. \A i \in Sync :
        /\ sync'[i].alone = FALSE
        /\ sync'[i].at = sync[i].at /\ sync'[i].target = sync[i].target
        /\ sync'[i].model = sync[i].model
        /\ sync'[i].old = sync[i].old /\ sync'[i].new = sync[i].new
  BY JoinedTyped DEF VectorInv
<1>2. Working' = Working /\ AloneInv'
  BY <1>1 DEF Working, AloneInv
<1>3. \A i \in Sync : HasModel(i)' = HasModel(i) /\ HasOpened(i)' = HasOpened(i)
  BY <1>1 DEF HasModel, HasOpened
<1>4. \A i \in Sync :
        /\ sync[i].at \in {"delete", "upsert"} => sync[i].new \subseteq Ids(sync[i].target)
        /\ HasModel(i) => sync[i].model \in Model
        /\ HasOpened(i) => recorded # "no collection"
  BY DEF VectorInv, ThreadsInv
<1>. QED BY <1>1, <1>2, <1>3, <1>4

LEMMA BuildOpenKeeps ==
  ASSUME VectorInv, BuildOpen, VectorTyped'
  PROVE  VectorInv'
<1>1. /\ instance = NoInstance /\ build = NoBuild /\ file # Nothing
      /\ recorded' = Recorded(config)
      /\ build' = [at |-> IF Found = {} THEN "add" ELSE "load", services |-> file, model |-> config]
      /\ sync' = [t \in Sync |-> [sync[t] EXCEPT !.alone = FALSE]]
      /\ unsure' = IF Working = {} /\ ~removing THEN unsure ELSE unsure \cup Overlap
      /\ UNCHANGED <<file, config, docs, instance, removing>>
  BY DEF BuildOpen
<1>2. config \in Model /\ "no collection" \notin Model
  BY VectorIndexAssumption DEF VectorInv, VectorTyped
<1>3. /\ recorded' # "no collection"
      /\ recorded # "no collection" => recorded' = recorded
  BY <1>1, <1>2 DEF Recorded
<1>4. build'.at # "idle" /\ build' # NoBuild /\ build'.model = config /\ build'.services = file
  BY <1>1, Nothings
<1>5. Told' = Told /\ Found' = Found /\ Texts' = Texts /\ Models' = Models
  BY <1>1 DEF Told, Overlap, Found, Texts, Models
<1>6. ThreadsInv'
  <2>1. \A i \in Sync : Ids(sync[i].target)' = Ids(sync'[i].target)
    BY DEF Ids
  <2>. QED BY <1>1, <1>2, <1>3, <1>4, <2>1, Joining DEF ThreadsInv
<1>7. ModelsInv'
  <2>. SUFFICES ASSUME Told PROVE ModelsInv'
    BY <1>5 DEF ModelsInv
  <2>1. \A i \in Sync : HasModel(i)' => sync'[i].model = config
    BY <1>1, Joining DEF VectorInv, ModelsInv
  <2>2. recorded' \in Model \ {config} \/ \A s \in Found : docs[s].model = config
    BY <1>3 DEF VectorInv, ModelsInv, ThreadsInv
  <2>. QED BY <1>1, <1>4, <1>5, <2>1, <2>2 DEF ModelsInv
<1>8. Working' = Working /\ AloneInv'
  BY <1>1, Joining
<1>9. Sure' => Sure /\ Working = {} /\ ~removing
  BY <1>1 DEF Sure, Overlap
<1>10. SureInv'
  <2>. SUFFICES ASSUME Sure' PROVE SureInv'
    BY DEF SureInv
  <2>1. Texts /\ Models
    BY <1>1, <1>9 DEF VectorInv, SureInv
  <2>. QED BY <1>1, <1>4, <1>5, <1>8, <1>9, <2>1 DEF SureInv
<1>11. InstanceInv'
  <2>1. "instance" \notin unsure' => Sure'
    BY <1>1 DEF VectorInv, InstanceInv, Sure, Overlap
  <2>. QED BY <1>1, <2>1 DEF InstanceInv
<1>. QED BY <1>6, <1>7, <1>8, <1>10, <1>11 DEF VectorInv

(* No sync is alone beside a search that makes the instance.                *)
LEMMA NoneAlone ==
  ASSUME VectorInv, build # NoBuild \/ removing, UNCHANGED sync
  PROVE  /\ AloneInv' /\ Working' = Working
         /\ \A i \in Sync : HasModel(i)' = HasModel(i) /\ HasOpened(i)' = HasOpened(i)
<1>1. \A i \in Sync : ~sync[i].alone
  BY DEF VectorInv, AloneInv
<1>. QED BY <1>1 DEF AloneInv, Working, HasModel, HasOpened

LEMMA BuildAddKeeps ==
  ASSUME VectorInv, BuildAdd, VectorTyped'
  PROVE  VectorInv'
<1>1. /\ build.at = "add" /\ build # NoBuild /\ VectorTyped
      /\ docs' = [s \in Id |->
                    IF s \in Ids(build.services) \ Found
                    THEN [text |-> build.services[s], model |-> build.model] ELSE docs[s]]
      /\ build' = [build EXCEPT !.at = "load"]
      /\ UNCHANGED <<file, config, recorded, sync, instance, removing, unsure>>
  BY Nothings DEF BuildAdd, VectorInv
<1>2. /\ build'.at = "load" /\ build'.services = build.services /\ build'.model = build.model
      /\ build' # NoBuild
  BY <1>1, Nothings DEF VectorTyped, AnyBuild
<1>3. build.model \in Model /\ recorded # "no collection" /\ instance = NoInstance
  BY <1>1 DEF VectorInv, ThreadsInv
<1>4. Told' = Told /\ Sure' = Sure
  BY <1>1 DEF Told, Sure
<1>5. AloneInv' /\ Working' = Working
  BY <1>1, NoneAlone
<1>6. ThreadsInv'
  BY <1>1, <1>2, <1>3 DEF VectorInv, ThreadsInv, HasModel, HasOpened, Ids
<1>7. ModelsInv'
  <2>. SUFFICES ASSUME Told PROVE ModelsInv'
    BY <1>4 DEF ModelsInv
  <2>1. build.model = config
    BY <1>1 DEF VectorInv, ModelsInv
  <2>2. \A s \in Found' : docs'[s].model = config \/ (s \in Found /\ docs'[s] = docs[s])
    BY <1>1, <2>1 DEF Found
  <2>. QED BY <1>1, <1>2, <2>1, <2>2 DEF VectorInv, ModelsInv, HasModel
<1>8. SureInv'
  <2>. SUFFICES ASSUME Sure PROVE SureInv'
    BY <1>4 DEF SureInv
  <2>1. Working = {} /\ ~removing /\ build.services = file
    BY <1>1 DEF VectorInv, SureInv
  <2>2. ASSUME file # Nothing PROVE Texts' /\ Models'
    <3>1. Texts /\ Models
      BY <2>1, <2>2 DEF VectorInv, SureInv
    <3>2. Ids(file) \ Found = {}
      BY <1>1, <3>1, DocFacts DEF Texts, Ids
    <3>3. \A s \in Id : docs'[s] = docs[s]
      BY <1>1, <2>1, <3>2
    <3>. QED BY <1>1, <1>4, <3>1, <3>3 DEF Texts, Models, Found
  <2>. QED BY <1>1, <1>2, <1>5, <2>1, <2>2 DEF SureInv
<1>9. InstanceInv'
  BY <1>1, <1>3, <1>4 DEF VectorInv, InstanceInv
<1>. QED BY <1>5, <1>6, <1>7, <1>8, <1>9 DEF VectorInv

LEMMA BuildLoadKeeps ==
  ASSUME VectorInv, BuildLoad, VectorTyped'
  PROVE  VectorInv'
<1>1. /\ build.at = "load" /\ build # NoBuild /\ file # Nothing /\ build' = NoBuild
      /\ instance' = [knows |-> file, model |-> build.model]
      /\ UNCHANGED <<file, config, docs, recorded, sync, removing, unsure>>
  BY Nothings DEF BuildLoad
<1>2. Told' = Told /\ Sure' = Sure /\ Found' = Found /\ Texts' = Texts /\ Models' = Models
  BY <1>1 DEF Told, Sure, Found, Texts, Models
<1>3. AloneInv' /\ Working' = Working
  BY <1>1, NoneAlone
<1>4. ThreadsInv' /\ ModelsInv'
  BY <1>1, <1>2 DEF VectorInv, ThreadsInv, ModelsInv, HasModel, HasOpened, Ids
<1>5. Sure => Working = {} /\ ~removing /\ Texts /\ Models
  BY <1>1 DEF VectorInv, SureInv
<1>6. SureInv'
  BY <1>1, <1>2, <1>3, <1>5 DEF SureInv
<1>7. InstanceInv'
  <2>. SUFFICES ASSUME "instance" \notin unsure PROVE InstanceInv'
    BY <1>1 DEF InstanceInv
  <2>1. Sure
    BY DEF VectorInv, InstanceInv
  <2>2. Knows'
    BY <1>1, <1>5, <2>1 DEF Knows, Texts, Found
  <2>3. Told => build.model = config
    BY <1>1 DEF VectorInv, ModelsInv
  <2>. QED BY <1>1, <1>2, <2>1, <2>2, <2>3 DEF InstanceInv
<1>. QED BY <1>3, <1>4, <1>6, <1>7 DEF VectorInv

LEMMA BuildFailsKeeps ==
  ASSUME VectorInv, BuildFails, VectorTyped'
  PROVE  VectorInv'
<1>1. /\ build.at = "load" /\ build # NoBuild /\ file = Nothing /\ build' = NoBuild
      /\ UNCHANGED <<file, config, docs, recorded, sync, instance, removing, unsure>>
  BY Nothings DEF BuildFails
<1>2. Told' = Told /\ Sure' = Sure /\ Found' = Found
  BY <1>1 DEF Told, Sure, Found
<1>3. AloneInv' /\ Working' = Working
  BY <1>1, NoneAlone
<1>4. ThreadsInv' /\ ModelsInv'
  BY <1>1, <1>2 DEF VectorInv, ThreadsInv, ModelsInv, HasModel, HasOpened, Ids
<1>5. SureInv'
  BY <1>1, <1>2, <1>3 DEF VectorInv, SureInv
<1>6. InstanceInv'
  BY <1>1, <1>2 DEF VectorInv, ThreadsInv, InstanceInv
<1>. QED BY <1>3, <1>4, <1>5, <1>6 DEF VectorInv

LEMMA PurgeKeeps ==
  ASSUME VectorInv, Purge, VectorTyped'
  PROVE  VectorInv'
<1>1. /\ ~removing /\ build = NoBuild /\ instance' = NoInstance /\ removing' = TRUE
      /\ sync' = [t \in Sync |-> [sync[t] EXCEPT !.alone = FALSE]]
      /\ UNCHANGED <<file, config, build>>
  BY DEF Purge, Dropped
<1>2. \/ /\ docs' = NoDocs /\ recorded' = Recorded("unrecorded")
         /\ unsure' = IF Quiet THEN unsure ELSE unsure \cup Overlap
      \/ docs' = docs /\ recorded' = recorded /\ unsure' = unsure \cup Failed
  BY DEF Purge
<1>3. Found' = {} \/ (Found' = Found /\ docs' = docs /\ recorded' = recorded)
  BY <1>2 DEF Found, NoDocs
<1>4. /\ recorded # "no collection" => recorded' = recorded
      /\ recorded' = "no collection" => recorded = "no collection"
  BY <1>2 DEF Recorded
<1>5. Told' = Told /\ (Sure' => Sure /\ Quiet)
  BY <1>2 DEF Told, Sure, Overlap, Failed
<1>6. ThreadsInv'
  <2>1. \A i \in Sync : Ids(sync[i].target)' = Ids(sync'[i].target)
    BY DEF Ids
  <2>2. recorded' = "no collection" => Found' = {}
    BY <1>3, <1>4 DEF VectorInv, ThreadsInv
  <2>. QED BY <1>1, <1>4, <2>1, <2>2, Joining DEF ThreadsInv
<1>7. ModelsInv'
  <2>. SUFFICES ASSUME Told PROVE ModelsInv'
    BY <1>5 DEF ModelsInv
  <2>1. \A i \in Sync : HasModel(i)' => sync'[i].model = config
    BY <1>1, Joining DEF VectorInv, ModelsInv
  <2>. QED BY <1>1, <1>3, <2>1 DEF VectorInv, ModelsInv
<1>8. Working' = Working /\ AloneInv'
  BY <1>1, Joining
<1>9. SureInv'
  BY <1>1, <1>5, <1>8 DEF SureInv, Quiet
<1>10. InstanceInv'
  <2>1. "instance" \notin unsure' => Sure'
    BY <1>2 DEF VectorInv, InstanceInv, Sure, Overlap, Failed
  <2>. QED BY <1>1, <2>1 DEF InstanceInv
<1>. QED BY <1>6, <1>7, <1>8, <1>9, <1>10 DEF VectorInv

LEMMA RemoveKeeps ==
  ASSUME VectorInv, Remove, VectorTyped'
  PROVE  VectorInv'
<1>. DEFINE quiet == Working = {} /\ build = NoBuild
<1>1. /\ removing /\ removing' = FALSE /\ file' = Nothing /\ config' = DefaultModel
      /\ unsure' = unsure \cup (IF quiet THEN {} ELSE Overlap) \cup Unnoticed(DefaultModel, quiet)
      /\ UNCHANGED <<docs, recorded, sync, instance, build>>
  BY DEF Remove
<1>2. /\ Sure' => Sure /\ quiet
      /\ "instance" \notin unsure' => "instance" \notin unsure /\ quiet
      /\ quiet /\ Sure => Sure'
      /\ Told' => /\ Told /\ quiet
                  /\ DefaultModel = config \/ Found = {} \/ recorded \notin {DefaultModel, "unrecorded"}
  BY <1>1 DEF Sure, Told, Overlap, Unnoticed
<1>3. AloneInv' /\ Working' = Working
  BY <1>1, NoneAlone
<1>4. Found' = Found
  BY <1>1 DEF Found
<1>5. ThreadsInv'
  BY <1>1, <1>4 DEF VectorInv, ThreadsInv, HasModel, HasOpened, Ids
<1>6. ModelsInv'
  <2>. SUFFICES ASSUME Told' PROVE ModelsInv'
    BY DEF ModelsInv
  <2>1. \A i \in Sync : ~HasModel(i)'
    BY <1>1, <1>2 DEF Working, HasModel
  <2>2. CASE DefaultModel = config
    BY <1>1, <1>2, <1>4, <2>1, <2>2 DEF VectorInv, ModelsInv
  <2>3. CASE Found = {} \/ recorded \notin {DefaultModel, "unrecorded"}
    <3>1. Found = {} \/ recorded \in Model \ {DefaultModel}
      BY <2>3 DEF VectorInv, VectorTyped, ThreadsInv
    <3>. QED BY <1>1, <1>2, <1>4, <2>1, <3>1 DEF ModelsInv
  <2>. QED BY <1>2, <2>2, <2>3
<1>7. SureInv'
  BY <1>1, <1>2, <1>3 DEF VectorInv, SureInv
<1>8. InstanceInv'
  <2>1. "instance" \notin unsure' => Sure' /\ instance = NoInstance
    BY <1>1, <1>2 DEF VectorInv, InstanceInv, SureInv
  <2>. QED BY <1>1, <2>1 DEF InstanceInv
<1>. QED BY <1>3, <1>5, <1>6, <1>7, <1>8 DEF VectorInv

LEMMA VectorStep ==
  ASSUME VectorInv, [VectorNext]_vectorVars
  PROVE  VectorInv'
<1>1. CASE UNCHANGED vectorVars
  <2>1. UNCHANGED vectorVars
    BY <1>1
  <2>2. VectorTyped' = VectorTyped /\ ThreadsInv' = ThreadsInv /\ ModelsInv' = ModelsInv
    BY <2>1 DEF vectorVars, VectorTyped, ThreadsInv, ModelsInv, HasModel, HasOpened, Told, Found, Ids
  <2>3. /\ Working' = Working /\ Found' = Found /\ Sure' = Sure /\ Told' = Told
        /\ Texts' = Texts /\ Models' = Models
    BY <2>1 DEF vectorVars, Working, Found, Sure, Told, Texts, Models
  <2>4. AloneInv' = AloneInv
    <3>1. \A t \in Sync : Progress(t)' = Progress(t)
      BY <2>1, <2>3 DEF vectorVars, Progress, HasModel, HasOpened, Stale, Fresh, Ids
    <3>. QED BY <2>1, <2>3, <3>1 DEF vectorVars, AloneInv
  <2>5. SureInv' = SureInv
    BY <2>1, <2>3 DEF vectorVars, SureInv
  <2>6. InstanceInv' = InstanceInv
    BY <2>1, <2>3 DEF vectorVars, InstanceInv, Knows, Dropping, Replacing, Outdated, HasOpened, Quiet
  <2>. QED BY <2>2, <2>4, <2>5, <2>6 DEF VectorInv
<1>2. CASE VectorNext
  <2>1. VectorTyped'
    BY <1>2, TypedStep DEF VectorInv
  <2>. QED BY <1>2, <2>1, ChangeKeeps, SetModelKeeps, ReadServicesKeeps, ReadModelKeeps,
              OpenCollectionKeeps, CompareKeeps, DeleteIdsKeeps, UpsertKeeps, InvalidateKeeps,
              SyncFailsKeeps, WarmUpKeeps, BuildOpenKeeps, BuildAddKeeps, BuildLoadKeeps,
              BuildFailsKeeps, PurgeKeeps, RemoveKeeps
          DEF VectorNext, SyncStep
<1>. QED BY <1>1, <1>2

LEMMA SpecVectorInv == VectorSpec => []VectorInv
<1>1. VectorInit => VectorInv
  BY InitVector
<1>2. VectorInv /\ [VectorNext]_vectorVars => VectorInv'
  BY VectorStep
<1>. QED BY <1>1, <1>2, PTL DEF VectorSpec

(* The files, the collection, the syncs, the instance and what is known of  *)
(* them have their types.                                                  *)
THEOREM SpecVectorTypeOK == VectorSpec => []VectorTypeOK
<1>1. VectorInv => VectorTypeOK
  BY DEF VectorInv, VectorTyped, VectorTypeOK, AnySync, AnyInstance, AnyBuild
<1>. QED BY <1>1, SpecVectorInv, PTL

(* sync_vector: with every sync ended, and one that was alone after any      *)
(* that overlapped or failed, the collection has the texts of service.json. *)
THEOREM SpecIndexFollows == VectorSpec => []IndexFollows
<1>1. VectorInv => IndexFollows
  BY DEF VectorInv, SureInv, Sure, IndexFollows, Settling, Quiet, Texts
<1>. QED BY <1>1, SpecVectorInv, PTL

(* sync_vector: it is then all embedded with the model of the dataset.      *)
THEOREM SpecModelFollows == VectorSpec => []ModelFollows
<1>1. VectorInv => ModelFollows
  BY DEF VectorInv, SureInv, Sure, ModelFollows, Settling, Quiet, Models, Told
<1>. QED BY <1>1, SpecVectorInv, PTL

(* _get_vector: a search instance made before agrees with the collection.   *)
THEOREM SpecInstanceFollows == VectorSpec => []InstanceFollows
<1>1. VectorInv => InstanceFollows
  <2>. SUFFICES ASSUME VectorInv, Settling, "instance" \notin unsure, instance # NoInstance
                PROVE  /\ Knows /\ (Told => instance.model = config)
    BY DEF InstanceFollows, Knows, Told
  <2>1. ~Dropping
    BY DEF Settling, Quiet, Working, Dropping
  <2>. QED BY <2>1 DEF VectorInv, InstanceInv, Settling
<1>. QED BY <1>1, SpecVectorInv, PTL
=============================================================================
