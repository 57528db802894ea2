---------------------------- MODULE TaxonomyTree ----------------------------
(***************************************************************************)
(* How TaxonomyBuilder grows the tree of a dataset and keeps it in files.  *)
(*                                                                         *)
(* A node with too many services is given to NodeSplitter: a language      *)
(* model designs subcategories, every service of the node is classified    *)
(* into them, and the design is refined until all services fit or the      *)
(* rounds are used up.  What a model answers is open here, except for what *)
(* the code checks of the answer.  After each split the builder writes its *)
(* files; a later build may continue from them.                            *)
(*                                                                         *)
(* A list of categories or services is a set: its order, and an answer     *)
(* that names one category twice, are left out.  So are the prompts, the   *)
(* keywords and assignments.json, from which nothing of the tree is read,  *)
(* and what class.json says of a category.                                 *)
(* All builds use the same parameters; with others, "yes" acts like "no".  *)
(* One build runs at a time; TaxonomyBuild has the jobs and their races.   *)
(***************************************************************************)
EXTENDS Integers, FiniteSets

CONSTANTS
  Service,          \* what service.json may hold: names and descriptions
  Category,         \* ids a language model may give a subcategory
  Root,             \* the node "root"
  Absent, Torn,     \* a file that does not exist, one a crash cut short
  Whole,            \* a class.json that can be read
  MaxServiceSize, MaxDepth, DeleteThreshold, MaxRefine,  \* of the config
  GenericNum, GenericDen,                                \* generic_ratio
  MaxBuilds, MaxAdditions,  \* bounds
  MaxFaults                 \* the changes of the services and the crashes

ASSUME TreeAssumption ==
  /\ Root \notin Category /\ IsFiniteSet(Category) /\ IsFiniteSet(Service)
  /\ {MaxServiceSize, MaxDepth, DeleteThreshold, MaxRefine, GenericNum} \subseteq Nat
  /\ GenericDen \in Nat \ {0}
  /\ \A names \in SUBSET Service : names \notin {Absent, Torn}

VARIABLES
  services, \* service.json
  disk,     \* taxonomy.json, class.json and the service_hash in build_config.json
  job,      \* the builder
  used      \* how many builds and faults there have been

treeVars == <<services, disk, job, used>>

Node == Category \cup {Root}

(* The fields of, collided and stretched are history: the services the tree *)
(* was begun with; whether a model reused the id of a category there was;   *)
(* whether a build continued the tree with other services.                  *)
Tree(children, held, status, of, collided, stretched) ==
  [children |-> children, services |-> held, status |-> status,
   of |-> of, collided |-> collided, stretched |-> stretched]

Readable(file) == file \notin {Absent, Torn}

NoFiles == [tree |-> Absent, names |-> Absent, stamp |-> Absent]

NoJob == [at |-> "idle", index |-> {}, tree |-> Absent, queue |-> {},
          node |-> <<Root, 0>>, subs |-> {}, round |-> 0]

TreeInit ==
  /\ services \in SUBSET Service
  /\ disk = NoFiles
  /\ job = NoJob
  /\ used = [builds |-> 0, faults |-> 0]

Count(what) == used' = [used EXCEPT ![what] = @ + 1]
---------------------------------------------------------------------------
(* The nodes d edges below n.                                              *)
Level(t, n) ==
  LET level[d \in Nat] ==
        IF d = 0 THEN {n} ELSE UNION {t.children[m] : m \in level[d - 1]}
  IN  level

Reached(t) == UNION {Level(t, Root)[d] : d \in 0..Cardinality(Node)}

(* The services a search that follows every branch comes across.           *)
Listed(t) == UNION {t.services[n] : n \in Reached(t)}

Oversized(t, n) == Cardinality(t.services[n]) > MaxServiceSize

(* _find_pending_nodes.  In which order nodes are split is left open.       *)
Pending(t) ==
  {q \in Node \X (0..(MaxDepth - 1)) :
     /\ q[2] <= Cardinality(Node)
     /\ q[1] \in Level(t, Root)[q[2]]
     /\ t.children[q[1]] = {} /\ Oversized(t, q[1])}
---------------------------------------------------------------------------
(* The service list changes, behind the back of a build.                   *)
ChangeServices ==
  /\ used.faults < MaxFaults
  /\ services' \in (SUBSET Service) \ {services}
  /\ Count("faults")
  /\ UNCHANGED <<disk, job>>

(* _evaluate_resume                                                         *)
Decision(resume) ==
  IF resume # "yes" \/ ~Readable(disk.stamp) \/ ~Readable(disk.tree) THEN "rebuild"
  ELSE IF disk.tree.status = "complete" THEN "skip" ELSE "resume"

Starting(resume, decision) ==
  /\ job.at = "idle" /\ used.builds < MaxBuilds
  /\ Decision(resume) = decision
  /\ Count("builds")
  /\ UNCHANGED services

Skip ==
  /\ Starting("yes", "skip")
  /\ UNCHANGED <<disk, job>>

(* _load_existing_output raises if class.json is cut short.                 *)
Resume ==
  /\ Starting("yes", "resume")
  /\ job' = IF Readable(disk.names)
            THEN [NoJob EXCEPT !.at = "load", !.tree = disk.tree]
            ELSE NoJob
  /\ UNCHANGED disk

(* _clean_output                                                            *)
Rebuild(resume) ==
  /\ Starting(resume, "rebuild")
  /\ disk' = NoFiles
  /\ job' = [NoJob EXCEPT !.at = "load"]

(* _init_taxonomy                                                           *)
Planted(index) ==
  Tree([n \in {Root} |-> {}], [n \in {Root} |-> index], "bfs", index, FALSE, FALSE)

Continued(t, index) ==
  [t EXCEPT !.stretched = @ \/ index # t.of]

(* A tree whose splitting was finished goes on to the cross-domain phase.   *)
LoadIndex ==
  /\ job.at = "load"
  /\ LET t == IF job.tree = Absent THEN Planted(services) ELSE Continued(job.tree, services)
     IN  job' = [job EXCEPT
           !.index = services, !.tree = t,
           !.at = IF t.status = "bfs" THEN "save_tree" ELSE "cross",
           !.queue = IF t.status = "bfs" THEN Pending(t) ELSE {}]
  /\ UNCHANGED <<services, disk, used>>
---------------------------------------------------------------------------
(* The services of the node that are in the index.                          *)
ToSplit(q) == job.tree.services[q[1]] \cap job.index

SkipEmpty ==
  /\ job.at = "split"
  /\ \E q \in job.queue :
       /\ ToSplit(q) = {}
       /\ job' = [job EXCEPT !.queue = @ \ {q}]
  /\ UNCHANGED <<services, disk, used>>

(* _parse_categories of a design: some category at least, and ids nothing   *)
(* compares with those of the tree.                                        *)
Designs == (SUBSET Category) \ {{}}

(* A redesign of the root that fails, or has too few categories, is ignored. *)
Redesigned(subs) == {subs} \cup {d \in Designs : Cardinality(d) >= 3}

RootDesigns == UNION {Redesigned(subs) : subs \in Designs}

(* design_categories; if the model does not answer, the build gives up.      *)
Design ==
  /\ job.at = "split"
  /\ \E q \in job.queue : \E subs \in IF q[1] = Root THEN RootDesigns ELSE Designs :
       /\ ToSplit(q) # {}
       /\ job' = [job EXCEPT !.queue = @ \ {q}, !.node = q, !.subs = subs, !.round = 1,
                            !.at = "classify"]
  /\ UNCHANGED <<services, disk, used>>

(* The share of the subcategories more than which make a service generic.   *)
GenericThreshold(subs) ==
  LET share == (Cardinality(subs) * GenericNum) \div GenericDen
  IN  IF share > 1 THEN share ELSE 1

Generic(answer, subs) ==
  {s \in DOMAIN answer : Cardinality(answer[s]) > GenericThreshold(subs)}

Unclassified(answer) == {s \in DOMAIN answer : answer[s] = {}}

Settled(answer, subs) == Generic(answer, subs) = {} /\ Unclassified(answer) = {}

(* _finalize_assignments: generic services go back to the node, and so do   *)
(* those of which only the subcategories too small to keep want to know.    *)
Specific(answer, subs) ==
  [s \in DOMAIN answer |-> IF s \in Generic(answer, subs) THEN {} ELSE answer[s]]

Kept(answer, subs) ==
  {c \in subs : Cardinality({s \in DOMAIN answer : c \in Specific(answer, subs)[s]})
                 > DeleteThreshold}

(* The definitions whose names begin with Mutant are plausible mistakes,    *)
(* which the properties must catch.                                        *)
MutantFinal(answer, subs) ==
  [s \in DOMAIN answer \ Generic(answer, subs) |-> answer[s] \cap Kept(answer, subs)]

Final(answer, subs) ==
  [s \in DOMAIN answer |-> Specific(answer, subs)[s] \cap Kept(answer, subs)]

MutantApplied(t, n, subs, answer) ==
  [t EXCEPT
     !.children = [m \in DOMAIN @ \cup subs |->
                     IF m = n THEN subs ELSE IF m \in subs THEN {} ELSE @[m]],
     !.services = [m \in DOMAIN @ \cup subs |->
                     IF m = n THEN Unclassified(answer)
                     ELSE IF m \in subs THEN {s \in DOMAIN answer : m \in answer[s]} ELSE @[m]],
     !.collided = @ \/ subs \cap DOMAIN t.children # {}]

(* _apply_split_result: the node first, then an entry for each subcategory, *)
(* in the place of the entry there may have been.                          *)
Applied(t, n, subs, answer) ==
  [t EXCEPT
     !.children = [m \in DOMAIN @ \cup subs |->
                     IF m \in subs THEN {} ELSE IF m = n THEN subs ELSE @[m]],
     !.services = [m \in DOMAIN @ \cup subs |->
                     IF m \in subs THEN {s \in DOMAIN answer : m \in answer[s]}
                     ELSE IF m = n THEN Unclassified(answer) ELSE @[m]],
     !.collided = @ \/ subs \cap DOMAIN t.children # {}]

(* The oversized subcategories join the queue unless they are deep enough.  *)
Deeper(t, subs, depth) ==
  {<<n, depth>> : n \in {m \in subs : depth < MaxDepth /\ Oversized(t, m)}}

SplitDone(answer) ==
  LET kept == Kept(answer, job.subs)
      t    == Applied(job.tree, job.node[1], kept, Final(answer, job.subs))
  IN  job' = [job EXCEPT !.tree = t, !.at = "save_tree",
                         !.node = NoJob.node, !.subs = {}, !.round = 0,
                         !.queue = @ \cup Deeper(t, kept, job.node[2] + 1)]

(* _classify_single keeps the valid ids of an answer, and none if it fails. *)
Classified(subs) == SUBSET subs

(* Without a round of classification there is no answer for any service.    *)
Answers ==
  [IF MaxRefine = 0 THEN {} ELSE ToSplit(job.node) -> Classified(job.subs)]

(* refine_categories keeps what there is if the model gives nothing better. *)
Refined(subs) == {subs} \cup Designs

(* The loop ends when all services fit or the rounds are used up.           *)
Classify ==
  /\ job.at = "classify"
  /\ \E answer \in Answers :
       IF job.round >= MaxRefine \/ Settled(answer, job.subs)
       THEN SplitDone(answer)
       ELSE \E subs \in Refined(job.subs) : job' = [job EXCEPT !.subs = subs, !.round = @ + 1]
  /\ UNCHANGED <<services, disk, used>>

FinishBfs ==
  /\ job.at = "split" /\ job.queue = {}
  /\ job' = [job EXCEPT !.tree.status = "cross_domain", !.at = "save_tree"]
  /\ UNCHANGED <<services, disk, used>>

Domains(t) == t.children[Root]

(* The leaves of the domains that hold a service to ask about.              *)
LeafTasks(t) ==
  {n \in Reached(t) \ {Root} : t.children[n] = {} /\ t.services[n] \cap job.index # {}}

(* What two questions to the model come to: any service of the index, and   *)
(* any category there is, once there is a leaf and another domain.          *)
Additions(t) ==
  IF Cardinality(Domains(t)) < 2 \/ LeafTasks(t) = {} THEN {{}}
  ELSE {a \in SUBSET (job.index \X DOMAIN t.children) : Cardinality(a) <= MaxAdditions}

CrossDomain ==
  /\ job.at = "cross"
  /\ \E added \in Additions(job.tree) :
       job' = [job EXCEPT
         !.tree.status = "complete", !.at = "save_tree",
         !.tree.services = [n \in DOMAIN @ |-> @[n] \cup {s \in job.index : <<s, n>> \in added}]]
  /\ UNCHANGED <<services, disk, used>>
---------------------------------------------------------------------------
(* _save_output writes one file after the other.                            *)
SaveTree ==
  /\ job.at = "save_tree"
  /\ disk' = [disk EXCEPT !.tree = job.tree]
  /\ job' = [job EXCEPT !.at = "save_names"]
  /\ UNCHANGED <<services, used>>

SaveNames ==
  /\ job.at = "save_names"
  /\ disk' = [disk EXCEPT !.names = Whole]
  /\ job' = [job EXCEPT !.at = "save_stamp"]
  /\ UNCHANGED <<services, used>>

(* _compute_service_hash                                                    *)
MutantStamped == services

Stamped == job.index

SaveStamp ==
  /\ job.at = "save_stamp"
  /\ disk' = [disk EXCEPT !.stamp = Stamped]
  /\ job' = IF job.tree.status = "complete" THEN NoJob
            ELSE [job EXCEPT !.at = IF job.tree.status = "bfs" THEN "split" ELSE "cross"]
  /\ UNCHANGED <<services, used>>

(* The build is cancelled, or the design of a node fails: an exception ends *)
(* it and leaves the files of the last save.                                *)
GiveUp ==
  /\ job.at \in {"load", "split", "cross"}
  /\ job' = NoJob
  /\ UNCHANGED <<services, disk, used>>

(* The process ends, perhaps in the middle of a file.                       *)
Crash ==
  /\ used.faults < MaxFaults
  /\ \E torn \in BOOLEAN :
       disk' = IF ~torn THEN disk
               ELSE CASE job.at = "save_tree"  -> [disk EXCEPT !.tree = Torn]
                      [] job.at = "save_names" -> [disk EXCEPT !.names = Torn]
                      [] job.at = "save_stamp" -> [disk EXCEPT !.stamp = Torn]
                      [] OTHER -> disk
  /\ job' = NoJob
  /\ Count("faults")
  /\ UNCHANGED services
---------------------------------------------------------------------------
BuildStep ==
  \/ Skip \/ Resume
  \/ \E resume \in {"no", "keyword", "yes"} : Rebuild(resume)
  \/ LoadIndex \/ SkipEmpty \/ Design \/ Classify \/ FinishBfs \/ CrossDomain
  \/ SaveTree \/ SaveNames \/ SaveStamp \/ GiveUp \/ ChangeServices

TreeSpec == TreeInit /\ [][BuildStep \/ Crash]_treeVars
---------------------------------------------------------------------------
Trees ==
  {t \in {job.tree, disk.tree} : Readable(t)}

(* Every variable has its type. *)
TreeTypeOK ==
  /\ services \subseteq Service
  /\ disk.names \in {Absent, Torn, Whole}
  /\ disk.stamp \in {Absent, Torn} \cup SUBSET Service
  /\ job.index \subseteq Service /\ job.subs \subseteq Category
  /\ job.queue \subseteq Node \X (0..(MaxDepth - 1))
  /\ job.round \in 0..(IF MaxRefine > 0 THEN MaxRefine ELSE 1)
  /\ \A t \in Trees :
       /\ Root \in DOMAIN t.children /\ DOMAIN t.children = DOMAIN t.services
       /\ \A n \in DOMAIN t.children :
            t.children[n] \subseteq DOMAIN t.children /\ t.services[n] \subseteq Service

(* The walks over the tree end: count_depth of the summary and navigate go  *)
(* down it, _get_ancestors goes up.  That holds even if the model reuses    *)
(* the id of a category, because an entry that is written over has no       *)
(* children.  Where it does not, each category has one parent, is reached   *)
(* from the root, and is no deeper than max_depth.                          *)
WellShaped ==
  \A t \in Trees :
    LET nodes == DOMAIN t.children IN
    /\ \A n \in nodes : Level(t, n)[Cardinality(nodes)] = {}
    /\ ~t.collided =>
         /\ \A c \in nodes \ {Root} : Cardinality({n \in nodes : c \in t.children[n]}) = 1
         /\ Reached(t) = nodes
         /\ \A d \in 0..Cardinality(Node) : d > MaxDepth => Level(t, Root)[d] = {}

(* However its nodes are split, its small categories deleted and its build  *)
(* interrupted and resumed, every service a tree was begun with is in a      *)
(* category that is reached from the root; unless a reused id replaced the   *)
(* category, the resumed build did not know the service any more, or no      *)
(* round of classification was asked for.                                   *)
Sound(t) == ~t.collided /\ ~t.stretched /\ MaxRefine > 0

NothingLost == \A t \in Trees : Sound(t) => t.of \subseteq Listed(t)

(* A stamp that equals the hash of the service list, on which the registry   *)
(* calls the taxonomy available, stands beside a tree that lists every       *)
(* service; taxonomy.json is written before the stamp.                      *)
AvailableListsAll ==
  disk.stamp = services /\ Readable(disk.tree) /\ Sound(disk.tree)
    => services \subseteq Listed(disk.tree)
=============================================================================
