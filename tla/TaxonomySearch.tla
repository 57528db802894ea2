--------------------------- MODULE TaxonomySearch ---------------------------
(***************************************************************************)
(* A search over the tree that TaxonomyTree builds.                        *)
(*                                                                         *)
(* SearchService keeps one A2XSearch engine per mode, made from the files  *)
(* when it is first asked for and shared by all threads.  A search goes    *)
(* down the tree, asking a language model at each node which children to   *)
(* visit; takes the services of the nodes visited, each once; merges small *)
(* groups of them; and asks the model about every group.  A get_one search *)
(* that finds nothing switches the engine to get_important, searches again *)
(* and switches back.                                                      *)
(*                                                                         *)
(* Which datasets a search is let through for is left to TaxonomyBuild.    *)
(* The engine asks the model about all nodes of one search in one step.    *)
(***************************************************************************)
EXTENDS TaxonomyTree, Sequences

CONSTANTS
  Searcher,     \* threads that run searches
  AskedMode,    \* the modes they ask for
  MinGroupSize, \* MIN_GROUP_SIZE
  MaxEngines, MaxSearches, MaxFallbacks   \* bounds

ASSUME SearchAssumption ==
  /\ AskedMode \subseteq {"get_all", "get_one", "get_important"}
  /\ MinGroupSize \in Nat

VARIABLES
  engines,  \* every A2XSearch there has been
  cached,   \* _a2x_instances: the engine of a mode, 0 if there is none
  search,   \* what each thread is doing
  searches  \* how many searches there have been

searchVars == <<engines, cached, search, searches>>
vars == <<treeVars, searchVars>>

Engine(tree, mode) == [tree |-> tree, mode |-> mode]

(* saved holds the modes that the fallbacks in progress will restore; full  *)
(* is history: the model wanted everything it was asked about.             *)
NoSearch == [at |-> "idle", engine |-> 0, groups |-> {}, found |-> {}, saved |-> <<>>, full |-> TRUE]

Of(s) == engines[search[s].engine]

Goto(s, pc) == search' = [search EXCEPT ![s].at = pc]

SearchInit ==
  /\ engines = <<>> /\ cached = [m \in AskedMode |-> 0]
  /\ search = [s \in Searcher |-> NoSearch]
  /\ searches = 0
---------------------------------------------------------------------------
(* _get_a2x                                                                 *)
Open(s, m) ==
  /\ search[s].at = "idle" /\ searches < MaxSearches
  /\ \/ cached[m] # 0 /\ UNCHANGED <<engines, cached>>
     \/ /\ cached[m] = 0 /\ Len(engines) < MaxEngines
        /\ Readable(disk.tree) /\ Readable(disk.names)
        /\ engines' = Append(engines, Engine(disk.tree, m))
        /\ cached' = [cached EXCEPT ![m] = Len(engines) + 1]
  /\ search' = [search EXCEPT ![s] = [NoSearch EXCEPT !.at = "navigate", !.engine = cached'[m]]]
  /\ searches' = searches + 1
  /\ UNCHANGED treeVars

(* parse_selection: what the model may choose of a list.                    *)
Selection(list, mode) ==
  {chosen \in SUBSET list : mode = "get_one" => Cardinality(chosen) <= 1}

(* The nodes a search may visit: below a node it visits, those chosen.      *)
Walks(t, mode) ==
  {w \in SUBSET DOMAIN t.children :
     /\ Root \in w
     /\ \A n \in w \ {Root} : \E m \in w : n \in t.children[m]
     /\ \A m \in w : t.children[m] \cap w \in Selection(t.children[m], mode)}

MutantTerminals(t, walk) == {n \in walk : t.services[n] # {} /\ t.children[n] = {}}

Terminals(t, walk) == {n \in walk : t.services[n] # {}}

(* deduplicate: a service stays with the first terminal node that has it.   *)
Groupings(t, nodes) ==
  {{{x \in DOMAIN first : first[x] = n} : n \in nodes} \ {{}} :
     first \in {f \in [UNION {t.services[n] : n \in nodes} -> nodes] :
                  \A x \in DOMAIN f : x \in t.services[f[x]]}}

Navigate(s) ==
  /\ search[s].at = "navigate"
  /\ LET t == Of(s).tree IN
     \E walk \in Walks(t, Of(s).mode) : \E groups \in Groupings(t, Terminals(t, walk)) :
       search' = [search EXCEPT ![s].at = "merge", ![s].groups = groups,
                                ![s].full = @ /\ walk = Reached(t)]
  /\ UNCHANGED <<treeVars, engines, cached, searches>>

(* merge_small_groups takes the smallest group that is too small into the   *)
(* nearest other group, whichever that is.                                 *)
Small(groups) ==
  {g \in groups : Cardinality(g) < MinGroupSize
                  /\ \A h \in groups : Cardinality(g) <= Cardinality(h)}

Merge(s) ==
  /\ search[s].at = "merge"
  /\ LET groups == search[s].groups IN
     IF Cardinality(groups) > 1 /\ Small(groups) # {}
     THEN \E g \in Small(groups) : \E h \in groups \ {g} :
            search' = [search EXCEPT ![s].groups = (groups \ {g, h}) \cup {g \cup h}]
     ELSE Goto(s, "select")
  /\ UNCHANGED <<treeVars, engines, cached, searches>>

(* select_services asks about each group by itself: even a get_one search   *)
(* may find a service in each.                                             *)
Select(s) ==
  /\ search[s].at = "select"
  /\ LET groups == search[s].groups IN
     \E found \in SUBSET UNION groups :
       /\ \A g \in groups : found \cap g \in Selection(g, Of(s).mode)
       /\ search' = [search EXCEPT ![s].at = "judge", ![s].found = found, ![s].groups = {},
                                   ![s].full = @ /\ found = UNION groups]
  /\ UNCHANGED <<treeVars, engines, cached, searches>>

(* Has a get_one search found nothing?  The answer is read from the mode of *)
(* the shared engine, as is the mode that will be restored.                *)
Judge(s) ==
  /\ search[s].at = "judge"
  /\ IF Of(s).mode = "get_one" /\ search[s].found = {} /\ Len(search[s].saved) < MaxFallbacks
     THEN Goto(s, "fall back") ELSE Goto(s, "answer")
  /\ UNCHANGED <<treeVars, engines, cached, searches>>

FallBack(s) ==
  /\ search[s].at = "fall back"
  /\ LET e == search[s].engine IN
     /\ engines' = [engines EXCEPT ![e].mode = "get_important"]
     /\ search' = [search EXCEPT ![s].at = "navigate", ![s].full = FALSE,
                                 ![s].saved = Append(@, engines[e].mode)]
  /\ UNCHANGED <<treeVars, cached, searches>>

(* The search returns: from a fallback with the first service found, once   *)
(* the mode has been restored, else to the caller.                         *)
Restored(s) == search[s].saved[Len(search[s].saved)]

Return(s) ==
  /\ search[s].at = "answer" /\ search[s].saved # <<>>
  /\ engines' = [engines EXCEPT ![search[s].engine].mode = Restored(s)]
  /\ \E first \in IF search[s].found = {} THEN {{}} ELSE {{x} : x \in search[s].found} :
       search' = [search EXCEPT ![s].found = first,
                                ![s].saved = SubSeq(@, 1, Len(@) - 1)]
  /\ UNCHANGED <<treeVars, cached, searches>>

Answer(s) ==
  /\ search[s].at = "answer" /\ search[s].saved = <<>>
  /\ search' = [search EXCEPT ![s] = NoSearch]
  /\ UNCHANGED <<treeVars, engines, cached, searches>>

(* reset_a2x: searches that are running keep the engine they have.  A switch *)
(* that no search follows is left out.                                     *)
SwitchProvider ==
  /\ searches < MaxSearches
  /\ cached # [m \in AskedMode |-> 0]
  /\ cached' = [m \in AskedMode |-> 0]
  /\ UNCHANGED <<treeVars, engines, search, searches>>
---------------------------------------------------------------------------
SearchStep ==
  \/ \E s \in Searcher :
       \/ \E m \in AskedMode : Open(s, m)
       \/ Navigate(s) \/ Merge(s) \/ Select(s)
       \/ Judge(s) \/ FallBack(s) \/ Return(s) \/ Answer(s)
  \/ SwitchProvider

Restart ==
  /\ Crash
  /\ engines' = <<>> /\ cached' = [m \in AskedMode |-> 0]
  /\ search' = [s \in Searcher |-> NoSearch]
  /\ UNCHANGED searches

Init == TreeInit /\ SearchInit

(* After Open a search reads nothing the builder writes, so that a builder  *)
(* that waits for it leaves out no outcome of either.                      *)
Build ==
  /\ \A s \in Searcher : search[s].at = "idle"
  /\ BuildStep
  /\ UNCHANGED searchVars

Next == Build \/ SearchStep \/ Restart

Spec == Init /\ [][Next]_vars
---------------------------------------------------------------------------
(* Every variable has its type. *)
TypeOK ==
  /\ TreeTypeOK
  /\ \A m \in AskedMode : cached[m] \in 0..Len(engines)
  /\ \A s \in Searcher :
       /\ search[s].engine \in 0..Len(engines)
       /\ search[s].found \subseteq Service /\ UNION search[s].groups \subseteq Service

(* A search whose model wants everything it is asked about finds every      *)
(* service the tree was begun with: what the builder puts into categories,  *)
(* leaves at inner nodes or adds across domains is visited, survives the    *)
(* deduplication and merging of groups, and is asked about.                *)
FullSearchFindsAll ==
  \A s \in Searcher :
    search[s].at = "answer" /\ search[s].full /\ Sound(Of(s).tree)
      => Of(s).tree.of \subseteq search[s].found
=============================================================================
