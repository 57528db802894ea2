---------------------------- MODULE VectorIndex ----------------------------
(***************************************************************************)
(* The vector index of one dataset, which follows service.json by threads   *)
(* of their own: each change of the services, and of the embedding model,   *)
(* starts a sync; nothing orders the syncs, and one that fails is logged.   *)
(* Searches go through an instance that remembers the services it found.    *)
(***************************************************************************)
EXTENDS Naturals

CONSTANTS
  Id, Text, Model,
  DefaultModel,   \* of a dataset without vector_config.json
  Sync,           \* bound: the syncs that can be under way at a time
  HasQueries,     \* the dataset has queries: the warm-up then keeps its collection
  MaxOps,         \* bound: changes, deletions and restarts
  MaxFailures     \* bound: syncs and purges that fail

NoText == "no text"

ASSUME VectorIndexAssumption ==
  /\ DefaultModel \in Model /\ HasQueries \in BOOLEAN
  /\ MaxOps \in Nat /\ MaxFailures \in Nat
  /\ NoText \notin Text
  /\ "none" \notin Model /\ "no collection" \notin Model /\ "unrecorded" \notin Model

(* The definitions whose names begin with Mutant are plausible mistakes,    *)
(* which the properties must catch.                                        *)

Services == [Id -> Text \cup {NoText}]   \* a service.json: the descriptions
Nothing == [s \in Id |-> NoText]

NoDoc == [text |-> NoText, model |-> "none"]
Doc == [text: Text, model: Model]
NoDocs == [s \in Id |-> NoDoc]

NoInstance == [knows |-> Nothing, model |-> "none"]
Idle == [at |-> "idle", target |-> Nothing, model |-> "none", old |-> {}, new |-> {}, alone |-> FALSE]
NoBuild == [at |-> "idle", services |-> Nothing, model |-> "none"]

VARIABLES
  file,      \* service.json
  config,    \* the embedding model the dataset is to have
  docs,      \* the collection: a text and the model of its embedding
  recorded,  \* the model in the collection's metadata
  sync,      \* what each sync is at
  instance,  \* _vector_instances
  build,     \* a search that makes the instance, under the lock
  removing,  \* a deletion between the purge and the removal of the files
  unsure,    \* history: why the index may differ from the services: syncs overlapped,
             \* or one failed; and why an instance may differ from the index; and
             \* whether the metadata no longer tells the model
  ops, failures

vectorVars == <<file, config, docs, recorded, sync, instance, build, removing, unsure, ops, failures>>

VectorInit ==
  /\ file = Nothing /\ config = DefaultModel
  /\ docs = NoDocs /\ recorded = "no collection"
  /\ sync = [t \in Sync |-> Idle]
  /\ instance = NoInstance /\ build = NoBuild
  /\ removing = FALSE
  /\ unsure = {}
  /\ ops = 0 /\ failures = 0

Working == {t \in Sync : sync[t].at # "idle"}
Quiet == Working = {} /\ build = NoBuild /\ ~removing
Ids(services) == {s \in Id : services[s] # NoText}
Found == {s \in Id : docs[s] # NoDoc}

Overlap == {"overlap", "instance"}
Failed == {"failed", "instance"}

Counted == ops < MaxOps /\ ops' = ops + 1

(* schedule_vector_sync: a thread of its own.                              *)
Scheduled(t) ==
  [i \in Sync |-> IF i = t THEN [Idle EXCEPT !.at = "read", !.alone = Quiet]
                  ELSE [sync[i] EXCEPT !.alone = FALSE]]

Schedule(t) ==
  /\ t \notin Working
  /\ sync' = Scheduled(t)
  /\ unsure' = IF Quiet THEN unsure ELSE unsure \cup Overlap

(* The services change and service.json is written: on_service_changed.     *)
Change(new, t) ==
  /\ Counted /\ new # file
  /\ file' = new
  /\ Schedule(t)
  /\ UNCHANGED <<config, docs, recorded, instance, build, removing, failures>>

(* A change of model that the metadata will not tell: the collection was     *)
(* filled with another model than they name, or beside the change.          *)
Unnoticed(model, quiet) ==
  IF quiet /\ (model = config \/ Found = {} \/ recorded \notin {model, "unrecorded"})
  THEN {} ELSE {"model"}

(* set_vector_config *)
SetModel(model, t) ==
  /\ Counted /\ model # config
  /\ config' = model
  /\ sync' = Scheduled(t) /\ t \notin Working
  /\ unsure' = unsure \cup (IF Quiet THEN {} ELSE Overlap) \cup Unnoticed(model, Quiet)
  /\ UNCHANGED <<file, docs, recorded, instance, build, removing, failures>>
---------------------------------------------------------------------------
(* sync_vector, from one access to files or collection to the next.         *)
End(t) == [sync EXCEPT ![t] = Idle]

(* One that saw the whole through, with no other beside it, has put right    *)
(* what others left.                                                       *)
Mended(t) == IF sync[t].alone THEN unsure \ {"overlap", "failed"} ELSE unsure

(* The instance is right again only when it is made anew.                  *)
Renewed(t) == IF sync[t].alone THEN unsure \ {"overlap", "failed", "instance"} ELSE unsure

(* No services: nothing is done, and what the collection has stays.         *)
ReadServices(t) ==
  /\ sync[t].at = "read"
  /\ sync' = IF file = Nothing THEN End(t)
             ELSE [sync EXCEPT ![t].at = "model", ![t].target = file]
  /\ UNCHANGED <<file, config, docs, recorded, instance, build, removing, unsure, ops, failures>>

ReadModel(t) ==
  /\ sync[t].at = "model"
  /\ sync' = [sync EXCEPT ![t].at = "open", ![t].model = config]
  /\ UNCHANGED <<file, config, docs, recorded, instance, build, removing, unsure, ops, failures>>

(* ChromaStore: an existing collection keeps its metadata. *)
Recorded(model) == IF recorded = "no collection" THEN model ELSE recorded

MutantMismatch(model) == FALSE

Mismatch(model) == recorded \in Model \ {model}

OpenCollection(t) ==
  /\ sync[t].at = "open"
  /\ recorded' = Recorded(sync[t].model)
  /\ docs' = IF Mismatch(sync[t].model) THEN NoDocs ELSE docs
  /\ sync' = [sync EXCEPT ![t].at = "compare"]
  /\ UNCHANGED <<file, config, instance, build, removing, unsure, ops, failures>>

MutantStale(target) == {}

(* What is to be deleted, and what to be written.                          *)
Stale(target) == Found \ Ids(target)

Fresh(target) == {s \in Ids(target) : docs[s].text # target[s]}

Compare(t) ==
  LET old == Stale(sync[t].target)
      new == Fresh(sync[t].target)
  IN  /\ sync[t].at = "compare"
      /\ sync' = IF old \cup new = {} THEN End(t)
                 ELSE [sync EXCEPT ![t].at = "delete", ![t].old = old, ![t].new = new]
      /\ unsure' = IF old \cup new = {} THEN Mended(t) ELSE unsure
      /\ UNCHANGED <<file, config, docs, recorded, instance, build, removing, ops, failures>>

DeleteIds(t) ==
  /\ sync[t].at = "delete"
  /\ docs' = [s \in Id |-> IF s \in sync[t].old THEN NoDoc ELSE docs[s]]
  /\ sync' = [sync EXCEPT ![t].at = "upsert"]
  /\ UNCHANGED <<file, config, recorded, instance, build, removing, unsure, ops, failures>>

Upsert(t) ==
  /\ sync[t].at = "upsert"
  /\ docs' = [s \in Id |-> IF s \in sync[t].new
                                THEN [text |-> sync[t].target[s], model |-> sync[t].model]
                                ELSE docs[s]]
  /\ sync' = [sync EXCEPT ![t].at = "invalidate"]
  /\ UNCHANGED <<file, config, recorded, instance, build, removing, unsure, ops, failures>>

MutantDropped(any) == instance

(* The instance is made anew by the next search. *)
Dropped(any) == NoInstance

Invalidate(t) ==
  /\ sync[t].at = "invalidate" /\ build = NoBuild
  /\ instance' = Dropped(t)
  /\ sync' = End(t)
  /\ unsure' = Renewed(t)
  /\ UNCHANGED <<file, config, docs, recorded, build, removing, ops, failures>>

(* A service file, a model or a collection that cannot be had. *)
SyncFails(t) ==
  /\ sync[t].at \in {"read", "open", "compare", "delete", "upsert"}
  /\ failures < MaxFailures /\ failures' = failures + 1
  /\ sync' = End(t)
  /\ unsure' = unsure \cup Failed
  /\ UNCHANGED <<file, config, docs, recorded, instance, build, removing, ops>>
---------------------------------------------------------------------------
(* _get_vector makes the instance under the lock: it fills a collection     *)
(* that is empty, and then reads the services once more.                   *)
BuildOpen ==
  /\ instance = NoInstance /\ build = NoBuild /\ file # Nothing
  /\ recorded' = Recorded(config)
  /\ build' = [at |-> IF Found = {} THEN "add" ELSE "load", services |-> file, model |-> config]
  /\ sync' = [t \in Sync |-> [sync[t] EXCEPT !.alone = FALSE]]
  /\ unsure' = IF Working = {} /\ ~removing THEN unsure ELSE unsure \cup Overlap
  /\ UNCHANGED <<file, config, docs, instance, removing, ops, failures>>

(* What has been added since is left alone.                                *)
BuildAdd ==
  /\ build.at = "add"
  /\ docs' = [s \in Id |->
                IF s \in Ids(build.services) \ Found
                THEN [text |-> build.services[s], model |-> build.model] ELSE docs[s]]
  /\ build' = [build EXCEPT !.at = "load"]
  /\ UNCHANGED <<file, config, recorded, sync, instance, removing, unsure, ops, failures>>

BuildLoad ==
  /\ build.at = "load" /\ file # Nothing
  /\ instance' = [knows |-> file, model |-> build.model]
  /\ build' = NoBuild
  /\ UNCHANGED <<file, config, docs, recorded, sync, removing, unsure, ops, failures>>

BuildFails ==
  /\ build.at = "load" /\ file = Nothing
  /\ build' = NoBuild
  /\ UNCHANGED <<file, config, docs, recorded, sync, instance, removing, unsure, ops, failures>>
---------------------------------------------------------------------------
(* delete_dataset: purge_dataset, which does not mind a failure,            *)
Purge ==
  /\ Counted /\ ~removing /\ build = NoBuild
  /\ \/ /\ docs' = NoDocs
        /\ recorded' = Recorded("unrecorded")
        /\ unsure' = IF Quiet THEN unsure ELSE unsure \cup Overlap
        /\ UNCHANGED failures
     \/ /\ failures < MaxFailures /\ failures' = failures + 1
        /\ unsure' = unsure \cup Failed
        /\ UNCHANGED <<docs, recorded>>
  /\ instance' = Dropped("purge")
  /\ removing' = TRUE
  /\ sync' = [t \in Sync |-> [sync[t] EXCEPT !.alone = FALSE]]
  /\ UNCHANGED <<file, config, build>>

(* and the files, which starts no sync.                                    *)
Remove ==
  /\ removing /\ removing' = FALSE
  /\ file' = Nothing /\ config' = DefaultModel
  /\ LET quiet == Working = {} /\ build = NoBuild
     IN  unsure' = unsure \cup (IF quiet THEN {} ELSE Overlap) \cup Unnoticed(DefaultModel, quiet)
  /\ UNCHANGED <<docs, recorded, sync, instance, build, ops, failures>>

(* The warm-up drops the collection of a dataset without queries, and syncs *)
(* each dataset.                                                           *)
WarmUp(t) ==
  /\ Counted
  /\ docs' = IF HasQueries THEN docs ELSE NoDocs
  /\ recorded' = IF HasQueries THEN recorded ELSE "no collection"
  /\ sync' = [i \in Sync |-> IF i = t THEN [Idle EXCEPT !.at = "read", !.alone = TRUE] ELSE Idle]
  /\ instance' = NoInstance /\ build' = NoBuild
  /\ removing' = FALSE
  /\ unsure' = (IF HasQueries THEN unsure ELSE {}) \cup (IF removing THEN Failed ELSE {})
  /\ UNCHANGED <<file, config, failures>>

SyncStep(t) ==
  \/ ReadServices(t) \/ ReadModel(t) \/ OpenCollection(t) \/ Compare(t)
  \/ DeleteIds(t) \/ Upsert(t) \/ Invalidate(t) \/ SyncFails(t)

VectorNext ==
  \/ \E t \in Sync :
       \/ \E new \in Services : Change(new, t)
       \/ \E model \in Model : SetModel(model, t)
       \/ SyncStep(t)
       \/ WarmUp(t)
  \/ BuildOpen \/ BuildAdd \/ BuildLoad \/ BuildFails
  \/ Purge \/ Remove

VectorSpec == VectorInit /\ [][VectorNext]_vectorVars
---------------------------------------------------------------------------
(* Every variable has its type. *)
VectorTypeOK ==
  /\ file \in Services /\ config \in Model
  /\ docs \in [Id -> Doc \cup {NoDoc}]
  /\ recorded \in Model \cup {"no collection", "unrecorded"}
  /\ \A t \in Sync :
       /\ sync[t].at \in {"idle", "read", "model", "open", "compare", "delete", "upsert", "invalidate"}
       /\ sync[t].target \in Services /\ sync[t].model \in Model \cup {"none"}
       /\ sync[t].old \cup sync[t].new \subseteq Id /\ sync[t].alone \in BOOLEAN
  /\ instance.knows \in Services /\ instance.model \in Model \cup {"none"}
  /\ build.at \in {"idle", "add", "load"}
  /\ build.services \in Services /\ build.model \in Model \cup {"none"}
  /\ removing \in BOOLEAN
  /\ unsure \subseteq {"overlap", "failed", "instance", "model"}
  /\ ops \in 0 .. MaxOps /\ failures \in 0 .. MaxFailures

Settling == Quiet /\ unsure \cap {"overlap", "failed"} = {} /\ file # Nothing

(* sync_vector: once no sync is under way the collection has the services    *)
(* with their texts and no other; but if syncs overlapped or one failed, not *)
(* before one that ran alone has ended.  A dataset without services keeps    *)
(* the texts it had.                                                       *)
IndexFollows ==
  Settling => \A s \in Id : docs[s].text = file[s]

(* All of it is embedded with the model the dataset is to have, as long as   *)
(* the metadata tells with which it was made.                              *)
ModelFollows ==
  Settling /\ "model" \notin unsure => \A s \in Found : docs[s].model = config

(* A cached instance knows each service it finds as the collection has it,   *)
(* and asks with the model the collection is made with.                    *)
InstanceFollows ==
  Settling /\ "instance" \notin unsure /\ instance # NoInstance =>
    /\ \A s \in Found : instance.knows[s] = docs[s].text
    /\ "model" \notin unsure => instance.model = config
=============================================================================
