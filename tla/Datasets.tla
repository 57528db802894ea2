------------------------------ MODULE Datasets ------------------------------
(***************************************************************************)
(* The life of one dataset: RegistryService creates its directory, by a     *)
(* request or with the first registration, keeps its settings in files and  *)
(* in caches of them, and deletes it.                                      *)
(*                                                                         *)
(* The event loop reads settings, the workers of the pool carry out         *)
(* operations; they interleave at every access to a file and to a cache.    *)
(***************************************************************************)
EXTENDS Naturals

CONSTANTS
  Loop,      \* the event loop
  Pool,      \* the workers of _executor
  Setting    \* the settings kept in a file with a cache

ASSUME DatasetsAssumption ==
  Loop \notin Pool /\ "register" \in Setting /\ Setting \subseteq {"auth", "lease", "register"}

(* The definitions whose names begin with Mutant are plausible mistakes,    *)
(* which the properties must catch.                                        *)

Thread == Pool \cup {Loop}

(* What a setting says: the default, as a file that is absent does, or not: *)
(* callers must authenticate, leases are enabled, services are refused.     *)
Default == "default"
Special == "special"
Value == {Default, Special}
Absent == "absent"
Unset == "unset"

Kind == {"read", "set", "create", "delete", "register"}
Job == [kind: Kind, at: {"start", "keep", "got", "files", "formats", "auth", "remove", "commit", "save"},
        setting: Setting \cup {"none"}, value: Value]
NoJob == [kind |-> "none", at |-> "start", setting |-> "none", value |-> Default]

VARIABLES
  dir,       \* the dataset's directory exists
  store,     \* _stores has a RegistryStore of it
  vector,    \* vector_config.json exists
  setfile,   \* the file of each setting
  cache,     \* the cache of each setting
  entries,   \* whether _entries has a service of it,
  saved,     \* and api_config.json
  job,       \* what each thread is at
  said,      \* history: what each setting was last answered to be
  clash      \* history: the settings, and the "life", of which answers may not hold:
             \* operations overlapped or broke off

dataset == <<dir, store, vector, setfile, cache, entries, saved, job, said, clash>>
disk == <<dir, vector, setfile, saved>>

(* What a file says. *)
Saying(content) == IF content = Special THEN Special ELSE Default
None == [s \in Setting |-> Unset]

DatasetInit ==
  /\ dir = FALSE /\ store = FALSE /\ vector = FALSE
  /\ setfile = [s \in Setting |-> Absent]
  /\ cache = None
  /\ entries = FALSE /\ saved = FALSE
  /\ job = [t \in Thread |-> NoJob]
  /\ said = None
  /\ clash = {}

Busy(t) == job[t] # NoJob

(* What two jobs that overlap leave unsure. *)
Unsure(j, i) ==
  IF i = NoJob THEN {}
  ELSE IF {j.kind, i.kind} \cap {"create", "delete"} # {} THEN Setting \cup {"life"}
  ELSE {s \in Setting : "set" \in {j.kind, i.kind} /\ s \in {j.setting, i.setting}}

Begin(t, kind, s, v) ==
  LET j == [kind |-> kind, at |-> "start", setting |-> s, value |-> v]
  IN  /\ ~Busy(t)
      /\ job' = [job EXCEPT ![t] = j]
      /\ clash' = clash \cup UNION {Unsure(j, job[i]) : i \in Thread}
      /\ UNCHANGED <<dir, store, vector, setfile, cache, entries, saved, said>>

At(t, kinds, where) == job[t].kind \in kinds /\ job[t].at = where
Goto(t, where) == job' = [job EXCEPT ![t].at = where]
Done(t) == job' = [job EXCEPT ![t] = NoJob]
Quietly == UNCHANGED <<said, clash>>

(* _get_store makes the directory when it makes the store.  To write through *)
(* a store whose directory has been removed is an error.                   *)
Broken == store /\ ~dir
Opened == store' = TRUE /\ dir' = TRUE

BreaksOff(t) ==
  /\ Broken
  /\ Done(t)
  /\ clash' = clash \cup Setting \cup {"life"}
  /\ UNCHANGED <<dir, store, vector, setfile, cache, entries, saved, said>>
---------------------------------------------------------------------------
(* is_auth_required, get_lease_config and get_register_config, which each    *)
(* registration consults: the cache,                                       *)
ReadCached(t) ==
  /\ At(t, {"read", "register"}, "start") /\ cache[job[t].setting] # Unset
  /\ job' = [job EXCEPT ![t].at = "got", ![t].value = cache[job[t].setting]]
  /\ UNCHANGED <<disk, store, cache, entries>> /\ Quietly

(* the default if there is no dataset, which the last of them does not ask, *)
ReadAbsent(t) ==
  /\ At(t, {"read"}, "start") /\ cache[job[t].setting] = Unset
  /\ job[t].setting # "register" /\ ~dir
  /\ job' = [job EXCEPT ![t].at = "got", ![t].value = Default]
  /\ UNCHANGED <<disk, store, cache, entries>> /\ Quietly

(* or the file,                                                            *)
ReadFile(t) ==
  /\ At(t, {"read", "register"}, "start") /\ cache[job[t].setting] = Unset
  /\ job[t].setting = "register" \/ dir
  /\ IF Broken THEN UNCHANGED <<dir, store>> ELSE Opened
  /\ job' = [job EXCEPT ![t].at = "keep", ![t].value = Saying(setfile[job[t].setting])]
  /\ UNCHANGED <<vector, setfile, saved, cache, entries>> /\ Quietly

(* of which the cache is made.                                             *)
Keep(t) ==
  /\ At(t, {"read", "register"}, "keep")
  /\ cache' = [cache EXCEPT ![job[t].setting] = job[t].value]
  /\ Goto(t, "got")
  /\ UNCHANGED <<disk, store, entries>> /\ Quietly

Answer(t) ==
  /\ At(t, {"read"}, "got") /\ Done(t)
  /\ UNCHANGED <<disk, store, cache, entries>> /\ Quietly

MutantCached(s, v) == cache

(* The cache, once a setting has been written. *)
Cached(s, v) == [cache EXCEPT ![s] = v]

(* set_auth_config and set_lease_config are refused without the dataset;    *)
(* set_register_config makes it.                                           *)
SetRefused(t) ==
  /\ At(t, {"set"}, "start") /\ job[t].setting # "register" /\ ~dir
  /\ Done(t)
  /\ UNCHANGED <<disk, store, cache, entries>> /\ Quietly

SetFile(t) ==
  /\ At(t, {"set"}, "start")
  /\ job[t].setting = "register" \/ dir
  /\ ~Broken /\ Opened
  /\ setfile' = [setfile EXCEPT ![job[t].setting] = job[t].value]
  /\ Goto(t, "keep")
  /\ UNCHANGED <<vector, saved, cache, entries>> /\ Quietly

SetCache(t) ==
  LET s == job[t].setting
  IN  /\ At(t, {"set"}, "keep")
      /\ cache' = Cached(s, job[t].value)
      /\ said' = [said EXCEPT ![s] = job[t].value]
      /\ Done(t)
      /\ UNCHANGED <<disk, store, entries, clash>>
---------------------------------------------------------------------------
(* create_dataset: the directory, *)
CreateRefused(t) ==
  /\ At(t, {"create"}, "start") /\ dir
  /\ Done(t)
  /\ UNCHANGED <<disk, store, cache, entries>> /\ Quietly

Create(t) ==
  /\ At(t, {"create"}, "start") /\ ~dir
  /\ dir' = TRUE
  /\ Goto(t, "files")
  /\ UNCHANGED <<store, vector, setfile, saved, cache, entries>> /\ Quietly

(* and _init_dataset_files: each file that does not exist yet.             *)
InitVector(t) ==
  /\ At(t, {"create", "register"}, "files")
  /\ ~Broken /\ Opened
  /\ vector' = TRUE
  /\ Goto(t, "formats")
  /\ UNCHANGED <<setfile, saved, cache, entries>> /\ Quietly

InitFormats(t) ==
  /\ At(t, {"create", "register"}, "formats")
  /\ IF setfile["register"] = Absent
     THEN /\ ~Broken /\ Opened
          /\ setfile' = [setfile EXCEPT !["register"] = Default]
          /\ cache' = Cached("register", Default)
     ELSE UNCHANGED <<dir, store, setfile, cache>>
  /\ Goto(t, IF job[t].kind = "create" THEN "auth" ELSE "commit")
  /\ UNCHANGED <<vector, saved, entries>> /\ Quietly

(* The flag comes last: until then the dataset is open.                    *)
InitAuth(t) ==
  LET wanted == "auth" \in Setting /\ job[t].value = Special
  IN  /\ At(t, {"create"}, "auth")
      /\ IF wanted /\ setfile["auth"] = Absent
         THEN /\ ~Broken /\ Opened
              /\ setfile' = [setfile EXCEPT !["auth"] = Special]
              /\ cache' = Cached("auth", Special)
         ELSE UNCHANGED <<dir, store, setfile, cache>>
      /\ said' = [s \in Setting |-> IF s = "auth" /\ wanted THEN Special ELSE Default]
      /\ Done(t)
      /\ UNCHANGED <<vector, saved, entries, clash>>

Forgotten == None

(* delete_dataset: what is in memory, then the directory.                  *)
DeleteRefused(t) ==
  /\ At(t, {"delete"}, "start") /\ ~dir
  /\ Done(t)
  /\ UNCHANGED <<disk, store, cache, entries>> /\ Quietly

Delete(t) ==
  /\ At(t, {"delete"}, "start") /\ dir
  /\ store' = FALSE /\ entries' = FALSE /\ cache' = Forgotten
  /\ Goto(t, "remove")
  /\ UNCHANGED disk /\ Quietly

RemoveFiles(t) ==
  /\ At(t, {"delete"}, "remove")
  /\ dir' = FALSE /\ vector' = FALSE /\ saved' = FALSE
  /\ setfile' = [s \in Setting |-> Absent]
  /\ said' = None
  /\ Done(t)
  /\ UNCHANGED <<store, cache, entries, clash>>
---------------------------------------------------------------------------
(* A registration: the formats have been read, and may refuse it,          *)
RegisterRefused(t) ==
  /\ At(t, {"register"}, "got") /\ job[t].value = Special
  /\ Done(t)
  /\ UNCHANGED <<disk, store, cache, entries>> /\ Quietly

MutantInitialised == dir

(* _ensure_dataset_initialized asks for one of the files. *)
Initialised == vector

Ensure(t) ==
  /\ At(t, {"register"}, "got") /\ job[t].value = Default
  /\ dir' = (dir \/ ~Initialised)
  /\ Goto(t, IF Initialised THEN "commit" ELSE "files")
  /\ UNCHANGED <<store, vector, setfile, saved, cache, entries>> /\ Quietly

Commit(t) ==
  /\ At(t, {"register"}, "commit")
  /\ entries' = TRUE
  /\ Goto(t, "save")
  /\ UNCHANGED <<disk, store, cache>> /\ Quietly

Save(t) ==
  /\ At(t, {"register"}, "save")
  /\ ~Broken /\ Opened
  /\ saved' = TRUE
  /\ Done(t)
  /\ UNCHANGED <<vector, setfile, cache, entries>> /\ Quietly

(* The error of a thread that finds its store broken. *)
Fail(t) ==
  /\ \/ At(t, {"set"}, "start") /\ job[t].setting = "register"
     \/ At(t, {"create", "register"}, "files")
     \/ At(t, {"create", "register"}, "formats") /\ setfile["register"] = Absent
     \/ At(t, {"create"}, "auth") /\ job[t].value = Special
     \/ At(t, {"register"}, "save")
  /\ BreaksOff(t)

(* startup: what is saved is loaded if there is a file by which the dataset  *)
(* is found, but for a service that the formats refuse; it is lost on disk   *)
(* as well if others are not refused.                                      *)
DatasetRestart ==
  LET found == saved \/ setfile["register"] # Absent
      refused == setfile["register"] = Special
  IN  /\ store' = found
      /\ entries' = (saved /\ ~refused)
      /\ saved' \in {saved, saved /\ ~refused}
      /\ cache' = IF saved THEN [None EXCEPT !["register"] = Saying(setfile["register"])] ELSE None
      /\ job' = [t \in Thread |-> NoJob]
      /\ clash' = IF \E t \in Thread : Busy(t) /\ job[t].kind # "read"
                  THEN Setting \cup {"life"} ELSE clash
      /\ UNCHANGED <<dir, vector, setfile, said>>

DatasetStep(t) ==
  \/ ReadCached(t) \/ ReadAbsent(t) \/ ReadFile(t) \/ Keep(t)
  \/ SetRefused(t) \/ SetFile(t) \/ SetCache(t)
  \/ CreateRefused(t) \/ Create(t) \/ InitVector(t) \/ InitFormats(t) \/ InitAuth(t)
  \/ DeleteRefused(t) \/ Delete(t) \/ RemoveFiles(t)
  \/ RegisterRefused(t) \/ Ensure(t) \/ Commit(t) \/ Save(t)
  \/ Fail(t)
---------------------------------------------------------------------------
(* Every variable has its type. *)
DatasetTypeOK ==
  /\ {dir, store, vector, entries, saved} \subseteq BOOLEAN
  /\ setfile \in [Setting -> Value \cup {Absent}]
  /\ cache \in [Setting -> Value \cup {Unset}]
  /\ job \in [Thread -> Job \cup {NoJob}]
  /\ said \in [Setting -> Value \cup {Unset}]
  /\ clash \subseteq Setting \cup {"life"}

Effective(s) == IF cache[s] # Unset THEN cache[s] ELSE Saying(setfile[s])

Working(kinds) == \E t \in Thread : job[t].kind \in kinds

(* set_auth_config: "so the next request reads the new value".  Whatever a   *)
(* setting was last answered to be is what the next request reads, through   *)
(* later operations and restarts; unless operations overlapped.            *)
SettingHolds ==
  \A s \in Setting \ clash :
    said[s] # Unset /\ ~Working({"set", "create", "delete"}) => Effective(s) = said[s]

(* A dataset with services has all the files that make it valid; of one that *)
(* was deleted nothing is left, in memory or on disk.                      *)
WholeOrGone ==
  "life" \notin clash /\ ~Working({"create", "delete", "register"}) =>
    /\ entries => dir /\ vector /\ setfile["register"] # Absent /\ saved
    /\ ~dir => ~store /\ ~vector /\ ~entries /\ cache = None /\ setfile = [s \in Setting |-> Absent]
=============================================================================
