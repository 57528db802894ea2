--------------------------- MODULE TaxonomyBuild ---------------------------
(***************************************************************************)
(* The taxonomy of one dataset: who may search with it, and who builds it. *)
(*                                                                         *)
(* RegistryService keeps a TaxonomyState, which every change of a name or  *)
(* a description may turn STALE and every search re-evaluates while it is.  *)
(* The build router starts a TaxonomyBuilder in a background thread, which  *)
(* works from service.json and leaves its files in taxonomy/.  The two      *)
(* meet in those files only.                                               *)
(*                                                                         *)
(* Content stands for what the hash is taken of: the names and descriptions *)
(* of the services.  Equal hashes are equal contents.                      *)
(***************************************************************************)
EXTENDS Integers, FiniteSets

CONSTANTS
  Content,   \* the names and descriptions there may be
  Thread,    \* threads that run register, update and deregister
  Searcher,  \* threads that run searches
  Job,       \* build jobs, each with a background thread
  Absent,    \* no file, no cached output
  None       \* no job

Tree == [phase: {"bfs", "cross_domain", "complete"}, of: Content]

ASSUME TaxonomyAssumption ==
  /\ Absent \notin Content \cup Tree
  /\ None \notin Job

VARIABLES
  cache,    \* _output_cache
  file,     \* service.json
  thread,   \* what each CRUD handler has still to do
  state,    \* _taxonomy_states; "unmanaged" if the dataset is not in it
  search,   \* what each search has read so far
  tree,     \* taxonomy.json
  stamp,    \* the service_hash in build_config.json
  current,  \* the job in _build_jobs, whose event is in _cancel_flags
  status,   \* the status of that job
  builder,  \* the thread of each job, with its stop_event
  compared, \* history: the content the state was last computed for
  overlap   \* history: the current job began beside an older thread

registryVars == <<cache, file, thread, state, search, compared>>
jobVars == <<current, status, overlap>>
buildVars == <<tree, stamp, jobVars, builder>>
vars == <<registryVars, buildVars>>

HandlerAt(pc, out) == [pc |-> pc, out |-> out]
NoHandler == HandlerAt("idle", Absent)

SearchAt(pc, content, verdict, late) ==
  [pc |-> pc, content |-> content, verdict |-> verdict, late |-> late]
NoSearch == SearchAt("idle", Absent, "stale", FALSE)

(* `shown`: is the job the thread writes to still the one in _build_jobs? *)
Builder == [pc: {"idle", "queued", "load", "work", "saveTree", "saveStamp",
                 "report", "finish"},
            stop: BOOLEAN, shown: BOOLEAN,
            index: Content \cup {Absent}, tree: Tree \cup {Absent}]
NoBuilder == [pc |-> "idle", stop |-> FALSE, shown |-> FALSE,
              index |-> Absent, tree |-> Absent]
---------------------------------------------------------------------------
(* The comparison of _compute_taxonomy_state. *)
Verdict(stored, content) ==
  IF stored = Absent THEN "nonexistent"
  ELSE IF stored = content THEN "available" ELSE "unavailable"

(* _mark_taxonomy_stale.  The definitions whose names begin with Mutant are *)
(* plausible mistakes, which the properties must catch.                    *)
MutantMarked(s) == IF s = "unavailable" THEN "stale" ELSE s

Marked(s) == IF s = "available" THEN "stale" ELSE s

(* _regenerate_output of a handler that has committed its change; another   *)
(* handler may have put the change into the cache already.                 *)
Regenerate(t, c) ==
  /\ thread[t] = NoHandler
  /\ cache' = c
  /\ thread' = [thread EXCEPT ![t] =
       IF c = cache THEN HandlerAt("mark", Absent) ELSE HandlerAt("write", c)]
  /\ UNCHANGED <<file, state, search, compared, buildVars>>

Write(t) ==
  /\ thread[t].pc = "write"
  /\ file' = thread[t].out
  /\ thread' = [thread EXCEPT ![t] = HandlerAt("mark", Absent)]
  /\ UNCHANGED <<cache, state, search, compared, buildVars>>

Mark(t) ==
  /\ thread[t].pc = "mark"
  /\ state' = Marked(state)
  /\ thread' = [thread EXCEPT ![t] = NoHandler]
  /\ search' = [s \in Searcher |-> [search[s] EXCEPT !.late = @ \/ search[s].pc = "store"]]
  /\ UNCHANGED <<cache, file, compared, buildVars>>

(* check_taxonomy_state finds the state STALE and reads the files; a file   *)
(* that is being written is one that cannot be parsed.                     *)
ReadStamp(s) ==
  /\ search[s] = NoSearch
  /\ state = "stale"
  /\ \E unreadable \in BOOLEAN :
       /\ unreadable => \E j \in Job : builder[j].pc = "saveStamp"
       /\ search' = [search EXCEPT ![s] =
            SearchAt("compare", IF tree = Absent \/ unreadable THEN Absent ELSE stamp,
                     "stale", FALSE)]
  /\ UNCHANGED <<cache, file, thread, state, compared, buildVars>>

(* It compares them with the output cache, under the lock, *)
Compare(s) ==
  /\ search[s].pc = "compare"
  /\ search' = [search EXCEPT ![s] =
       SearchAt("store", cache, Verdict(search[s].content, cache), FALSE)]
  /\ UNCHANGED <<cache, file, thread, state, compared, buildVars>>

(* and stores the verdict, whatever has become of the state meanwhile.     *)
Store(s) ==
  /\ search[s].pc = "store"
  /\ state' = search[s].verdict
  /\ compared' = IF search[s].late THEN Absent ELSE search[s].content
  /\ search' = [search EXCEPT ![s] = NoSearch]
  /\ UNCHANGED <<cache, file, thread, buildVars>>
---------------------------------------------------------------------------
(* trigger_build: a 409 while the job in _build_jobs is running.  The job   *)
(* it replaces is seen by nobody but its own thread.                       *)
Trigger(j) ==
  /\ builder[j] = NoBuilder
  /\ status # "running"
  /\ current' = j
  /\ status' = "running"
  /\ builder' = [k \in Job |-> IF k = j THEN [NoBuilder EXCEPT !.pc = "queued"]
                               ELSE [builder[k] EXCEPT !.shown = FALSE]]
  /\ overlap' = \E k \in Job : builder[k] # NoBuilder
  /\ UNCHANGED <<registryVars, tree, stamp>>

Cancel ==
  /\ status = "running"
  /\ status' = "cancelled"
  /\ builder' = [builder EXCEPT ![current].stop = builder[current] # NoBuilder]
  /\ UNCHANGED <<registryVars, tree, stamp, current, overlap>>

(* The next step of thread j, *)
Goto(j, pc) == builder' = [builder EXCEPT ![j].pc = pc]

(* and its end, which it may note in its job. *)
End(j, s) ==
  /\ builder' = [builder EXCEPT ![j] = NoBuilder]
  /\ status' = IF builder[j].shown \/ builder[j].pc = "queued" THEN s ELSE status
  /\ UNCHANGED <<registryVars, tree, stamp, current, overlap>>

(* When it starts it takes for its job the one then in _build_jobs.  It     *)
(* fails without service.json;                                             *)
HasServices == file # Absent

StartWithoutServices(j) ==
  /\ builder[j].pc = "queued"
  /\ ~HasServices
  /\ End(j, "error")

Start(j, pc, t) ==
  /\ builder[j].pc = "queued"
  /\ HasServices
  /\ builder' = [builder EXCEPT ![j] = [@ EXCEPT !.pc = pc, !.shown = TRUE, !.tree = t]]
  /\ UNCHANGED <<registryVars, jobVars>>

(* with resume="yes" and the same parameters it skips a complete taxonomy,  *)
(* whatever the services are now, and goes on with an incomplete one;       *)
MutantSkippable(t) == TRUE

Skippable(t) == t.phase = "complete"

StartAndSkip(j) ==
  /\ tree # Absent /\ stamp # Absent
  /\ Skippable(tree)
  /\ Start(j, "report", Absent)
  /\ UNCHANGED <<tree, stamp>>

StartAndResume(j) ==
  /\ tree # Absent /\ stamp # Absent
  /\ ~Skippable(tree)
  /\ Start(j, "load", tree)
  /\ UNCHANGED <<tree, stamp>>

(* else it begins by deleting the files. *)
StartAndClean(j) ==
  /\ Start(j, "load", Absent)
  /\ tree' = Absent
  /\ stamp' = Absent

(* _load_services_index and, unless it resumes, _init_taxonomy.  A resumed  *)
(* taxonomy keeps the services it was begun with.                          *)
Load(j) ==
  LET t == IF builder[j].tree = Absent THEN [phase |-> "bfs", of |-> file]
           ELSE builder[j].tree
  IN  /\ builder[j].pc = "load"
      /\ ~builder[j].stop
      /\ builder' = [builder EXCEPT ![j] = [@ EXCEPT
           !.pc = IF t.phase = "bfs" THEN "saveTree" ELSE "work",
           !.index = file, !.tree = t]]
      /\ UNCHANGED <<registryVars, tree, stamp, jobVars>>

(* Between the phases the thread looks at stop_event, then it works at the *)
(* next one: splitting the nodes, assigning services across domains.       *)
Work(j) ==
  /\ builder[j].pc = "work"
  /\ ~builder[j].stop
  /\ builder' = [builder EXCEPT ![j].pc = "saveTree",
       ![j].tree.phase = IF @ = "bfs" THEN "cross_domain" ELSE "complete"]
  /\ UNCHANGED <<registryVars, tree, stamp, jobVars>>

(* InterruptedError leaves the job as it is. *)
Interrupt(j) ==
  /\ builder[j].pc \in {"load", "work"}
  /\ builder[j].stop
  /\ End(j, status)

(* _save_output: taxonomy.json first, build_config.json last, both also for *)
(* a taxonomy that is not complete.                                        *)
SaveTree(j) ==
  /\ builder[j].pc = "saveTree"
  /\ tree' = builder[j].tree
  /\ Goto(j, "saveStamp")
  /\ UNCHANGED <<registryVars, stamp, jobVars>>

SaveStamp(j) ==
  /\ builder[j].pc = "saveStamp"
  /\ stamp' = builder[j].index
  /\ builder' = [builder EXCEPT ![j] =
       IF @.tree.phase = "complete"
       THEN [@ EXCEPT !.pc = "report", !.index = Absent, !.tree = Absent]
       ELSE [@ EXCEPT !.pc = "work"]]
  /\ UNCHANGED <<registryVars, tree, jobVars>>

(* The end of a build that was not interrupted, unless the job is no longer *)
(* running when the thread looks; a cancellation may come before it writes. *)
Report(j) ==
  /\ builder[j].pc = "report"
  /\ IF builder[j].shown /\ status = "running"
     THEN Goto(j, "finish") /\ UNCHANGED <<registryVars, tree, stamp, jobVars>>
     ELSE End(j, status)

Finish(j) ==
  /\ builder[j].pc = "finish"
  /\ End(j, "done")

(* Any other exception, such as an LLM that cannot be reached. *)
MutantFail(j) ==
  /\ builder[j].pc \in {"load", "work"}
  /\ End(j, status)

Fail(j) ==
  /\ builder[j].pc \in {"load", "work"}
  /\ End(j, "error")
---------------------------------------------------------------------------
(* A registry that has just started on a dataset without taxonomy, or one   *)
(* to which the dataset is added afterwards.                               *)
Init ==
  /\ tree = Absent
  /\ stamp = Absent
  /\ \/ cache \in Content /\ file = cache /\ state = "nonexistent"
     \/ cache = Absent /\ file = Absent /\ state = "unmanaged"
  /\ thread = [t \in Thread |-> NoHandler]
  /\ search = [s \in Searcher |-> NoSearch]
  /\ current = None
  /\ status = "idle"
  /\ builder = [j \in Job |-> NoBuilder]
  /\ compared = cache
  /\ overlap = FALSE

(* The process dies and starts again.  Startup regenerates the output from  *)
(* what is on disk and computes the state; jobs and threads are gone.      *)
Restart(c) ==
  /\ cache # Absent
  /\ (\A t \in Thread : thread[t] = NoHandler) => c = cache
  /\ cache' = c
  /\ file' = c
  /\ state' = Verdict(IF tree = Absent THEN Absent ELSE stamp, c)
  /\ thread' = [t \in Thread |-> NoHandler]
  /\ search' = [s \in Searcher |-> NoSearch]
  /\ current' = None
  /\ status' = "idle"
  /\ builder' = [j \in Job |-> NoBuilder]
  /\ compared' = c
  /\ overlap' = FALSE
  /\ UNCHANGED <<tree, stamp>>

Build(j) ==
  \/ StartWithoutServices(j) \/ StartAndSkip(j) \/ StartAndResume(j) \/ StartAndClean(j)
  \/ Load(j) \/ Work(j) \/ Interrupt(j)
  \/ SaveTree(j) \/ SaveStamp(j)
  \/ Report(j) \/ Finish(j)
  \/ Fail(j)

Next ==
  \/ \E t \in Thread :
       \/ \E c \in Content : Regenerate(t, c)
       \/ Write(t)
       \/ Mark(t)
  \/ \E s \in Searcher : ReadStamp(s) \/ Compare(s) \/ Store(s)
  \/ \E j \in Job : Trigger(j) \/ Build(j)
  \/ Cancel
  \/ \E c \in Content : Restart(c)

Spec == Init /\ [][Next]_vars

(* The thread of a build runs: its calls of the LLM return or fail.        *)
FairSpec == Spec /\ \A j \in Job : WF_vars(Build(j))
---------------------------------------------------------------------------
(* Every variable has its type. *)
TypeOK ==
  /\ {cache, file, stamp, compared} \subseteq Content \cup {Absent}
  /\ thread \in [Thread -> [pc: {"idle", "write", "mark"}, out: Content \cup {Absent}]]
  /\ state \in {"unmanaged", "nonexistent", "available", "unavailable", "stale"}
  /\ search \in [Searcher -> [pc: {"idle", "compare", "store"},
                              content: Content \cup {Absent},
                              verdict: {"stale", "nonexistent", "available", "unavailable"},
                              late: BOOLEAN]]
  /\ tree \in Tree \cup {Absent}
  /\ current \in Job \cup {None}
  /\ status \in {"idle", "running", "cancelled", "done", "error"}
  /\ builder \in [Job -> Builder]
  /\ overlap \in BOOLEAN

(* A taxonomy that counts as AVAILABLE was found to match the services as  *)
(* they are now: only a handler that has still to mark it, or one that     *)
(* marked it between the comparison of a check and its store, escapes.     *)
AvailableWasCompared ==
  state = "available" /\ (\A t \in Thread : thread[t] = NoHandler)
    => compared \in {cache, Absent}

(* A job that shows "done" leaves a complete taxonomy with its stamp, when  *)
(* it did not begin while the thread of a cancelled job was still at work.  *)
DoneMeansComplete ==
  ~overlap /\ status = "done"
    => tree # Absent /\ tree.phase = "complete" /\ stamp # Absent

(* A job that shows "running" will not do so for ever, also when an older   *)
(* thread works on it: what waits for its end, such as the log stream and   *)
(* the next trigger, is not locked out.                                    *)
RunningJobEnds ==
  status = "running" ~> status # "running"
=============================================================================
