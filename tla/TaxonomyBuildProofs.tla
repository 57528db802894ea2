------------------------ MODULE TaxonomyBuildProofs ------------------------
(***************************************************************************)
(* What TaxonomyBuild promises of a taxonomy that counts as AVAILABLE and  *)
(* of a job that shows "done", for any number of threads, searches, jobs   *)
(* and contents.                                                           *)
(***************************************************************************)
EXTENDS TaxonomyBuild, TLAPS

(* One step of the handlers and of the searches. *)
Crud(t) == (\E c \in Content : Regenerate(t, c)) \/ Write(t) \/ Mark(t)

Check(s) == ReadStamp(s) \/ Compare(s) \/ Store(s)

Handler == [pc: {"idle", "write", "mark"}, out: Content \cup {Absent}]

SearchState == [pc: {"idle", "compare", "store"}, content: Content \cup {Absent},
                verdict: {"stale", "nonexistent", "available", "unavailable"},
                late: BOOLEAN]

RegistryTyped ==
  /\ cache \in Content \cup {Absent} /\ file \in Content \cup {Absent}
  /\ compared \in Content \cup {Absent}
  /\ thread \in [Thread -> Handler]
  /\ \A t \in Thread : thread[t].pc = "write" => thread[t].out # Absent
  /\ state \in {"unmanaged", "nonexistent", "available", "unavailable", "stale"}
  /\ search \in [Searcher -> SearchState]

(* A job at work has its tree and the services it read, and service.json   *)
(* is there.                                                               *)
AtWork(b) ==
  b.pc \in {"work", "saveTree", "saveStamp"} => b.index # Absent /\ b.tree # Absent

BuildTyped ==
  /\ stamp \in Content \cup {Absent}
  /\ tree \in Tree \cup {Absent}
  /\ current \in Job \cup {None}
  /\ status \in {"idle", "running", "cancelled", "done", "error"}
  /\ status = "running" => current \in Job
  /\ builder \in [Job -> Builder]
  /\ \A j \in Job : builder[j].pc \notin {"idle", "queued"} => file # Absent
  /\ \A j \in Job : AtWork(builder[j])
  /\ overlap \in BOOLEAN

Typed == RegistryTyped /\ BuildTyped

LEMMA NoBuilderFacts ==
  /\ NoBuilder \in Builder
  /\ NoBuilder.pc = "idle" /\ ~NoBuilder.shown /\ ~NoBuilder.stop
BY DEF NoBuilder, Builder

LEMMA HandlerFacts ==
  ASSUME NEW pc \in {"idle", "write", "mark"}, NEW out \in Content \cup {Absent}
  PROVE  /\ HandlerAt(pc, out) \in Handler
         /\ HandlerAt(pc, out).pc = pc /\ HandlerAt(pc, out).out = out
BY DEF HandlerAt, Handler

LEMMA SearchFacts ==
  ASSUME NEW pc \in {"idle", "compare", "store"}, NEW content \in Content \cup {Absent},
         NEW verdict \in {"stale", "nonexistent", "available", "unavailable"},
         NEW late \in BOOLEAN
  PROVE  LET s == SearchAt(pc, content, verdict, late)
         IN  /\ s \in SearchState
             /\ s.pc = pc /\ s.content = content /\ s.verdict = verdict /\ s.late = late
BY DEF SearchAt, SearchState

LEMMA IdleFacts ==
  /\ NoHandler \in Handler /\ NoHandler.pc = "idle"
  /\ NoSearch \in SearchState /\ NoSearch.pc = "idle"
BY DEF NoHandler, NoSearch, HandlerAt, SearchAt, Handler, SearchState

LEMMA ContentFacts == \A c \in Content : c # Absent
BY TaxonomyAssumption

LEMMA InitTyped == Init => Typed
<1>. SUFFICES ASSUME Init PROVE Typed
  OBVIOUS
<1>1. RegistryTyped
  BY IdleFacts DEF Init, RegistryTyped
<1>2. BuildTyped
  BY NoBuilderFacts DEF Init, BuildTyped, AtWork
<1>. QED BY <1>1, <1>2 DEF Typed

LEMMA CrudTyped ==
  ASSUME Typed, NEW t \in Thread, Crud(t)
  PROVE  Typed'
<1>1. /\ UNCHANGED buildVars
      /\ file # Absent => file' # Absent
  BY ContentFacts DEF Crud, Regenerate, Write, Mark, Typed, RegistryTyped
<1>2. BuildTyped'
  BY <1>1 DEF Typed, BuildTyped, buildVars, jobVars, AtWork
<1>3. ASSUME NEW c \in Content, Regenerate(t, c) PROVE RegistryTyped'
  <2>1. PICK h \in Handler : /\ thread' = [thread EXCEPT ![t] = h]
                             /\ h.pc = "write" => h.out # Absent
    <3>1. HandlerAt("mark", Absent) \in Handler /\ HandlerAt("mark", Absent).pc # "write"
      BY HandlerFacts
    <3>2. HandlerAt("write", c) \in Handler /\ HandlerAt("write", c).out # Absent
      BY HandlerFacts, ContentFacts
    <3>. QED BY <1>3, <3>1, <3>2 DEF Regenerate
  <2>2. thread' \in [Thread -> Handler] /\ thread'[t] = h
        /\ \A u \in Thread : u # t => thread'[u] = thread[u]
    BY <2>1 DEF Typed, RegistryTyped
  <2>3. \A u \in Thread : thread'[u].pc = "write" => thread'[u].out # Absent
    BY <2>1, <2>2 DEF Typed, RegistryTyped
  <2>4. cache' = c /\ UNCHANGED <<file, state, search, compared>>
    BY <1>3 DEF Regenerate
  <2>. QED BY <2>2, <2>3, <2>4 DEF Typed, RegistryTyped
<1>4. CASE Write(t)
  <2>1. PICK h \in Handler : thread' = [thread EXCEPT ![t] = h] /\ h.pc # "write"
    BY <1>4, HandlerFacts DEF Write
  <2>2. thread[t].out \in Content \cup {Absent}
    BY DEF Typed, RegistryTyped, Handler
  <2>. QED BY <1>2, <1>4, <2>1, <2>2 DEF Write, Typed, RegistryTyped
<1>5. CASE Mark(t)
  <2>1. thread' = [thread EXCEPT ![t] = NoHandler]
    BY <1>5 DEF Mark
  <2>2. search' \in [Searcher -> SearchState]
    <3>1. ASSUME NEW s \in Searcher
          PROVE  [search[s] EXCEPT !.late = @ \/ search[s].pc = "store"] \in SearchState
      BY DEF Typed, RegistryTyped, SearchState
    <3>. QED BY <1>5, <3>1 DEF Mark
  <2>. QED BY <1>2, <1>5, <2>1, <2>2, IdleFacts DEF Mark, Marked, Typed, RegistryTyped
<1>. QED BY <1>2, <1>3, <1>4, <1>5 DEF Crud, Typed

LEMMA CheckTyped ==
  ASSUME Typed, NEW s \in Searcher, Check(s)
  PROVE  Typed'
<1>1. UNCHANGED <<file, buildVars>>
  BY DEF Check, ReadStamp, Compare, Store
<1>2. BuildTyped'
  BY <1>1 DEF Typed, BuildTyped, buildVars, jobVars, AtWork
<1>3. CASE ReadStamp(s)
  <2>1. PICK u \in BOOLEAN : search' = [search EXCEPT ![s] =
          SearchAt("compare", IF tree = Absent \/ u THEN Absent ELSE stamp, "stale", FALSE)]
    BY <1>3 DEF ReadStamp
  <2>2. SearchAt("compare", IF tree = Absent \/ u THEN Absent ELSE stamp, "stale", FALSE)
          \in SearchState
    BY SearchFacts DEF Typed, BuildTyped
  <2>. QED BY <1>2, <1>3, <2>1, <2>2 DEF ReadStamp, Typed, RegistryTyped
<1>4. CASE Compare(s)
  <2>1. SearchAt("store", cache, Verdict(search[s].content, cache), FALSE) \in SearchState
    BY SearchFacts DEF Typed, RegistryTyped, Verdict
  <2>. QED BY <1>2, <1>4, <2>1 DEF Compare, Typed, RegistryTyped
<1>5. CASE Store(s)
  <2>1. search[s] \in SearchState
    BY DEF Typed, RegistryTyped
  <2>2. search[s].content \in Content \cup {Absent}
        /\ search[s].verdict \in {"stale", "nonexistent", "available", "unavailable"}
    BY <2>1 DEF SearchState
  <2>. QED BY <1>2, <1>5, <2>2, IdleFacts DEF Store, Typed, RegistryTyped
<1>. QED BY <1>2, <1>3, <1>4, <1>5 DEF Check, Typed

-----------------------------------------------------------------------------
(* What a job that began alone has left.                                   *)

Saved == tree # Absent /\ tree.phase = "complete" /\ stamp # Absent

(* Without `overlap` the thread of the current job is the only one; it has *)
(* saved a complete taxonomy when all that remains is to report it.        *)
Alone ==
  ~overlap =>
    /\ \A j \in Job : builder[j] # NoBuilder => j = current
    /\ status = "done" => Saved /\ \A j \in Job : builder[j] = NoBuilder
    /\ \A j \in Job :
         /\ builder[j].pc = "saveStamp" => tree = builder[j].tree
         /\ builder[j].pc \in {"report", "finish"} => Saved

(* A step of the thread of job j to the state b. *)
Leads(j, b) ==
  /\ builder[j] # NoBuilder
  /\ builder' = [builder EXCEPT ![j] = b]
  /\ UNCHANGED <<registryVars, current, overlap>>
  /\ b \in Builder
  /\ AtWork(b)
  /\ b.pc \notin {"idle", "queued"} => file # Absent
  /\ stamp' \in Content \cup {Absent}
  /\ tree' \in Tree \cup {Absent}
  /\ status' \in {"idle", "running", "cancelled", "done", "error"}
  /\ status' = "running" => status = "running"
  /\ status' = "done" /\ status # "done" => b = NoBuilder /\ (~overlap => Saved')
  /\ ~overlap => /\ b.pc = "saveStamp" => tree' = b.tree
                 /\ b.pc \in {"report", "finish"} => Saved'

LEMMA LeadsFacts ==
  ASSUME Typed, Alone, NEW j \in Job, NEW b, Leads(j, b)
  PROVE  Typed' /\ Alone'
<1>1. /\ builder \in [Job -> Builder]
      /\ builder' \in [Job -> Builder]
      /\ builder'[j] = b
      /\ \A k \in Job : k # j => builder'[k] = builder[k]
  BY DEF Leads, Typed, BuildTyped
<1>2. RegistryTyped'
  BY DEF Leads, Typed, RegistryTyped, registryVars
<1>3. file' = file /\ current' = current /\ overlap' = overlap
  BY DEF Leads, registryVars
<1>4. \A k \in Job : builder'[k].pc \notin {"idle", "queued"} => file' # Absent
  <2>. SUFFICES ASSUME NEW k \in Job PROVE builder'[k].pc \notin {"idle", "queued"} => file' # Absent
    OBVIOUS
  <2>1. CASE k = j
    BY <1>1, <1>3, <2>1 DEF Leads
  <2>2. CASE k # j
    BY <1>1, <1>3, <2>2 DEF Typed, BuildTyped
  <2>. QED BY <2>1, <2>2
<1>5. \A k \in Job : AtWork(builder'[k])
  BY <1>1 DEF Leads, Typed, BuildTyped
<1>6. stamp' \in Content \cup {Absent} /\ tree' \in Tree \cup {Absent}
      /\ status' \in {"idle", "running", "cancelled", "done", "error"}
      /\ (status' = "running" => status = "running")
  BY DEF Leads
<1>7. BuildTyped'
  BY <1>1, <1>3, <1>4, <1>5, <1>6 DEF Typed, BuildTyped, AtWork
<1>8. ASSUME ~overlap PROVE Alone'
  <2>1. j = current /\ status # "done" /\ \A k \in Job : k # j => builder[k] = NoBuilder
    BY <1>8 DEF Alone, Leads
  <2>2. \A k \in Job : k # j => builder'[k] = NoBuilder
    BY <1>1, <2>1
  <2>3. status' = "done" => Saved' /\ b = NoBuilder
    BY <1>8, <2>1 DEF Leads
  <2>4. /\ b.pc = "saveStamp" => tree' = b.tree
        /\ b.pc \in {"report", "finish"} => Saved'
    BY <1>8 DEF Leads
  <2>5. \A k \in Job : /\ builder'[k].pc = "saveStamp" => tree' = builder'[k].tree
                       /\ builder'[k].pc \in {"report", "finish"} => Saved'
    BY <1>1, <2>2, <2>4, NoBuilderFacts
  <2>. QED BY <1>1, <1>3, <2>1, <2>2, <2>3, <2>5 DEF Alone
<1>. QED BY <1>2, <1>3, <1>7, <1>8 DEF Typed, Alone

LEMMA BuilderFacts ==
  ASSUME NEW b \in Builder
  PROVE  /\ b.index \in Content \cup {Absent} /\ b.tree \in Tree \cup {Absent}
         /\ b.stop \in BOOLEAN /\ b.shown \in BOOLEAN
         /\ b.pc # "idle" => b # NoBuilder
BY NoBuilderFacts DEF Builder

(* The end of a thread: in an error, interrupted, or with all saved. *)
LEMMA EndLeads ==
  ASSUME Typed, NEW j \in Job, builder[j] # NoBuilder,
         NEW s \in {"error", "done", status}, End(j, s), s = "done" /\ ~overlap => Saved
  PROVE  Leads(j, NoBuilder)
<1>1. /\ builder' = [builder EXCEPT ![j] = NoBuilder]
      /\ status' \in {s, status}
      /\ UNCHANGED <<registryVars, tree, stamp, current, overlap>>
  BY DEF End
<1>2. Saved => Saved'
  BY <1>1 DEF Saved
<1>3. status \in {"idle", "running", "cancelled", "done", "error"}
      /\ stamp \in Content \cup {Absent} /\ tree \in Tree \cup {Absent}
  BY DEF Typed, BuildTyped
<1>. QED BY <1>1, <1>2, <1>3, NoBuilderFacts DEF Leads, AtWork

LEMMA StartLeads ==
  ASSUME Typed, Alone, NEW j \in Job, StartWithoutServices(j) \/ StartAndSkip(j)
           \/ StartAndResume(j) \/ StartAndClean(j)
  PROVE  \E b : Leads(j, b)
<1>1. builder[j] \in Builder /\ builder[j] # NoBuilder
  BY BuilderFacts DEF StartWithoutServices, StartAndSkip, StartAndResume, StartAndClean,
     Start, Typed, BuildTyped
<1>2. CASE StartWithoutServices(j)
  <2>1. End(j, "error")
    BY <1>2 DEF StartWithoutServices
  <2>. QED BY <1>1, <2>1, EndLeads
<1>3. ASSUME NEW pc \in {"report", "load"}, NEW t \in Tree \cup {Absent}, Start(j, pc, t),
             stamp' \in Content \cup {Absent}, tree' \in Tree \cup {Absent},
             pc = "report" => Saved'
      PROVE  \E b : Leads(j, b)
  <2>. DEFINE b == [builder[j] EXCEPT !.pc = pc, !.shown = TRUE, !.tree = t]
  <2>1. b \in Builder /\ b.pc = pc
    BY <1>1 DEF Builder
  <2>. HIDE DEF b
  <2>2. /\ builder' = [builder EXCEPT ![j] = b]
        /\ UNCHANGED <<registryVars, jobVars>>
        /\ file # Absent
    BY <1>3 DEF Start, HasServices, b
  <2>3. status \in {"idle", "running", "cancelled", "done", "error"}
    BY DEF Typed, BuildTyped
  <2>4. Leads(j, b)
    BY <1>1, <1>3, <2>1, <2>2, <2>3 DEF Leads, AtWork, jobVars
  <2>. QED BY <2>4
<1>4. CASE StartAndSkip(j)
  <2>1. Saved' /\ Start(j, "report", Absent) /\ UNCHANGED <<tree, stamp>>
    BY <1>4 DEF StartAndSkip, Saved, Skippable
  <2>2. stamp' \in Content \cup {Absent} /\ tree' \in Tree \cup {Absent}
    BY <2>1 DEF Typed, BuildTyped
  <2>. QED BY <1>3, <2>1, <2>2
<1>5. CASE StartAndResume(j)
  <2>1. Start(j, "load", tree) /\ UNCHANGED <<tree, stamp>>
    BY <1>5 DEF StartAndResume
  <2>2. stamp' \in Content \cup {Absent} /\ tree \in Tree \cup {Absent} /\ tree' = tree
    BY <2>1 DEF Typed, BuildTyped
  <2>. QED BY <1>3, <2>1, <2>2
<1>6. CASE StartAndClean(j)
  <2>1. Start(j, "load", Absent) /\ tree' = Absent /\ stamp' = Absent
    BY <1>6 DEF StartAndClean
  <2>. QED BY <1>3, <2>1
<1>. QED BY <1>2, <1>4, <1>5, <1>6

LEMMA LoadLeads ==
  ASSUME Typed, Alone, NEW j \in Job, Load(j)
  PROVE  \E b : Leads(j, b)
<1>. DEFINE t == IF builder[j].tree = Absent THEN [phase |-> "bfs", of |-> file]
                 ELSE builder[j].tree
            pc == IF t.phase = "bfs" THEN "saveTree" ELSE "work"
            b == [builder[j] EXCEPT !.pc = pc, !.index = file, !.tree = t]
<1>1. /\ builder[j] \in Builder /\ builder[j].pc = "load" /\ builder[j] # NoBuilder
      /\ file \in Content /\ file # Absent
  BY BuilderFacts, ContentFacts DEF Load, Typed, BuildTyped, RegistryTyped
<1>2. t \in Tree
  <2>1. CASE builder[j].tree = Absent
    BY <1>1, <2>1 DEF Tree
  <2>2. CASE builder[j].tree # Absent
    BY <1>1, <2>2, BuilderFacts
  <2>. QED BY <2>1, <2>2
<1>3. t # Absent
  BY <1>2, TaxonomyAssumption
<1>4. /\ b \in Builder /\ b.pc = pc /\ b.index = file /\ b.tree = t
      /\ pc \in {"saveTree", "work"}
  BY <1>1, <1>2 DEF Builder
<1>5. builder' = [builder EXCEPT ![j] = b]
  BY DEF Load
<1>. HIDE DEF b, t, pc
<1>6. /\ UNCHANGED <<registryVars, tree, stamp, jobVars>>
      /\ stamp \in Content \cup {Absent} /\ tree \in Tree \cup {Absent}
      /\ status \in {"idle", "running", "cancelled", "done", "error"}
  BY DEF Load, Typed, BuildTyped
<1>7. AtWork(b)
  BY <1>1, <1>3, <1>4 DEF AtWork
<1>8. Leads(j, b)
  BY <1>1, <1>4, <1>5, <1>6, <1>7 DEF Leads, jobVars
<1>. QED BY <1>8

LEMMA WorkLeads ==
  ASSUME Typed, Alone, NEW j \in Job, Work(j)
  PROVE  \E b : Leads(j, b)
<1>. DEFINE old == builder[j]
            t == [old.tree EXCEPT !.phase = IF @ = "bfs" THEN "cross_domain" ELSE "complete"]
            b == [old EXCEPT !.pc = "saveTree", !.tree = t]
<1>1. /\ builder \in [Job -> Builder] /\ old \in Builder
      /\ old.pc = "work" /\ old # NoBuilder
      /\ file # Absent /\ old.index # Absent
      /\ old.tree \in Tree
  BY BuilderFacts DEF Work, Typed, BuildTyped, AtWork
<1>2. t \in Tree
  BY <1>1 DEF Tree
<1>3. b \in Builder /\ b.pc = "saveTree" /\ b.index = old.index /\ b.tree = t
  BY <1>1, <1>2 DEF Builder
<1>4. builder' = [builder EXCEPT ![j] = b]
  BY <1>1 DEF Work, Builder
<1>. HIDE DEF b, t
<1>5. /\ UNCHANGED <<registryVars, tree, stamp, jobVars>>
      /\ stamp \in Content \cup {Absent} /\ tree \in Tree \cup {Absent}
      /\ status \in {"idle", "running", "cancelled", "done", "error"}
  BY DEF Work, Typed, BuildTyped
<1>6. AtWork(b)
  BY <1>1, <1>2, <1>3, TaxonomyAssumption DEF AtWork
<1>7. Leads(j, b)
  BY <1>1, <1>3, <1>4, <1>5, <1>6 DEF Leads, jobVars
<1>. QED BY <1>7

LEMMA SaveLeads ==
  ASSUME Typed, Alone, NEW j \in Job, SaveTree(j) \/ SaveStamp(j)
  PROVE  \E b : Leads(j, b)
<1>. DEFINE old == builder[j]
<1>1. /\ builder \in [Job -> Builder] /\ old \in Builder
      /\ old.pc \in {"saveTree", "saveStamp"} /\ old # NoBuilder
      /\ file # Absent
      /\ old.index \in Content /\ old.index # Absent
      /\ old.tree \in Tree /\ old.tree # Absent
  BY BuilderFacts DEF SaveTree, SaveStamp, Typed, BuildTyped, AtWork
<1>2. /\ UNCHANGED <<registryVars, jobVars>>
      /\ stamp \in Content \cup {Absent} /\ tree \in Tree \cup {Absent}
      /\ status \in {"idle", "running", "cancelled", "done", "error"}
  BY DEF SaveTree, SaveStamp, Typed, BuildTyped
<1>3. CASE SaveTree(j)
  <2>. DEFINE b == [old EXCEPT !.pc = "saveStamp"]
  <2>1. b \in Builder /\ b.pc = "saveStamp" /\ b.index = old.index /\ b.tree = old.tree
    BY <1>1 DEF Builder
  <2>2. /\ builder' = [builder EXCEPT ![j] = b]
        /\ tree' = old.tree /\ stamp' = stamp
    BY <1>3, <1>1 DEF SaveTree, Goto, Builder
  <2>. HIDE DEF b
  <2>3. Leads(j, b)
    BY <1>1, <1>2, <2>1, <2>2 DEF Leads, jobVars, AtWork
  <2>. QED BY <2>3
<1>4. CASE SaveStamp(j) /\ old.tree.phase = "complete"
  <2>. DEFINE b == [old EXCEPT !.pc = "report", !.index = Absent, !.tree = Absent]
  <2>1. b \in Builder /\ b.pc = "report"
    BY <1>1 DEF Builder
  <2>2. /\ builder' = [builder EXCEPT ![j] = b]
        /\ tree' = tree /\ stamp' = old.index
    BY <1>4 DEF SaveStamp
  <2>. HIDE DEF b
  <2>3. ~overlap => Saved'
    BY <1>1, <1>4, <2>2 DEF SaveStamp, Alone, Saved
  <2>4. Leads(j, b)
    BY <1>1, <1>2, <2>1, <2>2, <2>3 DEF Leads, jobVars, AtWork
  <2>. QED BY <2>4
<1>5. CASE SaveStamp(j) /\ old.tree.phase # "complete"
  <2>. DEFINE b == [old EXCEPT !.pc = "work"]
  <2>1. b \in Builder /\ b.pc = "work" /\ b.index = old.index /\ b.tree = old.tree
    BY <1>1 DEF Builder
  <2>2. /\ builder' = [builder EXCEPT ![j] = b]
        /\ tree' = tree /\ stamp' = old.index
    BY <1>5 DEF SaveStamp
  <2>. HIDE DEF b
  <2>3. Leads(j, b)
    BY <1>1, <1>2, <2>1, <2>2 DEF Leads, jobVars, AtWork
  <2>. QED BY <2>3
<1>. QED BY <1>3, <1>4, <1>5

LEMMA EndingLeads ==
  ASSUME Typed, Alone, NEW j \in Job, Interrupt(j) \/ Report(j) \/ Finish(j) \/ Fail(j)
  PROVE  \E b : Leads(j, b)
<1>. DEFINE old == builder[j]
<1>1. /\ old \in Builder /\ old # NoBuilder
      /\ old.pc \notin {"idle", "queued"} /\ file # Absent
  BY BuilderFacts DEF Interrupt, Report, Finish, Fail, Typed, BuildTyped
<1>2. status \in {"idle", "running", "cancelled", "done", "error"}
      /\ stamp \in Content \cup {Absent} /\ tree \in Tree \cup {Absent}
  BY DEF Typed, BuildTyped
<1>3. CASE Interrupt(j)
  <2>1. End(j, status)
    BY <1>3 DEF Interrupt
  <2>2. status = "done" /\ ~overlap => Saved
    BY DEF Alone
  <2>. QED BY <1>1, <2>1, <2>2, EndLeads
<1>4. CASE Fail(j)
  <2>1. End(j, "error")
    BY <1>4 DEF Fail
  <2>. QED BY <1>1, <2>1, EndLeads
<1>5. CASE Finish(j)
  <2>1. End(j, "done") /\ old.pc = "finish"
    BY <1>5 DEF Finish
  <2>2. ~overlap => Saved
    BY <2>1 DEF Alone
  <2>. QED BY <1>1, <2>1, <2>2, EndLeads
<1>6. CASE Report(j) /\ old.shown /\ status = "running"
  <2>. DEFINE b == [old EXCEPT !.pc = "finish"]
  <2>1. b \in Builder /\ b.pc = "finish"
    BY <1>1 DEF Builder
  <2>2. /\ builder' = [builder EXCEPT ![j] = b]
        /\ old.pc = "report"
        /\ UNCHANGED <<registryVars, tree, stamp, jobVars>>
    BY <1>6, <1>1 DEF Report, Goto, Builder, Typed, BuildTyped
  <2>. HIDE DEF b
  <2>3. ~overlap => Saved'
    BY <2>2 DEF Alone, Saved
  <2>4. Leads(j, b)
    BY <1>1, <1>2, <2>1, <2>2, <2>3 DEF Leads, jobVars, AtWork
  <2>. QED BY <2>4
<1>7. CASE Report(j) /\ ~(old.shown /\ status = "running")
  <2>1. End(j, status)
    BY <1>7 DEF Report
  <2>2. status = "done" /\ ~overlap => Saved
    BY DEF Alone
  <2>. QED BY <1>1, <2>1, <2>2, EndLeads
<1>. QED BY <1>3, <1>4, <1>5, <1>6, <1>7

LEMMA FlagFacts ==
  ASSUME NEW b \in Builder
  PROVE  /\ [b EXCEPT !.pc = "queued"] \in Builder
         /\ [b EXCEPT !.pc = "queued"].pc = "queued"
         /\ ~b.shown => [b EXCEPT !.shown = FALSE] = b
         /\ ~b.stop => [b EXCEPT !.stop = FALSE] = b
BY DEF Builder

LEMMA TriggerStep ==
  ASSUME Typed, NEW j \in Job, Trigger(j)
  PROVE  Typed' /\ Alone'
<1>. DEFINE new == [NoBuilder EXCEPT !.pc = "queued"]
<1>1. /\ new \in Builder /\ new.pc = "queued"
      /\ [NoBuilder EXCEPT !.shown = FALSE] = NoBuilder
  BY NoBuilderFacts, FlagFacts
<1>2. /\ current' = j /\ status' = "running"
      /\ overlap' = \E k \in Job : builder[k] # NoBuilder
      /\ UNCHANGED <<registryVars, tree, stamp>>
  BY DEF Trigger
<1>3. builder' = [k \in Job |-> IF k = j THEN new ELSE [builder[k] EXCEPT !.shown = FALSE]]
  BY DEF Trigger
<1>. HIDE DEF new
<1>4. /\ builder'[j] = new
      /\ \A k \in Job : k # j => builder'[k] = [builder[k] EXCEPT !.shown = FALSE]
  BY <1>3
<1>5. ASSUME NEW k \in Job
      PROVE  /\ builder'[k] \in Builder
             /\ builder'[k].pc \notin {"idle", "queued"} => file # Absent
             /\ AtWork(builder'[k])
  <2>1. CASE k = j
    BY <1>1, <1>4, <2>1 DEF AtWork
  <2>2. CASE k # j
    <3>1. /\ builder[k] \in Builder /\ AtWork(builder[k])
          /\ builder[k].pc \notin {"idle", "queued"} => file # Absent
      BY DEF Typed, BuildTyped
    <3>2. /\ builder'[k] \in Builder /\ builder'[k].pc = builder[k].pc
          /\ builder'[k].index = builder[k].index /\ builder'[k].tree = builder[k].tree
      BY <1>4, <2>2, <3>1 DEF Builder
    <3>. QED BY <3>1, <3>2 DEF AtWork
  <2>. QED BY <2>1, <2>2
<1>6. builder' \in [Job -> Builder]
  BY <1>3, <1>5
<1>7. file' = file
  BY <1>2 DEF registryVars
<1>8. BuildTyped'
  BY <1>2, <1>5, <1>6, <1>7 DEF Typed, BuildTyped
<1>9. RegistryTyped'
  BY <1>2 DEF Typed, RegistryTyped, registryVars
<1>10. ASSUME ~overlap' PROVE Alone'
  <2>1. \A k \in Job : k # j => builder'[k] = NoBuilder
    BY <1>1, <1>2, <1>4, <1>10
  <2>. QED BY <1>1, <1>2, <1>4, <2>1, NoBuilderFacts DEF Alone
<1>. QED BY <1>8, <1>9, <1>10 DEF Typed, Alone

LEMMA CancelStep ==
  ASSUME Typed, Alone, Cancel
  PROVE  Typed' /\ Alone'
<1>. DEFINE c == current
            old == builder[c]
            b == [old EXCEPT !.stop = old # NoBuilder]
<1>1. /\ status' = "cancelled" /\ status = "running" /\ c \in Job
      /\ builder \in [Job -> Builder] /\ old \in Builder
      /\ UNCHANGED <<registryVars, tree, stamp, current, overlap>>
  BY DEF Cancel, Typed, BuildTyped
<1>2. /\ b \in Builder /\ b.pc = old.pc /\ b.index = old.index /\ b.tree = old.tree
      /\ old = NoBuilder => b = NoBuilder
  <2>1. /\ b \in Builder /\ b.pc = old.pc /\ b.index = old.index /\ b.tree = old.tree
    BY <1>1 DEF Builder
  <2>2. old = NoBuilder => b = NoBuilder
    BY <1>1, FlagFacts, NoBuilderFacts
  <2>. QED BY <2>1, <2>2
<1>3. builder' = [builder EXCEPT ![c] = b]
  BY <1>1 DEF Cancel, Builder
<1>. HIDE DEF b
<1>4. /\ builder' \in [Job -> Builder] /\ builder'[c] = b
      /\ \A k \in Job : k # c => builder'[k] = builder[k]
  BY <1>1, <1>2, <1>3
<1>5. ASSUME NEW k \in Job
      PROVE  builder'[k].pc = builder[k].pc /\ builder'[k].index = builder[k].index
             /\ builder'[k].tree = builder[k].tree
             /\ (builder[k] = NoBuilder => builder'[k] = NoBuilder)
  BY <1>2, <1>4
<1>6. BuildTyped'
  BY <1>1, <1>4, <1>5 DEF Typed, BuildTyped, AtWork, registryVars
<1>7. RegistryTyped'
  BY <1>1 DEF Typed, RegistryTyped, registryVars
<1>8. Alone'
  BY <1>1, <1>5 DEF Alone, Saved
<1>. QED BY <1>6, <1>7, <1>8 DEF Typed

LEMMA RestartStep ==
  ASSUME Typed, NEW c \in Content, Restart(c)
  PROVE  Typed' /\ Alone'
<1>1. /\ cache' = c /\ file' = c /\ compared' = c /\ c # Absent
      /\ state' \in {"nonexistent", "available", "unavailable"}
      /\ thread' = [t \in Thread |-> NoHandler]
      /\ search' = [s \in Searcher |-> NoSearch]
      /\ current' = None /\ status' = "idle"
      /\ builder' = [j \in Job |-> NoBuilder]
      /\ overlap' = FALSE
      /\ UNCHANGED <<tree, stamp>>
  BY ContentFacts DEF Restart, Verdict
<1>2. RegistryTyped'
  BY <1>1, IdleFacts DEF RegistryTyped
<1>3. BuildTyped'
  BY <1>1, NoBuilderFacts DEF Typed, BuildTyped, AtWork
<1>4. Alone'
  BY <1>1, NoBuilderFacts DEF Alone
<1>. QED BY <1>2, <1>3, <1>4 DEF Typed

-----------------------------------------------------------------------------
(* Whatever a search stored was found against the services of now, if no   *)
(* handler has marked the taxonomy since or has still to mark it.          *)
Settled == \A t \in Thread : thread[t] = NoHandler

Found(s) ==
  Settled /\ search[s].pc = "store" /\ search[s].verdict = "available" /\ ~search[s].late
    => search[s].content = cache

VerdictInv ==
  /\ AvailableWasCompared
  /\ \A s \in Searcher : Found(s)

LEMMA CrudVerdict ==
  ASSUME Typed, VerdictInv, NEW t \in Thread, Crud(t)
  PROVE  VerdictInv'
<1>1. thread \in [Thread -> Handler] /\ search \in [Searcher -> SearchState]
  BY DEF Typed, RegistryTyped
<1>2. CASE (\E c \in Content : Regenerate(t, c)) \/ Write(t)
  <2>1. thread'[t].pc \in {"mark", "write"}
    BY <1>1, <1>2, HandlerFacts DEF Regenerate, Write
  <2>2. ~Settled'
    BY <2>1, IdleFacts DEF Settled
  <2>. QED BY <2>2 DEF VerdictInv, AvailableWasCompared, Found, Settled
<1>3. CASE Mark(t)
  <2>1. state' # "available"
    BY <1>3 DEF Mark, Marked
  <2>2. \A s \in Searcher : search'[s].pc = "store" => search'[s].late
    BY <1>1, <1>3 DEF Mark, SearchState
  <2>3. \A s \in Searcher : Found(s)'
    BY <2>2 DEF Found
  <2>4. AvailableWasCompared'
    BY <2>1 DEF AvailableWasCompared
  <2>. QED BY <2>3, <2>4 DEF VerdictInv
<1>. QED BY <1>2, <1>3 DEF Crud

LEMMA CheckVerdict ==
  ASSUME Typed, VerdictInv, NEW s \in Searcher, Check(s)
  PROVE  VerdictInv'
<1>1. search \in [Searcher -> SearchState]
  BY DEF Typed, RegistryTyped
<1>2. UNCHANGED <<cache, thread>>
  BY DEF Check, ReadStamp, Compare, Store
<1>3. ASSUME NEW new, search' = [search EXCEPT ![s] = new],
             new.pc = "store" /\ new.verdict = "available" => new.content = cache
      PROVE  \A r \in Searcher : Found(r)'
  <2>. SUFFICES ASSUME NEW r \in Searcher PROVE Found(r)'
    OBVIOUS
  <2>1. CASE r = s
    BY <1>1, <1>2, <1>3, <2>1 DEF Found, Settled
  <2>2. CASE r # s
    BY <1>1, <1>2, <1>3, <2>2 DEF Found, Settled, VerdictInv
  <2>. QED BY <2>1, <2>2
<1>4. CASE ReadStamp(s)
  <2>1. PICK u \in BOOLEAN : search' = [search EXCEPT ![s] =
          SearchAt("compare", IF tree = Absent \/ u THEN Absent ELSE stamp, "stale", FALSE)]
    BY <1>4 DEF ReadStamp
  <2>2. SearchAt("compare", IF tree = Absent \/ u THEN Absent ELSE stamp, "stale", FALSE).pc
          # "store"
    BY DEF SearchAt
  <2>3. UNCHANGED <<state, compared>>
    BY <1>4 DEF ReadStamp
  <2>. QED BY <1>2, <1>3, <2>1, <2>2, <2>3 DEF VerdictInv, AvailableWasCompared
<1>5. CASE Compare(s)
  <2>. DEFINE new == SearchAt("store", cache, Verdict(search[s].content, cache), FALSE)
  <2>1. search' = [search EXCEPT ![s] = new] /\ UNCHANGED <<state, compared>>
    BY <1>5 DEF Compare
  <2>2. new.content = cache
    BY DEF SearchAt
  <2>. QED BY <1>2, <1>3, <2>1, <2>2 DEF VerdictInv, AvailableWasCompared
<1>6. CASE Store(s)
  <2>1. /\ search' = [search EXCEPT ![s] = NoSearch]
        /\ search[s].pc = "store" /\ state' = search[s].verdict
        /\ compared' = IF search[s].late THEN Absent ELSE search[s].content
    BY <1>6 DEF Store
  <2>2. \A r \in Searcher : Found(r)'
    BY <1>3, <2>1, IdleFacts
  <2>3. AvailableWasCompared'
    BY <1>2, <2>1 DEF VerdictInv, Found, Settled, AvailableWasCompared
  <2>. QED BY <2>2, <2>3 DEF VerdictInv
<1>. QED BY <1>4, <1>5, <1>6 DEF Check

LEMMA RestartVerdict ==
  ASSUME NEW c \in Content, Restart(c)
  PROVE  VerdictInv'
<1>1. /\ cache' = c /\ compared' = c
      /\ search' = [s \in Searcher |-> NoSearch]
  BY DEF Restart
<1>. QED BY <1>1, IdleFacts DEF VerdictInv, AvailableWasCompared, Found

-----------------------------------------------------------------------------
IInv == Typed /\ Alone /\ VerdictInv

LEMMA InitIInv == Init => IInv
<1>. SUFFICES ASSUME Init PROVE IInv
  OBVIOUS
<1>1. Alone
  BY NoBuilderFacts DEF Init, Alone
<1>2. VerdictInv
  BY IdleFacts DEF Init, VerdictInv, AvailableWasCompared, Found
<1>. QED BY <1>1, <1>2, InitTyped DEF IInv

LEMMA QuietVerdict ==
  ASSUME VerdictInv, UNCHANGED registryVars
  PROVE  VerdictInv'
BY DEF VerdictInv, AvailableWasCompared, Found, Settled, registryVars

LEMMA QuietAlone ==
  ASSUME Alone, UNCHANGED buildVars
  PROVE  Alone'
BY DEF Alone, Saved, buildVars, jobVars

LEMMA NextIInv == IInv /\ [Next]_vars => IInv'
<1>. SUFFICES ASSUME IInv, [Next]_vars PROVE IInv'
  OBVIOUS
<1>. USE DEF IInv
<1>1. ASSUME NEW t \in Thread, Crud(t) PROVE IInv'
  <2>1. UNCHANGED buildVars
    BY <1>1 DEF Crud, Regenerate, Write, Mark
  <2>. QED BY <1>1, <2>1, CrudTyped, CrudVerdict, QuietAlone
<1>2. ASSUME NEW s \in Searcher, Check(s) PROVE IInv'
  <2>1. UNCHANGED buildVars
    BY <1>2 DEF Check, ReadStamp, Compare, Store
  <2>. QED BY <1>2, <2>1, CheckTyped, CheckVerdict, QuietAlone
<1>3. ASSUME NEW j \in Job, Trigger(j) PROVE IInv'
  <2>1. UNCHANGED registryVars
    BY <1>3 DEF Trigger
  <2>. QED BY <1>3, <2>1, TriggerStep, QuietVerdict
<1>4. ASSUME NEW j \in Job, Build(j) PROVE IInv'
  <2>1. PICK b : Leads(j, b)
    BY <1>4, StartLeads, LoadLeads, WorkLeads, SaveLeads, EndingLeads DEF Build
  <2>2. UNCHANGED registryVars
    BY <2>1 DEF Leads
  <2>. QED BY <2>1, <2>2, LeadsFacts, QuietVerdict
<1>5. CASE Cancel
  <2>1. UNCHANGED registryVars
    BY <1>5 DEF Cancel
  <2>. QED BY <1>5, <2>1, CancelStep, QuietVerdict
<1>6. ASSUME NEW c \in Content, Restart(c) PROVE IInv'
  BY <1>6, RestartStep, RestartVerdict
<1>7. CASE UNCHANGED vars
  <2>1. UNCHANGED registryVars /\ UNCHANGED buildVars
    BY <1>7 DEF vars
  <2>2. RegistryTyped'
    BY <2>1 DEF registryVars, Typed, RegistryTyped
  <2>3. BuildTyped'
    BY <2>1 DEF registryVars, buildVars, jobVars, Typed, BuildTyped, AtWork
  <2>. QED BY <2>1, <2>2, <2>3, QuietVerdict, QuietAlone DEF Typed
<1>8. Next => \/ \E t \in Thread : Crud(t)
              \/ \E s \in Searcher : Check(s)
              \/ \E j \in Job : Trigger(j) \/ Build(j)
              \/ Cancel
              \/ \E c \in Content : Restart(c)
  BY DEF Next, Crud, Check
<1>. QED BY <1>1, <1>2, <1>3, <1>4, <1>5, <1>6, <1>7, <1>8

(* In every reachable state the variables have their types, a job that     *)
(* began alone saved what it is about to report, and the verdicts of the   *)
(* searches are about the services of now.                                 *)
THEOREM SpecIInv == Spec => []IInv
BY InitIInv, NextIInv, PTL DEF Spec

(* check_taxonomy_state: with every handler done, a taxonomy that counts   *)
(* as AVAILABLE was last found to match the services as they are now, or   *)
(* its verdict was stored after a handler had marked it.                   *)
THEOREM SpecAvailableWasCompared == Spec => []AvailableWasCompared
BY SpecIInv, PTL DEF IInv, VerdictInv

(* The build thread: a job that did not begin beside an older thread and   *)
(* shows "done" leaves a complete taxonomy and its stamp, through          *)
(* cancellation, failure, resumption and restarts.                         *)
THEOREM SpecDoneMeansComplete == Spec => []DoneMeansComplete
<1>1. IInv => DoneMeansComplete
  BY DEF IInv, Alone, Saved, DoneMeansComplete
<1>. QED BY <1>1, SpecIInv, PTL
=============================================================================
