--------------------------- MODULE RegistryProofs ---------------------------
(***************************************************************************)
(* Proofs about the two parts of RegistryService (register/service.py):    *)
(* register, update and deregister with what they write, for every set of   *)
(* services, values and threads; and the reservation leases, for every      *)
(* number of services, callers, workers and ttls, and with no bound on the *)
(* clock.                                                                  *)
(***************************************************************************)
EXTENDS RegistryCrud, Reservation, TLAPS

(***************************************************************************)
(* Register, update and deregister (RegistryCrud).                         *)
(***************************************************************************)
USE RegistryCrudAssumption DEF RegistryCrudAssumption

-----------------------------------------------------------------------------
LEMMA NoEntryFacts ==
  /\ NoEntry.value = Absent
  /\ NoEntry.source = "none"
  /\ \A e \in Entry : e # NoEntry /\ e.value # Absent /\ e.source # "none"
BY DEF NoEntry, Entry

LEMMA IdleFacts ==
  /\ Idle \in ThreadState
  /\ Idle.pc = "idle" /\ Idle.sid = None /\ Idle.sid \notin Sid
BY DEF Idle, ThreadState, Output

(* A thread that goes on changes nothing but its pc.                       *)
LEMMA GotoFacts ==
  ASSUME thread \in [Thread -> ThreadState], NEW t \in Thread,
         NEW pc \in {"idle", "rewrite", "commit", "save", "remove", "regenerate",
                     "write", "announce"}, Goto(t, pc)
  PROVE  /\ thread' \in [Thread -> ThreadState]
         /\ \A u \in Thread : u # t => thread'[u] = thread[u]
         /\ thread'[t].pc = pc /\ thread'[t].op = thread[t].op
         /\ thread'[t].sid = thread[t].sid /\ thread'[t].entry = thread[t].entry
         /\ thread'[t].out = thread[t].out
BY DEF Goto, ThreadState

LEMMA TakeFacts ==
  ASSUME thread \in [Thread -> ThreadState], NEW t \in Thread, NEW s \in Sid,
         NEW op \in {"register", "update", "deregister"},
         NEW e \in Entry \cup {NoEntry},
         NEW pc \in {"rewrite", "commit", "save", "remove", "regenerate"},
         Take(t, op, s, e, pc)
  PROVE  /\ thread' \in [Thread -> ThreadState]
         /\ \A u \in Thread : u # t => thread'[u] = thread[u]
         /\ thread'[t].pc = pc /\ thread'[t].op = op
         /\ thread'[t].sid = s /\ thread'[t].entry = e
BY IdleFacts DEF Take, ThreadState, Idle

LEMMA DoneFacts ==
  ASSUME thread \in [Thread -> ThreadState], NEW t \in Thread, Done(t)
  PROVE  /\ thread' \in [Thread -> ThreadState]
         /\ \A u \in Thread : u # t => thread'[u] = thread[u]
         /\ thread'[t] = Idle
BY IdleFacts DEF Done

-----------------------------------------------------------------------------
(* Who the entries and the requests belong to.                             *)

Shape ==
  \A t \in Thread :
    /\ thread[t].pc = "idle" => thread[t] = Idle
    /\ thread[t].pc # "idle" => thread[t].sid \in Sid /\ thread[t].op # "none"
    /\ thread[t].pc \in {"rewrite", "commit", "save"} =>
         thread[t].entry \in Entry /\ thread[t].op # "deregister"
    /\ thread[t].pc \in {"rewrite", "commit", "save"} =>
         (thread[t].entry.source = "skill_folder" <=> thread[t].sid \in SkillSid)
    /\ thread[t].pc = "rewrite" => thread[t].op = "update" /\ thread[t].sid \in SkillSid
    /\ thread[t].pc = "remove" => thread[t].op = "deregister"

SkillsAreSkills ==
  \A s \in Sid : Present(s) => (entries[s].source = "skill_folder" <=> s \in SkillSid)

Base == TypeOK /\ Shape /\ SkillsAreSkills

Acts(t) ==
  \/ \E s \in Sid :
       \/ \E v \in Value :
            \/ \E source \in Sources : Register(t, s, v, source)
            \/ UploadSkill(t, s, v)
            \/ Update(t, s, v)
       \/ Deregister(t, s)
  \/ RefuseSkill(t) \/ RewriteSkill(t) \/ Commit(t) \/ UpdateGone(t)
  \/ Save(t) \/ Remove(t)
  \/ Regenerate(t) \/ Write(t) \/ Announce(t)

LEMMA InitBase == Init => Base
<1>. SUFFICES ASSUME Init PROVE Base
  OBVIOUS
<1>1. TypeOK
  BY IdleFacts DEF Init, TypeOK, Output, OutputOf, NoEntry
<1>2. Shape /\ SkillsAreSkills
  BY IdleFacts DEF Init, Shape, SkillsAreSkills, Present
<1>. QED BY <1>1, <1>2 DEF Base

LEMMA RegisterBase ==
  ASSUME Base, NEW t \in Thread, NEW s \in Sid, NEW v \in Value, NEW source \in Sources,
         Register(t, s, v, source)
  PROVE  Base'
<1>. DEFINE e == [value |-> v, source |-> source]
<1>1. e \in Entry /\ e.source = source /\ source # "skill_folder" /\ s \notin SkillSid
      /\ AfterCommit(e) \in {"save", "regenerate"}
  BY DEF Entry, AfterCommit, Register
<1>2. /\ Take(t, "register", s, e, AfterCommit(e)) /\ entries' = [entries EXCEPT ![s] = e]
      /\ UNCHANGED <<disk, cache, file, announced, crossed>>
  BY DEF Register
<1>. HIDE DEF e
<1>3. /\ thread' \in [Thread -> ThreadState]
      /\ \A u \in Thread : u # t => thread'[u] = thread[u]
      /\ thread'[t].pc = AfterCommit(e) /\ thread'[t].op = "register"
      /\ thread'[t].sid = s /\ thread'[t].entry = e
  BY <1>1, <1>2, TakeFacts DEF Base, TypeOK
<1>4. TypeOK'
  BY <1>1, <1>2, <1>3 DEF Base, TypeOK, Take
<1>5. Shape'
  BY <1>1, <1>3 DEF Base, Shape
<1>6. SkillsAreSkills'
  BY <1>1, <1>2 DEF Base, SkillsAreSkills, Present, TypeOK
<1>. QED BY <1>4, <1>5, <1>6 DEF Base

LEMMA UploadBase ==
  ASSUME Base, NEW t \in Thread, NEW s \in Sid, NEW v \in Value, UploadSkill(t, s, v)
  PROVE  Base'
<1>. DEFINE e == [value |-> v, source |-> "skill_folder"]
<1>1. e \in Entry /\ e.source = "skill_folder" /\ s \in SkillSid
  BY DEF Entry, UploadSkill
<1>2. /\ Take(t, "register", s, e, "commit") /\ disk' = [disk EXCEPT ![s] = v]
      /\ UNCHANGED <<entries, cache, file, announced, crossed>>
  BY DEF UploadSkill
<1>. HIDE DEF e
<1>3. /\ thread' \in [Thread -> ThreadState]
      /\ \A u \in Thread : u # t => thread'[u] = thread[u]
      /\ thread'[t].pc = "commit" /\ thread'[t].op = "register"
      /\ thread'[t].sid = s /\ thread'[t].entry = e
  BY <1>1, <1>2, TakeFacts DEF Base, TypeOK
<1>4. TypeOK'
  BY <1>1, <1>2, <1>3 DEF Base, TypeOK, Take, Output
<1>5. Shape'
  BY <1>1, <1>3 DEF Base, Shape
<1>6. SkillsAreSkills'
  BY <1>2 DEF Base, SkillsAreSkills, Present
<1>. QED BY <1>4, <1>5, <1>6 DEF Base

(* The copy that an update makes, and what it will do with it first.       *)
LEMMA UpdateFacts ==
  ASSUME Base, NEW t \in Thread, NEW s \in Sid, NEW v \in Value, Update(t, s, v)
  PROVE  \E e \in Entry, pc \in {"rewrite", "commit"} :
           /\ e.value = v /\ e.source = entries[s].source
           /\ pc = "rewrite" <=> s \in SkillSid /\ v # entries[s].value
           /\ Take(t, "update", s, e, pc)
           /\ Present(s) /\ entries[s] \in Entry
           /\ UNCHANGED <<entries, disk, cache, file, announced, crossed>>
<1>. DEFINE e == [entries[s] EXCEPT !.value = v]
            pc == IF s \in SkillSid /\ v # entries[s].value THEN "rewrite" ELSE "commit"
<1>1. entries[s] \in Entry
  BY DEF Base, TypeOK, Update, Present
<1>2. e \in Entry /\ e.value = v /\ e.source = entries[s].source
  BY <1>1 DEF Entry
<1>3. Take(t, "update", s, e, pc) /\ Present(s)
      /\ UNCHANGED <<entries, disk, cache, file, announced, crossed>>
  BY DEF Update
<1>4. pc \in {"rewrite", "commit"} /\ (pc = "rewrite" <=> s \in SkillSid /\ v # entries[s].value)
  OBVIOUS
<1>. HIDE DEF e, pc
<1>. QED BY <1>1, <1>2, <1>3, <1>4

LEMMA UpdateBase ==
  ASSUME Base, NEW t \in Thread, NEW s \in Sid, NEW v \in Value, Update(t, s, v)
  PROVE  Base'
<1>1. PICK e \in Entry, pc \in {"rewrite", "commit"} :
           /\ e.value = v /\ e.source = entries[s].source
           /\ pc = "rewrite" <=> s \in SkillSid /\ v # entries[s].value
           /\ Take(t, "update", s, e, pc)
           /\ Present(s) /\ entries[s] \in Entry
           /\ UNCHANGED <<entries, disk, cache, file, announced, crossed>>
  BY UpdateFacts
<1>3. /\ thread' \in [Thread -> ThreadState]
      /\ \A u \in Thread : u # t => thread'[u] = thread[u]
      /\ thread'[t].pc = pc /\ thread'[t].op = "update"
      /\ thread'[t].sid = s /\ thread'[t].entry = e
  BY <1>1, TakeFacts DEF Base, TypeOK
<1>4. TypeOK'
  BY <1>1, <1>3 DEF Base, TypeOK, Take
<1>5. Shape'
  BY <1>1, <1>3 DEF Base, Shape, SkillsAreSkills
<1>6. SkillsAreSkills'
  BY <1>1 DEF Base, SkillsAreSkills, Present
<1>. QED BY <1>4, <1>5, <1>6 DEF Base

LEMMA DeregisterBase ==
  ASSUME Base, NEW t \in Thread, NEW s \in Sid, Deregister(t, s)
  PROVE  Base'
<1>. DEFINE pc == IF entries[s].source = "ephemeral" THEN "regenerate" ELSE "remove"
<1>2. /\ Take(t, "deregister", s, NoEntry, pc) /\ pc \in {"regenerate", "remove"}
      /\ entries' = [entries EXCEPT ![s] = NoEntry]
      /\ UNCHANGED <<disk, cache, file, announced, crossed>>
  BY DEF Deregister
<1>. HIDE DEF pc
<1>3. /\ thread' \in [Thread -> ThreadState]
      /\ \A u \in Thread : u # t => thread'[u] = thread[u]
      /\ thread'[t].pc = pc /\ thread'[t].op = "deregister"
      /\ thread'[t].sid = s /\ thread'[t].entry = NoEntry
  BY <1>2, TakeFacts DEF Base, TypeOK
<1>4. TypeOK'
  BY <1>2, <1>3 DEF Base, TypeOK, Take
<1>5. Shape'
  BY <1>2, <1>3 DEF Base, Shape
<1>6. SkillsAreSkills'
  BY <1>2 DEF Base, SkillsAreSkills, Present, TypeOK
<1>. QED BY <1>4, <1>5, <1>6 DEF Base

LEMMA DoneBase ==
  ASSUME Base, NEW t \in Thread, Done(t), UNCHANGED <<entries, cache, file, crossed>>,
         disk' \in Output, announced' \in [Sid -> {"nothing", "version", "tombstone"}],
         exempt' \subseteq Sid
  PROVE  Base'
<1>1. /\ thread' \in [Thread -> ThreadState]
      /\ \A u \in Thread : u # t => thread'[u] = thread[u]
      /\ thread'[t] = Idle
  BY DoneFacts DEF Base, TypeOK
<1>2. TypeOK'
  BY <1>1 DEF Base, TypeOK
<1>3. Shape'
  BY <1>1, IdleFacts DEF Base, Shape
<1>4. SkillsAreSkills'
  BY DEF Base, SkillsAreSkills, Present
<1>. QED BY <1>2, <1>3, <1>4 DEF Base

LEMMA GotoBase ==
  ASSUME Base, NEW t \in Thread, thread[t].pc # "idle",
         NEW pc \in {"commit", "save", "remove", "regenerate", "write", "announce"}, Goto(t, pc),
         pc \in {"commit", "save"} => thread[t].pc \in {"rewrite", "commit"},
         pc = "remove" => thread[t].op = "deregister",
         UNCHANGED <<cache, file, announced, exempt, crossed>>,
         disk' \in Output, entries' \in [Sid -> Entry \cup {NoEntry}], SkillsAreSkills'
  PROVE  Base'
<1>1. /\ thread' \in [Thread -> ThreadState]
      /\ \A u \in Thread : u # t => thread'[u] = thread[u]
      /\ thread'[t].pc = pc /\ thread'[t].op = thread[t].op
      /\ thread'[t].sid = thread[t].sid /\ thread'[t].entry = thread[t].entry
  BY GotoFacts DEF Base, TypeOK
<1>2. TypeOK'
  BY <1>1 DEF Base, TypeOK
<1>3. Shape'
  BY <1>1 DEF Base, Shape
<1>. QED BY <1>2, <1>3 DEF Base

LEMMA RewriteBase ==
  ASSUME Base, NEW t \in Thread, RewriteSkill(t)
  PROVE  Base'
<1>. DEFINE s == thread[t].sid
<1>1. s \in Sid /\ thread[t].entry.value \in Value /\ thread[t].pc = "rewrite"
  BY DEF RewriteSkill, Base, Shape, Entry
<1>2. CASE disk[s] = Absent
  <2>1. Done(t) /\ UNCHANGED <<disk, entries, cache, file, announced, exempt, crossed>>
    BY <1>2 DEF RewriteSkill
  <2>. QED BY <2>1, DoneBase DEF Base, TypeOK
<1>3. CASE disk[s] # Absent
  <2>1. /\ Goto(t, "commit") /\ disk' = [disk EXCEPT ![s] = thread[t].entry.value]
        /\ UNCHANGED <<entries, cache, file, announced, exempt, crossed>>
    BY <1>3 DEF RewriteSkill
  <2>2. SkillsAreSkills'
    BY <2>1 DEF Base, SkillsAreSkills, Present
  <2>3. disk' \in Output /\ entries' \in [Sid -> Entry \cup {NoEntry}]
    BY <1>1, <2>1 DEF Base, TypeOK, Output
  <2>. QED BY <1>1, <2>1, <2>2, <2>3, GotoBase
<1>. QED BY <1>2, <1>3

LEMMA CommitBase ==
  ASSUME Base, NEW t \in Thread, Commit(t)
  PROVE  Base'
<1>1. thread[t].sid \in Sid /\ thread[t].entry \in Entry /\ thread[t].pc = "commit"
      /\ (thread[t].entry.source = "skill_folder" <=> thread[t].sid \in SkillSid)
  BY DEF Commit, Base, Shape
<1>2. /\ entries' = [entries EXCEPT ![thread[t].sid] = thread[t].entry]
      /\ UNCHANGED <<disk, cache, file, announced, exempt, crossed>>
      /\ Goto(t, AfterCommit(thread[t].entry))
  BY DEF Commit
<1>3. AfterCommit(thread[t].entry) \in {"save", "regenerate"}
  BY DEF AfterCommit
<1>4. entries' \in [Sid -> Entry \cup {NoEntry}] /\ SkillsAreSkills' /\ disk' \in Output
  BY <1>1, <1>2 DEF Base, TypeOK, SkillsAreSkills, Present
<1>. QED BY <1>1, <1>2, <1>3, <1>4, GotoBase

LEMMA SaveBase ==
  ASSUME Base, NEW t \in Thread, Save(t) \/ Remove(t)
  PROVE  Base'
<1>1. thread[t].sid \in Sid /\ thread[t].pc \in {"save", "remove"}
      /\ Goto(t, "regenerate") /\ UNCHANGED <<entries, cache, file, announced, exempt, crossed>>
  BY DEF Save, Remove, Base, Shape
<1>2. thread[t].pc = "save" => thread[t].entry.value \in Value
  BY DEF Base, Shape, Entry
<1>3. disk' \in Output
  BY <1>1, <1>2 DEF Save, Remove, Base, TypeOK, Output
<1>4. SkillsAreSkills' /\ entries' \in [Sid -> Entry \cup {NoEntry}]
  BY <1>1 DEF Base, SkillsAreSkills, Present, TypeOK
<1>. QED BY <1>1, <1>3, <1>4, GotoBase

(* What the cache is regenerated from, and what the thread then does.      *)
LEMMA OutputIsOutput ==
  ASSUME TypeOK
  PROVE  OutputOf(entries) \in Output
BY NoEntryFacts DEF TypeOK, OutputOf, Output, Entry

LEMMA RegenerateFacts ==
  ASSUME Base, NEW t \in Thread, Regenerate(t)
  PROVE  /\ thread' \in [Thread -> ThreadState]
         /\ \A u \in Thread : u # t => thread'[u] = thread[u]
         /\ thread'[t].pc \in {"write", "announce"} /\ thread'[t].op = thread[t].op
         /\ thread'[t].sid = thread[t].sid /\ thread'[t].entry = thread[t].entry
         /\ thread'[t].pc = "write" => thread'[t].out = OutputOf(entries)
         /\ thread'[t].pc = "announce" => OutputOf(entries) = cache
<1>. DEFINE output == OutputOf(entries)
            old == thread[t]
<1>1. output \in Output /\ old \in ThreadState
  BY OutputIsOutput DEF Base, TypeOK
<1>2. PICK reordered \in BOOLEAN : thread' = [thread EXCEPT ![t] =
        IF Changed(output) \/ reordered
        THEN [old EXCEPT !.pc = "write", !.out = output] ELSE [old EXCEPT !.pc = "announce"]]
  BY DEF Regenerate
<1>. HIDE DEF output
<1>3. CASE Changed(output) \/ reordered
  <2>1. thread' = [thread EXCEPT ![t] = [old EXCEPT !.pc = "write", !.out = output]]
    BY <1>2, <1>3
  <2>. QED BY <1>1, <2>1 DEF Base, TypeOK, ThreadState, output
<1>4. CASE ~(Changed(output) \/ reordered)
  <2>1. thread' = [thread EXCEPT ![t] = [old EXCEPT !.pc = "announce"]]
    BY <1>2, <1>4
  <2>2. output = cache
    BY <1>4 DEF Changed
  <2>. QED BY <1>1, <2>1, <2>2 DEF Base, TypeOK, ThreadState, output
<1>. QED BY <1>3, <1>4

LEMMA WriteFacts ==
  ASSUME Base, NEW t \in Thread, Write(t)
  PROVE  /\ thread' \in [Thread -> ThreadState]
         /\ \A u \in Thread : u # t => thread'[u] = thread[u]
         /\ thread'[t].pc = "announce" /\ thread'[t].op = thread[t].op
         /\ thread'[t].sid = thread[t].sid /\ thread'[t].entry = thread[t].entry
<1>1. Idle.out \in Output
  BY DEF Idle, Output
<1>2. thread' = [thread EXCEPT ![t] = [thread[t] EXCEPT !.pc = "announce", !.out = Idle.out]]
  BY DEF Write
<1>. DEFINE old == thread[t]
            new == [old EXCEPT !.pc = "announce", !.out = Idle.out]
<1>3. old \in ThreadState
  BY DEF Base, TypeOK
<1>4. /\ new \in ThreadState
      /\ new.pc = "announce" /\ new.op = old.op /\ new.sid = old.sid /\ new.entry = old.entry
  BY <1>1, <1>3 DEF ThreadState
<1>. HIDE DEF new
<1>5. thread' = [thread EXCEPT ![t] = new]
  BY <1>2 DEF new
<1>. QED BY <1>4, <1>5 DEF Base, TypeOK

LEMMA OutputBase ==
  ASSUME Base, NEW t \in Thread, Regenerate(t) \/ Write(t)
  PROVE  Base'
<1>1. /\ thread' \in [Thread -> ThreadState]
      /\ \A u \in Thread : u # t => thread'[u] = thread[u]
      /\ thread'[t].pc \in {"write", "announce"} /\ thread'[t].op = thread[t].op
      /\ thread'[t].sid = thread[t].sid
  BY RegenerateFacts, WriteFacts
<1>2. /\ thread[t].pc \in {"regenerate", "write"} /\ thread[t].out \in Output
      /\ UNCHANGED <<entries, disk, announced, exempt>>
  BY DEF Regenerate, Write, Base, TypeOK, ThreadState
<1>3. cache' \in Output /\ file' \in Output /\ crossed' \in BOOLEAN
  BY <1>2, OutputIsOutput DEF Regenerate, Write, Base, TypeOK
<1>4. TypeOK'
  BY <1>1, <1>2, <1>3 DEF Base, TypeOK
<1>5. Shape'
  BY <1>1, <1>2 DEF Base, Shape
<1>6. SkillsAreSkills'
  BY <1>2 DEF Base, SkillsAreSkills, Present
<1>. QED BY <1>4, <1>5, <1>6 DEF Base

(* The entries that startup loads from the disk.                           *)
LEMMA RestartFacts ==
  ASSUME Base, Restart
  PROVE  /\ entries' \in [Sid -> Entry \cup {NoEntry}]
         /\ thread' = [t \in Thread |-> Idle]
         /\ disk' = disk /\ cache' = disk /\ file' = disk
         /\ \A s \in Sid :
              /\ entries'[s].value = disk[s]
              /\ entries'[s].source # "ephemeral"
              /\ entries'[s] # NoEntry <=> disk[s] # Absent
              /\ entries'[s] # NoEntry => (entries'[s].source = "skill_folder" <=> s \in SkillSid)
<1>. DEFINE loaded(s) == [value |-> disk[s],
                          source |-> IF s \in SkillSid THEN "skill_folder" ELSE "api_config"]
            new(s) == IF disk[s] = Absent THEN NoEntry ELSE loaded(s)
<1>1. entries' = [s \in Sid |-> new(s)] /\ thread' = [t \in Thread |-> Idle]
      /\ disk' = disk /\ cache' = disk /\ file' = disk
  BY DEF Restart
<1>2. ASSUME NEW s \in Sid
      PROVE  /\ new(s) \in Entry \cup {NoEntry} /\ new(s).value = disk[s]
             /\ new(s).source # "ephemeral" /\ (new(s) # NoEntry <=> disk[s] # Absent)
             /\ new(s) # NoEntry => (new(s).source = "skill_folder" <=> s \in SkillSid)
  <2>1. CASE disk[s] = Absent
    BY <2>1, NoEntryFacts
  <2>2. CASE disk[s] # Absent
    <3>1. disk[s] \in Value /\ new(s) = loaded(s)
      BY <2>2 DEF Base, TypeOK, Output
    <3>2. loaded(s).value = disk[s] /\ loaded(s).source \in {"skill_folder", "api_config"}
          /\ (loaded(s).source = "skill_folder" <=> s \in SkillSid)
      OBVIOUS
    <3>3. loaded(s) \in [value: Value, source: {"skill_folder", "api_config"}]
      BY <3>1
    <3>4. loaded(s) # NoEntry
      BY <3>2 DEF NoEntry
    <3>. QED BY <2>2, <3>1, <3>2, <3>3, <3>4 DEF Entry
  <2>. QED BY <2>1, <2>2
<1>. HIDE DEF new
<1>. QED BY <1>1, <1>2

LEMMA RestartBase ==
  ASSUME Base, Restart
  PROVE  Base'
<1>1. TypeOK'
  BY RestartFacts, IdleFacts DEF Base, TypeOK, Restart
<1>2. Shape'
  BY RestartFacts, IdleFacts DEF Shape
<1>3. SkillsAreSkills'
  BY RestartFacts DEF SkillsAreSkills, Present
<1>. QED BY <1>1, <1>2, <1>3 DEF Base

LEMMA ActsBase ==
  ASSUME Base, NEW t \in Thread, Acts(t)
  PROVE  Base'
<1>1. CASE RefuseSkill(t)
  BY <1>1, DoneBase DEF RefuseSkill, Base, TypeOK, Shape
<1>2. CASE UpdateGone(t)
  BY <1>2, DoneBase DEF UpdateGone, Base, TypeOK
<1>3. CASE Announce(t)
  <2>1. thread[t].sid \in Sid /\ Announcement(thread[t].op) \in {"version", "tombstone"}
    BY <1>3 DEF Announce, Announcement, Base, Shape
  <2>2. announced' \in [Sid -> {"nothing", "version", "tombstone"}]
    BY <1>3, <2>1 DEF Announce, Base, TypeOK
  <2>. QED BY <1>3, <2>2, DoneBase DEF Announce, Base, TypeOK
<1>. QED BY <1>1, <1>2, <1>3, RegisterBase, UploadBase, UpdateBase, DeregisterBase, RewriteBase,
            CommitBase, SaveBase, OutputBase DEF Acts

LEMMA StutterBase ==
  ASSUME Base, UNCHANGED vars
  PROVE  Base'
BY DEF Base, vars, TypeOK, Shape, SkillsAreSkills, Present

LEMMA NextActs == Next => Restart \/ \E t \in Thread : Acts(t)
BY DEF Next, Acts

(* In every reachable state the variables have their types, a thread at    *)
(* work has the one service it took, and the skills on disk are skills.    *)
THEOREM SpecBase == Spec => []Base
<1>1. Base /\ [Next]_vars => Base'
  BY NextActs, ActsBase, RestartBase, StutterBase
<1>. QED BY <1>1, InitBase, PTL DEF Spec

(* Every variable has its type.                                            *)
THEOREM SpecTypeOK == Spec => []TypeOK
<1>1. Base => TypeOK
  BY DEF Base
<1>. QED BY <1>1, SpecBase, PTL

-----------------------------------------------------------------------------
(* The cache and service.json.                                             *)

(* Until the writes of two handlers cross, only one is to write, and that  *)
(* is the cache.                                                           *)
WriterWritesCache ==
  crossed \/ \A t \in Thread : thread[t].pc = "write" =>
    /\ thread[t].out = cache
    /\ \A u \in Thread : thread[u].pc = "write" => u = t

OutputInv == CacheFollowsEntries /\ FileFollowsCache /\ WriterWritesCache

(* What the handlers do up to the regeneration.                            *)
LEMMA BeforeOutput ==
  ASSUME Base, OutputInv, NEW t \in Thread, thread' \in [Thread -> ThreadState],
         \A u \in Thread : u # t => thread'[u] = thread[u],
         thread[t].pc \in {"idle", "rewrite", "commit", "save", "remove"},
         thread'[t].pc \in {"idle", "rewrite", "commit", "save", "remove", "regenerate"},
         thread[t].pc \in {"save", "remove"} => thread'[t].pc = "regenerate",
         entries' = entries \/ thread'[t].pc \in {"save", "remove", "regenerate"},
         UNCHANGED <<cache, file, crossed>>
  PROVE  OutputInv'
<1>1. CacheFollowsEntries'
  BY DEF OutputInv, CacheFollowsEntries, OutputOf
<1>2. FileFollowsCache'
  BY DEF OutputInv, FileFollowsCache
<1>3. WriterWritesCache'
  BY DEF OutputInv, WriterWritesCache
<1>. QED BY <1>1, <1>2, <1>3 DEF OutputInv

LEMMA RequestOutput ==
  ASSUME Base, OutputInv, NEW t \in Thread, NEW s \in Sid,
         \/ \E v \in Value :
              \/ \E source \in Sources : Register(t, s, v, source)
              \/ UploadSkill(t, s, v)
              \/ Update(t, s, v)
         \/ Deregister(t, s)
  PROVE  OutputInv'
<1>1. ASSUME NEW v \in Value, NEW source \in Sources, Register(t, s, v, source)
      PROVE  OutputInv'
  <2>. DEFINE e == [value |-> v, source |-> source]
  <2>1. e \in Entry /\ AfterCommit(e) \in {"save", "regenerate"}
    BY DEF Entry, AfterCommit
  <2>2. /\ Take(t, "register", s, e, AfterCommit(e))
        /\ UNCHANGED <<cache, file, crossed>>
    BY <1>1 DEF Register
  <2>. HIDE DEF e
  <2>3. /\ thread' \in [Thread -> ThreadState]
        /\ \A u \in Thread : u # t => thread'[u] = thread[u]
        /\ thread'[t].pc = AfterCommit(e)
    BY <2>1, <2>2, TakeFacts DEF Base, TypeOK
  <2>4. thread[t].pc = "idle"
    BY <2>2, IdleFacts DEF Take
  <2>. QED BY <2>1, <2>2, <2>3, <2>4, BeforeOutput
<1>2. ASSUME NEW v \in Value, UploadSkill(t, s, v)
      PROVE  OutputInv'
  <2>. DEFINE e == [value |-> v, source |-> "skill_folder"]
  <2>1. e \in Entry
    BY DEF Entry
  <2>2. /\ Take(t, "register", s, e, "commit") /\ UNCHANGED <<entries, cache, file, crossed>>
    BY <1>2 DEF UploadSkill
  <2>. HIDE DEF e
  <2>3. /\ thread' \in [Thread -> ThreadState]
        /\ \A u \in Thread : u # t => thread'[u] = thread[u]
        /\ thread'[t].pc = "commit"
    BY <2>1, <2>2, TakeFacts DEF Base, TypeOK
  <2>4. thread[t].pc = "idle"
    BY <2>2, IdleFacts DEF Take
  <2>. QED BY <2>1, <2>2, <2>3, <2>4, BeforeOutput
<1>3. ASSUME NEW v \in Value, Update(t, s, v)
      PROVE  OutputInv'
  <2>1. PICK e \in Entry, pc \in {"rewrite", "commit"} :
          Take(t, "update", s, e, pc) /\ UNCHANGED <<entries, cache, file, crossed>>
    BY <1>3, UpdateFacts
  <2>2. /\ thread' \in [Thread -> ThreadState]
        /\ \A u \in Thread : u # t => thread'[u] = thread[u]
        /\ thread'[t].pc = pc
    BY <2>1, TakeFacts DEF Base, TypeOK
  <2>3. thread[t].pc = "idle"
    BY <2>1, IdleFacts DEF Take
  <2>. QED BY <2>1, <2>2, <2>3, BeforeOutput
<1>4. ASSUME Deregister(t, s)
      PROVE  OutputInv'
  <2>. DEFINE pc == IF entries[s].source = "ephemeral" THEN "regenerate" ELSE "remove"
  <2>1. /\ Take(t, "deregister", s, NoEntry, pc) /\ pc \in {"regenerate", "remove"}
        /\ UNCHANGED <<cache, file, crossed>>
    BY <1>4 DEF Deregister
  <2>. HIDE DEF pc
  <2>2. /\ thread' \in [Thread -> ThreadState]
        /\ \A u \in Thread : u # t => thread'[u] = thread[u]
        /\ thread'[t].pc = pc
    BY <2>1, TakeFacts DEF Base, TypeOK
  <2>3. thread[t].pc = "idle"
    BY <2>1, IdleFacts DEF Take
  <2>. QED BY <2>1, <2>2, <2>3, BeforeOutput
<1>. QED BY <1>1, <1>2, <1>3, <1>4

LEMMA HandlerOutput ==
  ASSUME Base, OutputInv, NEW t \in Thread,
         RefuseSkill(t) \/ RewriteSkill(t) \/ Commit(t) \/ UpdateGone(t) \/ Save(t) \/ Remove(t)
  PROVE  OutputInv'
<1>1. ASSUME Done(t), thread[t].pc \in {"rewrite", "commit"},
             UNCHANGED <<entries, cache, file, crossed>>
      PROVE  OutputInv'
  BY <1>1, DoneFacts, IdleFacts, BeforeOutput DEF Base, TypeOK
<1>2. ASSUME Goto(t, "commit"), thread[t].pc = "rewrite",
             UNCHANGED <<entries, cache, file, crossed>>
      PROVE  OutputInv'
  BY <1>2, GotoFacts, BeforeOutput DEF Base, TypeOK
<1>3. ASSUME NEW pc \in {"save", "regenerate"}, Goto(t, pc), thread[t].pc = "commit",
             UNCHANGED <<cache, file, crossed>>
      PROVE  OutputInv'
  BY <1>3, GotoFacts, BeforeOutput DEF Base, TypeOK
<1>4. ASSUME Goto(t, "regenerate"), thread[t].pc \in {"save", "remove"},
             UNCHANGED <<cache, file, crossed>>
      PROVE  OutputInv'
  BY <1>4, GotoFacts, BeforeOutput DEF Base, TypeOK
<1>5. CASE RefuseSkill(t) \/ UpdateGone(t)
  BY <1>1, <1>5 DEF RefuseSkill, UpdateGone
<1>6. CASE RewriteSkill(t)
  BY <1>1, <1>2, <1>6 DEF RewriteSkill
<1>7. CASE Commit(t)
  BY <1>3, <1>7 DEF Commit, AfterCommit
<1>8. CASE Save(t) \/ Remove(t)
  BY <1>4, <1>8 DEF Save, Remove
<1>. QED BY <1>5, <1>6, <1>7, <1>8

LEMMA RegenerateOutput ==
  ASSUME Base, OutputInv, NEW t \in Thread, Regenerate(t)
  PROVE  OutputInv'
<1>1. /\ thread[t].pc = "regenerate" /\ cache' = OutputOf(entries)
      /\ crossed' = (crossed \/ \E u \in Thread : thread[u].pc = "write")
      /\ UNCHANGED <<entries, file>>
  BY DEF Regenerate
<1>2. /\ \A u \in Thread : u # t => thread'[u] = thread[u]
      /\ thread'[t].pc \in {"write", "announce"}
      /\ thread'[t].pc = "write" => thread'[t].out = OutputOf(entries)
      /\ thread'[t].pc = "announce" => OutputOf(entries) = cache
  BY RegenerateFacts
<1>3. CacheFollowsEntries'
  BY <1>1 DEF CacheFollowsEntries, OutputOf
<1>4. FileFollowsCache'
  BY <1>1, <1>2 DEF OutputInv, FileFollowsCache
<1>5. WriterWritesCache'
  BY <1>1, <1>2 DEF WriterWritesCache
<1>. QED BY <1>3, <1>4, <1>5 DEF OutputInv

LEMMA WriteOutput ==
  ASSUME Base, OutputInv, NEW t \in Thread, Write(t)
  PROVE  OutputInv'
<1>1. /\ thread[t].pc = "write" /\ file' = thread[t].out
      /\ UNCHANGED <<entries, cache, crossed>>
  BY DEF Write
<1>2. (\A u \in Thread : u # t => thread'[u] = thread[u]) /\ thread'[t].pc = "announce"
  BY WriteFacts
<1>3. CacheFollowsEntries'
  BY <1>1, <1>2 DEF OutputInv, CacheFollowsEntries, OutputOf
<1>4. FileFollowsCache' /\ WriterWritesCache'
  BY <1>1, <1>2 DEF OutputInv, FileFollowsCache, WriterWritesCache
<1>. QED BY <1>3, <1>4 DEF OutputInv

LEMMA AnnounceOutput ==
  ASSUME Base, OutputInv, NEW t \in Thread, Announce(t)
  PROVE  OutputInv'
<1>1. /\ thread[t].pc = "announce" /\ Done(t) /\ UNCHANGED <<entries, cache, file, crossed>>
  BY DEF Announce
<1>2. (\A u \in Thread : u # t => thread'[u] = thread[u]) /\ thread'[t].pc = "idle"
  BY <1>1, DoneFacts, IdleFacts DEF Base, TypeOK
<1>3. CacheFollowsEntries'
  BY <1>1, <1>2 DEF OutputInv, CacheFollowsEntries, OutputOf
<1>4. FileFollowsCache' /\ WriterWritesCache'
  BY <1>1, <1>2 DEF OutputInv, FileFollowsCache, WriterWritesCache
<1>. QED BY <1>3, <1>4 DEF OutputInv

LEMMA RestartOutput ==
  ASSUME Base, Restart
  PROVE  OutputInv'
<1>1. OutputOf(entries)' = disk
  <2>1. OutputOf(entries)' = [s \in Sid |-> entries'[s].value]
    BY DEF OutputOf
  <2>2. \A s \in Sid : entries'[s].value = disk[s]
    BY RestartFacts
  <2>. QED BY <2>1, <2>2 DEF Base, TypeOK, Output
<1>2. cache' = disk /\ file' = disk /\ thread' = [t \in Thread |-> Idle]
  BY RestartFacts
<1>3. CacheFollowsEntries' /\ FileFollowsCache'
  BY <1>1, <1>2 DEF CacheFollowsEntries, FileFollowsCache
<1>4. WriterWritesCache'
  BY <1>2, IdleFacts DEF WriterWritesCache
<1>. QED BY <1>3, <1>4 DEF OutputInv

(* Whatever the handlers of two threads do to the cache and to service.json *)
(* in whatever order, and through restarts: the cache is the entries when  *)
(* every change has been regenerated, and the file is the cache when the   *)
(* write is done and no two of them crossed.                               *)
THEOREM SpecOutputInv == Spec => []OutputInv
<1>1. Init => OutputInv
  BY IdleFacts DEF Init, OutputInv, CacheFollowsEntries, FileFollowsCache, WriterWritesCache
<1>2. Base /\ OutputInv /\ [Next]_vars => OutputInv'
  <2>. SUFFICES ASSUME Base, OutputInv, [Next]_vars PROVE OutputInv'
    OBVIOUS
  <2>1. CASE UNCHANGED vars
    BY <2>1 DEF vars, OutputInv, CacheFollowsEntries, FileFollowsCache, WriterWritesCache, OutputOf
  <2>2. ASSUME NEW t \in Thread, Acts(t) PROVE OutputInv'
    BY <2>2, RequestOutput, HandlerOutput, RegenerateOutput, WriteOutput, AnnounceOutput DEF Acts
  <2>. QED BY <2>1, <2>2, NextActs, RestartOutput
<1>. QED BY <1>1, <1>2, SpecBase, PTL DEF Spec

(* _regenerate_output: once no handler is on its way to it, the cached     *)
(* output is what is registered.                                           *)
THEOREM SpecCacheFollowsEntries == Spec => []CacheFollowsEntries
BY SpecOutputInv, PTL DEF OutputInv

(* service.json holds the cached output, unless a write is under way or two *)
(* of them crossed.                                                        *)
THEOREM SpecFileFollowsCache == Spec => []FileFollowsCache
BY SpecOutputInv, PTL DEF OutputInv

-----------------------------------------------------------------------------
(* What is on disk, and what the cluster knows.                            *)

Quiet(s) ==
  disk[s] = Durable(entries[s]) /\ (Present(s) <=> announced[s] = "version")

(* What is true of s while a handler that is at pc with it has it alone.   *)
Pending(s, pc, op, e) ==
  /\ pc = "rewrite" => disk[s] = Durable(entries[s])
  /\ pc \in {"rewrite", "commit"} /\ op = "update" => Present(s) /\ announced[s] = "version"
  /\ pc = "commit" /\ e.source # "api_config" => disk[s] = Durable(e)
  /\ pc = "save" => entries[s] = e /\ e.source = "api_config"
  /\ pc = "remove" => ~Present(s)
  /\ pc \in {"regenerate", "write", "announce"} => disk[s] = Durable(entries[s])
  /\ pc \in {"save", "regenerate", "write", "announce"} => (Present(s) <=> op # "deregister")

PendingAt(s, t) == Pending(s, thread[t].pc, thread[t].op, thread[t].entry)

Alone(t, s) == \A u \in Thread : u # t => thread[u].sid # s

ServiceInv(s) ==
  s \in exempt \/
    /\ \A t \in Thread : thread[t].sid = s => Alone(t, s) /\ PendingAt(s, t)
    /\ ~Busy(s) => Quiet(s)

(* A step of one thread, which has to do with s, leaves the others alone.  *)
LEMMA OneService ==
  ASSUME Base, \A r \in Sid : ServiceInv(r), NEW t \in Thread, NEW s \in Sid,
         \A u \in Thread : u # t => thread'[u] = thread[u],
         thread[t].sid \in {None, s}, thread'[t].sid \in {None, s},
         \A r \in Sid : r # s => /\ entries'[r] = entries[r]
                                 /\ disk'[r] = disk[r]
                                 /\ announced'[r] = announced[r],
         exempt \subseteq exempt',
         s \notin exempt' => /\ Alone(t, s)
                             /\ thread'[t].sid = s => PendingAt(s, t)'
                             /\ thread'[t].sid # s => Quiet(s)'
  PROVE  \A r \in Sid : ServiceInv(r)'
<1>. SUFFICES ASSUME NEW r \in Sid, r \notin exempt'
              PROVE  ServiceInv(r)'
  BY DEF ServiceInv
<1>0. None \notin Sid
  OBVIOUS
<1>1. CASE r = s
  <2>0. /\ Alone(t, s)
        /\ thread'[t].sid = s => PendingAt(s, t)'
        /\ thread'[t].sid # s => Quiet(s)'
    <3>1. s \notin exempt'
      BY <1>1
    <3>. QED BY <3>1
  <2>1. \A u \in Thread : u # t => thread'[u].sid # s
    BY <2>0 DEF Alone
  <2>2. ASSUME NEW u \in Thread, thread'[u].sid = s
        PROVE  Alone(u, s)' /\ PendingAt(s, u)'
    <3>1. u = t
      BY <2>1, <2>2
    <3>2. Alone(u, s)'
      BY <2>1, <3>1 DEF Alone
    <3>3. PendingAt(s, t)'
      BY <2>0, <2>2, <3>1
    <3>. QED BY <3>1, <3>2, <3>3
  <2>3. ASSUME ~Busy(s)'
        PROVE  Quiet(s)'
    <3>1. thread'[t].sid # s
      BY <2>3 DEF Busy
    <3>. QED BY <2>0, <3>1
  <2>. QED BY <1>1, <2>2, <2>3 DEF ServiceInv
<1>2. CASE r # s
  <2>0. r \notin exempt
    OBVIOUS
  <2>1. thread[t].sid # r /\ thread'[t].sid # r
    BY <1>0, <1>2
  <2>2. ASSUME NEW u \in Thread, thread'[u].sid = r
        PROVE  Alone(u, r)' /\ PendingAt(r, u)'
    <3>1. u # t /\ thread'[u] = thread[u] /\ thread[u].sid = r
      BY <2>1, <2>2
    <3>2. Alone(u, r) /\ PendingAt(r, u)
      BY <2>0, <3>1 DEF ServiceInv
    <3>3. Alone(u, r)'
      BY <2>1, <3>2 DEF Alone
    <3>. QED BY <1>2, <3>1, <3>2, <3>3 DEF PendingAt, Pending, Present, Durable
  <2>3. ASSUME ~Busy(r)'
        PROVE  Quiet(r)'
    <3>1. ~Busy(r)
      BY <2>1, <2>3 DEF Busy
    <3>2. Quiet(r)
      BY <2>0, <3>1 DEF ServiceInv
    <3>. QED BY <1>2, <3>2 DEF Quiet, Present, Durable
  <2>. QED BY <2>2, <2>3 DEF ServiceInv
<1>. QED BY <1>1, <1>2

(* A service that a handler takes without making it exempt is quiet.       *)
LEMMA TakenIsQuiet ==
  ASSUME NEW t \in Thread, NEW s \in Sid, NEW op, NEW e, NEW pc,
         ServiceInv(s), Take(t, op, s, e, pc), s \notin exempt'
  PROVE  Alone(t, s) /\ Quiet(s) /\ (e.source = "ephemeral" => disk[s] = Absent)
<1>1. s \notin exempt /\ ~Busy(s) /\ ~(e.source = "ephemeral" /\ disk[s] # Absent)
  BY DEF Take
<1>2. Quiet(s)
  BY <1>1 DEF ServiceInv
<1>3. Alone(t, s)
  BY <1>1 DEF Busy, Alone
<1>. QED BY <1>1, <1>2, <1>3

LEMMA TakenIsFree ==
  ASSUME NEW t \in Thread, NEW s \in Sid, NEW op, NEW e, NEW pc, Take(t, op, s, e, pc)
  PROVE  exempt \subseteq exempt' /\ thread[t].sid = None
BY IdleFacts DEF Take

LEMMA RegisterService ==
  ASSUME Base, \A r \in Sid : ServiceInv(r), NEW t \in Thread, NEW s \in Sid,
         NEW v \in Value, NEW source \in Sources, Register(t, s, v, source)
  PROVE  \A r \in Sid : ServiceInv(r)'
<1>0. ServiceInv(s)
  OBVIOUS
<1>. DEFINE e == [value |-> v, source |-> source]
<1>1. e \in Entry /\ e.source = source /\ source \in {"api_config", "ephemeral"}
      /\ AfterCommit(e) \in {"save", "regenerate"}
      /\ (AfterCommit(e) = "save" <=> source = "api_config")
  BY DEF Entry, AfterCommit
<1>2. /\ Take(t, "register", s, e, AfterCommit(e)) /\ entries' = [entries EXCEPT ![s] = e]
      /\ UNCHANGED <<disk, announced>>
  BY DEF Register
<1>. HIDE DEF e
<1>3. /\ \A u \in Thread : u # t => thread'[u] = thread[u]
      /\ thread'[t].pc = AfterCommit(e) /\ thread'[t].op = "register"
      /\ thread'[t].sid = s /\ thread'[t].entry = e
  BY <1>1, <1>2, TakeFacts DEF Base, TypeOK
<1>8. Take(t, "register", s, e, AfterCommit(e))
  BY <1>2
<1>9. exempt \subseteq exempt' /\ thread[t].sid = None
  BY <1>8, TakenIsFree
<1>4. ASSUME s \notin exempt'
      PROVE  Alone(t, s) /\ Quiet(s) /\ (e.source = "ephemeral" => disk[s] = Absent)
  BY <1>0, <1>4, <1>8, TakenIsQuiet
<1>5. entries'[s] = e /\ \A r \in Sid : r # s => entries'[r] = entries[r]
  BY <1>2 DEF Base, TypeOK
<1>6. e # NoEntry
  BY <1>1, NoEntryFacts
<1>7. ASSUME s \notin exempt' PROVE PendingAt(s, t)'
  <2>1. Present(s)' /\ disk' = disk
    BY <1>2, <1>5, <1>6 DEF Present
  <2>2. CASE source = "api_config"
    BY <1>1, <1>3, <1>5, <2>1, <2>2 DEF PendingAt, Pending
  <2>3. CASE source = "ephemeral"
    <3>1. disk[s] = Absent /\ Durable(e) = Absent
      BY <1>1, <1>4, <1>7, <2>3 DEF Durable
    <3>2. Durable(entries[s])' = Durable(e)
      BY <1>5 DEF Durable
    <3>. QED BY <1>1, <1>3, <2>1, <2>3, <3>1, <3>2 DEF PendingAt, Pending
  <2>. QED BY <1>1, <2>2, <2>3
<1>. QED BY <1>2, <1>3, <1>4, <1>5, <1>7, <1>9, OneService

LEMMA UploadService ==
  ASSUME Base, \A r \in Sid : ServiceInv(r), NEW t \in Thread, NEW s \in Sid,
         NEW v \in Value, UploadSkill(t, s, v)
  PROVE  \A r \in Sid : ServiceInv(r)'
<1>0. ServiceInv(s)
  OBVIOUS
<1>. DEFINE e == [value |-> v, source |-> "skill_folder"]
<1>1. e \in Entry /\ e.source = "skill_folder" /\ e.value = v
  BY DEF Entry
<1>2. /\ Take(t, "register", s, e, "commit") /\ disk' = [disk EXCEPT ![s] = v]
      /\ UNCHANGED <<entries, announced>>
  BY DEF UploadSkill
<1>. HIDE DEF e
<1>3. /\ \A u \in Thread : u # t => thread'[u] = thread[u]
      /\ thread'[t].pc = "commit" /\ thread'[t].op = "register"
      /\ thread'[t].sid = s /\ thread'[t].entry = e
  BY <1>1, <1>2, TakeFacts DEF Base, TypeOK
<1>8. Take(t, "register", s, e, "commit")
  BY <1>2
<1>9. exempt \subseteq exempt' /\ thread[t].sid = None
  BY <1>8, TakenIsFree
<1>4. ASSUME s \notin exempt'
      PROVE  Alone(t, s) /\ Quiet(s) /\ (e.source = "ephemeral" => disk[s] = Absent)
  BY <1>0, <1>4, <1>8, TakenIsQuiet
<1>5. disk'[s] = v /\ \A r \in Sid : r # s => disk'[r] = disk[r]
  BY <1>2 DEF Base, TypeOK, Output
<1>6. PendingAt(s, t)'
  BY <1>1, <1>3, <1>5 DEF PendingAt, Pending, Durable
<1>. QED BY <1>2, <1>3, <1>4, <1>5, <1>6, <1>9, OneService

LEMMA UpdateService ==
  ASSUME Base, \A r \in Sid : ServiceInv(r), NEW t \in Thread, NEW s \in Sid,
         NEW v \in Value, Update(t, s, v)
  PROVE  \A r \in Sid : ServiceInv(r)'
<1>0. ServiceInv(s)
  OBVIOUS
<1>1. PICK e \in Entry, pc \in {"rewrite", "commit"} :
           /\ e.value = v /\ e.source = entries[s].source
           /\ pc = "rewrite" <=> s \in SkillSid /\ v # entries[s].value
           /\ Take(t, "update", s, e, pc)
           /\ Present(s) /\ entries[s] \in Entry
           /\ UNCHANGED <<entries, disk, cache, file, announced, crossed>>
  BY UpdateFacts
<1>3. /\ \A u \in Thread : u # t => thread'[u] = thread[u]
      /\ thread'[t].pc = pc /\ thread'[t].op = "update"
      /\ thread'[t].sid = s /\ thread'[t].entry = e
  BY <1>1, TakeFacts DEF Base, TypeOK
<1>8. Take(t, "update", s, e, pc)
  BY <1>1
<1>9. exempt \subseteq exempt' /\ thread[t].sid = None
  BY <1>8, TakenIsFree
<1>4. ASSUME s \notin exempt'
      PROVE  Alone(t, s) /\ Quiet(s) /\ (e.source = "ephemeral" => disk[s] = Absent)
  BY <1>0, <1>4, <1>8, TakenIsQuiet
<1>5. e.source \in {"api_config", "ephemeral", "skill_folder"}
      /\ (e.source = "skill_folder" <=> s \in SkillSid)
  BY <1>1 DEF Entry, Base, SkillsAreSkills
<1>6. s \notin exempt' => PendingAt(s, t)'
  BY <1>1, <1>3, <1>4, <1>5 DEF PendingAt, Pending, Quiet, Present, Durable
<1>. QED BY <1>1, <1>3, <1>4, <1>6, <1>9, OneService

LEMMA DeregisterService ==
  ASSUME Base, \A r \in Sid : ServiceInv(r), NEW t \in Thread, NEW s \in Sid,
         Deregister(t, s)
  PROVE  \A r \in Sid : ServiceInv(r)'
<1>0. ServiceInv(s)
  OBVIOUS
<1>. DEFINE pc == IF entries[s].source = "ephemeral" THEN "regenerate" ELSE "remove"
<1>2. /\ Take(t, "deregister", s, NoEntry, pc) /\ pc \in {"regenerate", "remove"}
      /\ (pc = "regenerate" <=> entries[s].source = "ephemeral")
      /\ entries' = [entries EXCEPT ![s] = NoEntry]
      /\ UNCHANGED <<disk, announced>>
  BY DEF Deregister
<1>. HIDE DEF pc
<1>3. /\ \A u \in Thread : u # t => thread'[u] = thread[u]
      /\ thread'[t].pc = pc /\ thread'[t].op = "deregister"
      /\ thread'[t].sid = s /\ thread'[t].entry = NoEntry
  BY <1>2, TakeFacts DEF Base, TypeOK
<1>8. Take(t, "deregister", s, NoEntry, pc)
  BY <1>2
<1>9. exempt \subseteq exempt' /\ thread[t].sid = None
  BY <1>8, TakenIsFree
<1>4. ASSUME s \notin exempt'
      PROVE  Alone(t, s) /\ Quiet(s) /\ (NoEntry.source = "ephemeral" => disk[s] = Absent)
  BY <1>0, <1>4, <1>8, TakenIsQuiet
<1>5. entries'[s] = NoEntry /\ \A r \in Sid : r # s => entries'[r] = entries[r]
  BY <1>2 DEF Base, TypeOK
<1>6. s \notin exempt' => PendingAt(s, t)'
  BY <1>2, <1>3, <1>4, <1>5, NoEntryFacts DEF PendingAt, Pending, Quiet, Present, Durable
<1>. QED BY <1>2, <1>3, <1>4, <1>5, <1>6, <1>9, OneService

LEMMA AtWork ==
  ASSUME NEW t \in Thread, NEW s, thread[t].sid = s, ServiceInv(s), s \notin exempt
  PROVE  Alone(t, s) /\ PendingAt(s, t)
BY DEF ServiceInv

(* A handler of s that goes on with it, and changes nothing but the entry  *)
(* and the disk of s.                                                      *)
LEMMA GoesOn ==
  ASSUME Base, \A r \in Sid : ServiceInv(r), NEW t \in Thread, NEW s \in Sid, thread[t].sid = s,
         \A u \in Thread : u # t => thread'[u] = thread[u],
         thread'[t].sid = s,
         \A r \in Sid : r # s => entries'[r] = entries[r] /\ disk'[r] = disk[r],
         UNCHANGED <<announced, exempt>>,
         PendingAt(s, t) => PendingAt(s, t)'
  PROVE  \A r \in Sid : ServiceInv(r)'
<1>1. ASSUME s \notin exempt'
      PROVE  Alone(t, s) /\ PendingAt(s, t)'
  <2>1. Alone(t, s) /\ PendingAt(s, t)
    BY <1>1, AtWork
  <2>. QED BY <2>1
<1>. QED BY <1>1, OneService

(* One that is done with it.                                               *)
LEMMA Ends ==
  ASSUME Base, \A r \in Sid : ServiceInv(r), NEW t \in Thread, NEW s \in Sid, thread[t].sid = s,
         Done(t), \A r \in Sid : r # s => announced'[r] = announced[r],
         UNCHANGED <<entries, disk>>, exempt \subseteq exempt',
         s \notin exempt' /\ PendingAt(s, t) => Quiet(s)'
  PROVE  \A r \in Sid : ServiceInv(r)'
<1>1. (\A u \in Thread : u # t => thread'[u] = thread[u]) /\ thread'[t].sid = None
  BY DoneFacts, IdleFacts DEF Base, TypeOK
<1>2. ASSUME s \notin exempt'
      PROVE  Alone(t, s) /\ Quiet(s)'
  <2>0. ServiceInv(s) /\ s \notin exempt
    BY <1>2
  <2>1. Alone(t, s) /\ PendingAt(s, t)
    BY <2>0, AtWork
  <2>. QED BY <1>2, <2>1
<1>3. None # s
  OBVIOUS
<1>. QED BY <1>1, <1>2, <1>3, OneService

LEMMA RewriteService ==
  ASSUME Base, \A r \in Sid : ServiceInv(r), NEW t \in Thread, RewriteSkill(t)
  PROVE  \A r \in Sid : ServiceInv(r)'
<1>. SUFFICES ASSUME NEW s \in Sid, thread[t].sid = s, NEW e, thread[t].entry = e
              PROVE  \A r \in Sid : ServiceInv(r)'
  BY DEF RewriteSkill, Base, Shape
<1>1. /\ s \in Sid /\ e \in Entry /\ thread[t].pc = "rewrite" /\ thread[t].op = "update"
      /\ e.source = "skill_folder"
  BY DEF RewriteSkill, Base, Shape
<1>2. entries[s] \in Entry \cup {NoEntry}
  BY <1>1 DEF Base, TypeOK
<1>3. CASE disk[s] = Absent
  <2>1. Done(t) /\ UNCHANGED <<entries, disk, announced, exempt>>
    BY <1>3 DEF RewriteSkill
  <2>2. ASSUME PendingAt(s, t)
        PROVE  Quiet(s)'
    <3>1. Present(s) /\ announced[s] = "version" /\ disk[s] = Durable(entries[s])
      BY <1>1, <2>2 DEF PendingAt, Pending
    <3>. QED BY <2>1, <3>1 DEF Quiet, Present, Durable
  <2>. QED BY <1>1, <2>1, <2>2, Ends
<1>4. CASE disk[s] # Absent
  <2>1. /\ Goto(t, "commit") /\ disk' = [disk EXCEPT ![s] = e.value]
        /\ UNCHANGED <<entries, announced, exempt>>
    BY <1>4 DEF RewriteSkill
  <2>2. /\ \A u \in Thread : u # t => thread'[u] = thread[u]
        /\ thread'[t].pc = "commit" /\ thread'[t].op = thread[t].op
        /\ thread'[t].sid = s /\ thread'[t].entry = e
    BY <2>1, GotoFacts DEF Base, TypeOK
  <2>3. disk'[s] = e.value /\ \A r \in Sid : r # s => disk'[r] = disk[r]
    BY <1>1, <2>1 DEF Base, TypeOK, Output
  <2>4. ASSUME PendingAt(s, t)
        PROVE  PendingAt(s, t)'
    <3>1. Present(s) /\ announced[s] = "version"
      BY <1>1, <2>4 DEF PendingAt, Pending
    <3>. QED BY <1>1, <2>1, <2>2, <2>3, <3>1 DEF PendingAt, Pending, Present, Durable
  <2>. QED BY <1>1, <2>1, <2>2, <2>3, <2>4, GoesOn
<1>. QED BY <1>3, <1>4

LEMMA CommitService ==
  ASSUME Base, \A r \in Sid : ServiceInv(r), NEW t \in Thread, Commit(t)
  PROVE  \A r \in Sid : ServiceInv(r)'
<1>. SUFFICES ASSUME NEW s \in Sid, thread[t].sid = s, NEW e, thread[t].entry = e
              PROVE  \A r \in Sid : ServiceInv(r)'
  BY DEF Commit, Base, Shape
<1>1. /\ s \in Sid /\ e \in Entry /\ thread[t].pc = "commit" /\ thread[t].op # "deregister"
  BY DEF Commit, Base, Shape
<1>2. /\ entries' = [entries EXCEPT ![s] = e] /\ Goto(t, AfterCommit(e))
      /\ UNCHANGED <<disk, announced, exempt>>
  BY DEF Commit
<1>3. /\ AfterCommit(e) \in {"save", "regenerate"}
      /\ (AfterCommit(e) = "save" <=> e.source = "api_config")
  BY DEF AfterCommit
<1>4. /\ \A u \in Thread : u # t => thread'[u] = thread[u]
      /\ thread'[t].pc = AfterCommit(e) /\ thread'[t].op = thread[t].op
      /\ thread'[t].sid = s /\ thread'[t].entry = e
  BY <1>2, <1>3, GotoFacts DEF Base, TypeOK
<1>5. entries'[s] = e /\ \A r \in Sid : r # s => entries'[r] = entries[r]
  BY <1>1, <1>2 DEF Base, TypeOK
<1>6. e # NoEntry
  BY <1>1, NoEntryFacts
<1>7. ASSUME PendingAt(s, t)
      PROVE  PendingAt(s, t)'
  <2>1. e.source # "api_config" => disk[s] = Durable(e)
    BY <1>1, <1>7 DEF PendingAt, Pending
  <2>2. Present(s)' /\ Durable(entries[s])' = Durable(e)
    BY <1>5, <1>6 DEF Present, Durable
  <2>. QED BY <1>1, <1>2, <1>3, <1>4, <1>5, <2>1, <2>2 DEF PendingAt, Pending
<1>. QED BY <1>1, <1>2, <1>4, <1>5, <1>7, GoesOn

LEMMA SaveService ==
  ASSUME Base, \A r \in Sid : ServiceInv(r), NEW t \in Thread, Save(t) \/ Remove(t)
  PROVE  \A r \in Sid : ServiceInv(r)'
<1>. SUFFICES ASSUME NEW s \in Sid, thread[t].sid = s, NEW e, thread[t].entry = e
              PROVE  \A r \in Sid : ServiceInv(r)'
  BY DEF Save, Remove, Base, Shape
<1>. DEFINE new == IF thread[t].pc = "save" THEN e.value ELSE Absent
<1>1. s \in Sid /\ thread[t].pc \in {"save", "remove"}
  BY DEF Save, Remove, Base, Shape
<1>2. /\ disk' = [disk EXCEPT ![s] = new] /\ Goto(t, "regenerate")
      /\ UNCHANGED <<entries, announced, exempt>>
  BY DEF Save, Remove
<1>3. /\ \A u \in Thread : u # t => thread'[u] = thread[u]
      /\ thread'[t].pc = "regenerate" /\ thread'[t].op = thread[t].op
      /\ thread'[t].sid = s /\ thread'[t].entry = e
  BY <1>2, GotoFacts DEF Base, TypeOK
<1>4. disk'[s] = new /\ \A r \in Sid : r # s => disk'[r] = disk[r]
  BY <1>1, <1>2 DEF Base, TypeOK, Output
<1>5. ASSUME PendingAt(s, t)
      PROVE  PendingAt(s, t)'
  <2>1. CASE thread[t].pc = "save"
    <3>1. entries[s] = e /\ e.source = "api_config" /\ (Present(s) <=> thread[t].op # "deregister")
      BY <1>5, <2>1 DEF PendingAt, Pending
    <3>2. disk'[s] = Durable(entries[s])
      BY <1>4, <2>1, <3>1 DEF Durable
    <3>. QED BY <1>2, <1>3, <3>1, <3>2 DEF PendingAt, Pending, Present, Durable
  <2>2. CASE thread[t].pc = "remove"
    <3>1. ~Present(s) /\ thread[t].op = "deregister"
      BY <1>5, <2>2 DEF PendingAt, Pending, Base, Shape
    <3>2. disk'[s] = Durable(entries[s])
      BY <1>4, <2>2, <3>1, NoEntryFacts DEF Durable, Present
    <3>. QED BY <1>2, <1>3, <3>1, <3>2 DEF PendingAt, Pending, Present, Durable
  <2>. QED BY <1>1, <2>1, <2>2
<1>. QED BY <1>1, <1>2, <1>3, <1>4, <1>5, GoesOn

LEMMA OutputService ==
  ASSUME Base, \A r \in Sid : ServiceInv(r), NEW t \in Thread, Regenerate(t) \/ Write(t)
  PROVE  \A r \in Sid : ServiceInv(r)'
<1>. SUFFICES ASSUME NEW s \in Sid, thread[t].sid = s
              PROVE  \A r \in Sid : ServiceInv(r)'
  BY DEF Regenerate, Write, Base, Shape
<1>1. s \in Sid /\ thread[t].pc \in {"regenerate", "write"}
      /\ UNCHANGED <<entries, disk, announced, exempt>>
  BY DEF Regenerate, Write, Base, Shape
<1>2. /\ \A u \in Thread : u # t => thread'[u] = thread[u]
      /\ thread'[t].pc \in {"write", "announce"} /\ thread'[t].op = thread[t].op
      /\ thread'[t].sid = s
  BY RegenerateFacts, WriteFacts
<1>3. ASSUME PendingAt(s, t)
      PROVE  PendingAt(s, t)'
  <2>1. disk[s] = Durable(entries[s]) /\ (Present(s) <=> thread[t].op # "deregister")
    BY <1>1, <1>3 DEF PendingAt, Pending
  <2>. QED BY <1>1, <1>2, <2>1 DEF PendingAt, Pending, Present, Durable
<1>. QED BY <1>1, <1>2, <1>3, GoesOn

LEMMA EndingService ==
  ASSUME Base, \A r \in Sid : ServiceInv(r), NEW t \in Thread,
         RefuseSkill(t) \/ UpdateGone(t) \/ Announce(t)
  PROVE  \A r \in Sid : ServiceInv(r)'
<1>. SUFFICES ASSUME NEW s \in Sid, thread[t].sid = s
              PROVE  \A r \in Sid : ServiceInv(r)'
  BY DEF RefuseSkill, UpdateGone, Announce, Base, Shape
<1>1. s \in Sid /\ Done(t) /\ UNCHANGED <<entries, disk>>
  BY DEF RefuseSkill, UpdateGone, Announce, Base, Shape
<1>2. CASE RefuseSkill(t)
  <2>1. exempt' = exempt \cup {s} /\ announced' = announced
    BY <1>2 DEF RefuseSkill
  <2>. QED BY <1>1, <2>1, Ends
<1>3. CASE UpdateGone(t)
  <2>1. ~Present(s) /\ thread[t].pc = "commit" /\ thread[t].op = "update"
        /\ UNCHANGED <<announced, exempt>>
    BY <1>3 DEF UpdateGone
  <2>2. ~PendingAt(s, t)
    BY <2>1 DEF PendingAt, Pending
  <2>. QED BY <1>1, <2>1, <2>2, Ends
<1>4. CASE Announce(t)
  <2>1. /\ announced' = [announced EXCEPT ![s] = Announcement(thread[t].op)]
        /\ exempt' = exempt /\ thread[t].pc = "announce"
    BY <1>4 DEF Announce
  <2>2. announced'[s] = Announcement(thread[t].op) /\ \A r \in Sid : r # s => announced'[r] = announced[r]
    BY <1>1, <2>1 DEF Base, TypeOK
  <2>3. ASSUME PendingAt(s, t)
        PROVE  Quiet(s)'
    <3>1. disk[s] = Durable(entries[s]) /\ (Present(s) <=> thread[t].op # "deregister")
      BY <2>1, <2>3 DEF PendingAt, Pending
    <3>. QED BY <1>1, <2>2, <3>1 DEF Quiet, Present, Durable, Announcement
  <2>. QED BY <1>1, <2>1, <2>2, <2>3, Ends
<1>. QED BY <1>2, <1>3, <1>4

LEMMA RestartService ==
  ASSUME Base, \A r \in Sid : ServiceInv(r), Restart
  PROVE  \A r \in Sid : ServiceInv(r)'
<1>. SUFFICES ASSUME NEW s \in Sid, s \notin exempt'
              PROVE  ServiceInv(s)'
  BY DEF ServiceInv
<1>1. s \notin exempt /\ ~Busy(s) /\ entries[s].source # "ephemeral" /\ announced' = announced
  BY DEF Restart
<1>2. Quiet(s)
  BY <1>1 DEF ServiceInv
<1>3. /\ disk' = disk /\ thread' = [t \in Thread |-> Idle] /\ entries'[s].value = disk[s]
      /\ entries'[s].source # "ephemeral" /\ (entries'[s] # NoEntry <=> disk[s] # Absent)
  BY RestartFacts
<1>4. disk[s] # Absent <=> Present(s)
  <2>1. disk[s] = entries[s].value
    BY <1>1, <1>2 DEF Quiet, Durable
  <2>2. entries[s] \in Entry \cup {NoEntry}
    BY DEF Base, TypeOK
  <2>. QED BY <2>1, <2>2, NoEntryFacts DEF Present
<1>5. Quiet(s)'
  BY <1>1, <1>2, <1>3, <1>4 DEF Quiet, Present, Durable
<1>6. \A t \in Thread : thread'[t].sid # s
  BY <1>3, IdleFacts
<1>. QED BY <1>5, <1>6 DEF ServiceInv

(* With requests for one service that come one after the other, what is on *)
(* disk and what the cluster knows of it follow what is registered, whatever *)
(* other handlers do meanwhile and whenever the process dies.              *)
THEOREM SpecServiceInv == Spec => [](\A s \in Sid : ServiceInv(s))
<1>. DEFINE I == \A s \in Sid : ServiceInv(s)
<1>1. Init => I
  BY IdleFacts, NoEntryFacts DEF Init, ServiceInv, Quiet, Present, Durable
<1>2. Base /\ I /\ [Next]_vars => I'
  <2>. SUFFICES ASSUME Base, I, [Next]_vars PROVE I'
    OBVIOUS
  <2>1. CASE UNCHANGED vars
    <3>. SUFFICES ASSUME NEW s \in Sid PROVE ServiceInv(s)'
      OBVIOUS
    <3>. QED BY <2>1 DEF vars, ServiceInv, Busy, Alone, PendingAt, Pending, Quiet, Present, Durable
  <2>2. ASSUME NEW t \in Thread, Acts(t) PROVE I'
    BY <2>2, RegisterService, UploadService, UpdateService, DeregisterService, RewriteService,
       CommitService, SaveService, OutputService, EndingService DEF Acts
  <2>. QED BY <2>1, <2>2, NextActs, RestartService
<1>. HIDE DEF I
<1>3. Spec => []I
  BY <1>1, <1>2, SpecBase, PTL DEF Spec
<1>. QED BY <1>3 DEF I

(* What a restart would load of a service nobody works on is what is       *)
(* registered of it, if its requests came one after the other (exempt).    *)
THEOREM SpecDiskFollowsEntries == Spec => []DiskFollowsEntries
<1>1. (\A s \in Sid : ServiceInv(s)) => DiskFollowsEntries
  BY DEF ServiceInv, Quiet, DiskFollowsEntries
<1>. QED BY <1>1, SpecServiceInv, PTL

(* What the mutation hook last told the cluster of a service nobody works on *)
(* is whether it is registered, if its requests came one after the other.  *)
THEOREM SpecAnnouncedFollowsEntries == Spec => []AnnouncedFollowsEntries
<1>1. (\A s \in Sid : ServiceInv(s)) => AnnouncedFollowsEntries
  BY DEF ServiceInv, Quiet, Present, AnnouncedFollowsEntries
<1>. QED BY <1>1, SpecServiceInv, PTL

HIDE RegistryCrudAssumption DEF RegistryCrudAssumption
-----------------------------------------------------------------------------
(***************************************************************************)
(* Reservation leases (Reservation).                                       *)
(*                                                                         *)
(* PromiseKept is not inductive alone: a critical section sweeps with the   *)
(* clock its worker read earlier, and must not sweep a lease that is live  *)
(* now; so the invariant adds that no worker has read the future.          *)
(***************************************************************************)
(* No worker is ahead of the clock. *)
ReadsArePast == \A w \in Worker : pending[w].at <= now

(* Every call but those made for a service names a holder. *)
HolderIsKnown ==
  \A w \in Worker :
    pending[w].op \in {"reserve", "extend", "releaseAll", "releaseOne"}
      => pending[w].holder \in Principal

LeasesInv == ReservationTypeOK /\ ReadsArePast /\ HolderIsKnown /\ PromiseKept

USE ReservationAssumption DEF ReservationAssumption

-----------------------------------------------------------------------------
(* What the table holds after a sweep at t. *)
LEMMA SweptIsTable ==
  ASSUME ReservationTypeOK, NEW t \in Nat
  PROVE  Swept(t) \in [Service -> Lease]
BY DEF ReservationTypeOK, Swept, Free, Lease

(* A sweep leaves a lease that runs beyond t as it is. *)
LEMMA SweepSparesTheLive ==
  ASSUME ReservationTypeOK, NEW t \in Nat, NEW s \in Service, leases[s].expires > t
  PROVE  Swept(t)[s] = leases[s] /\ leases[s] # Free
BY DEF ReservationTypeOK, Swept, Free, Lease

(* A promised lease runs beyond every clock reading a worker has made. *)
LEMMA PromiseOutlivesReading ==
  ASSUME LeasesInv, NEW w \in Worker, NEW s \in Service, NEW h \in Principal,
         promise[s][h] > now
  PROVE  leases[s].expires > pending[w].at
<1>0. leases[s] = [holder |-> h, expires |-> promise[s][h]]
  BY DEF LeasesInv, PromiseKept
<1>1. leases[s].expires = promise[s][h]
  BY <1>0
<1>2. now \in Nat /\ promise[s][h] \in Nat
  BY DEF LeasesInv, ReservationTypeOK
<1>3. pending[w].at \in Nat /\ pending[w].at <= now
  BY DEF LeasesInv, ReservationTypeOK, ReadsArePast, Call
<1>. QED BY <1>1, <1>2, <1>3

(* Only free services are claimed. *)
LEMMA ClaimsAreFree ==
  ASSUME NEW free, NEW n
  PROVE  FirstOf(free, n) \subseteq free
BY DEF FirstOf

-----------------------------------------------------------------------------
(* A step that begins a call puts one well-typed call in place of NoCall. *)
LEMMA BeginTypes ==
  ASSUME ReservationTypeOK, ReadsArePast, HolderIsKnown,
         NEW w \in Worker, NEW call \in Call, Begin(w, call),
         call.at <= now,
         call.op \in {"reserve", "extend", "releaseAll", "releaseOne"}
           => call.holder \in Principal
  PROVE  ReservationTypeOK' /\ ReadsArePast' /\ HolderIsKnown'
BY DEF ReservationTypeOK, ReadsArePast, HolderIsKnown, Begin, Call

(* What the beginnings of the six calls have in common. *)
Begins(w) ==
  \/ \E c, h \in Principal :
       \/ \E n \in Counts, ttl \in Ttls : BeginReserve(w, c, h, n, ttl)
       \/ \E ttl \in Ttls : BeginExtend(w, c, h, ttl)
       \/ BeginReleaseAll(w, c, h)
       \/ \E s \in Service : BeginReleaseOne(w, c, h, s)
  \/ \E c \in Principal, s \in Service : BeginSelfRelease(w, c, s)
  \/ BeginIsLeased(w)

LEMMA BeginsIsBegin ==
  ASSUME ReservationTypeOK, NEW w \in Worker, Begins(w)
  PROVE  \E call \in Call :
           /\ Begin(w, call)
           /\ call.at <= now
           /\ call.op \in {"reserve", "extend", "releaseAll", "releaseOne"}
                => call.holder \in Principal
<1>. USE DEF ReservationTypeOK, CallOf, Call, Ops
<1>1. CASE \E c, h \in Principal, n \in Counts, ttl \in Ttls :
             BeginReserve(w, c, h, n, ttl)
  <2>1. PICK c, h \in Principal, n \in Counts, ttl \in Ttls : BeginReserve(w, c, h, n, ttl)
    BY <1>1
  <2>. n \in Nat /\ ttl \in Nat
    OBVIOUS
  <2>2. /\ CallOf("reserve", h, Nothing, n, ttl, now) \in Call
        /\ CallOf("reserve", h, Nothing, n, ttl, now).at <= now
        /\ CallOf("reserve", h, Nothing, n, ttl, now).holder \in Principal
    OBVIOUS
  <2>3. Begin(w, CallOf("reserve", h, Nothing, n, ttl, now))
    BY <2>1 DEF BeginReserve
  <2>. QED BY <2>2, <2>3
<1>2. CASE \E c, h \in Principal, ttl \in Ttls : BeginExtend(w, c, h, ttl)
  <2>1. PICK c, h \in Principal, ttl \in Ttls : BeginExtend(w, c, h, ttl)
    BY <1>2
  <2>. ttl \in Nat
    OBVIOUS
  <2>2. /\ CallOf("extend", h, Nothing, 0, ttl, now) \in Call
        /\ CallOf("extend", h, Nothing, 0, ttl, now).at <= now
        /\ CallOf("extend", h, Nothing, 0, ttl, now).holder \in Principal
    OBVIOUS
  <2>3. Begin(w, CallOf("extend", h, Nothing, 0, ttl, now))
    BY <2>1 DEF BeginExtend
  <2>. QED BY <2>2, <2>3
<1>3. CASE \E c, h \in Principal : BeginReleaseAll(w, c, h)
  <2>1. PICK c, h \in Principal : BeginReleaseAll(w, c, h)
    BY <1>3
  <2>2. /\ CallOf("releaseAll", h, Nothing, 0, 0, 0) \in Call
        /\ CallOf("releaseAll", h, Nothing, 0, 0, 0).at <= now
        /\ CallOf("releaseAll", h, Nothing, 0, 0, 0).holder \in Principal
    OBVIOUS
  <2>3. Begin(w, CallOf("releaseAll", h, Nothing, 0, 0, 0))
    BY <2>1 DEF BeginReleaseAll
  <2>. QED BY <2>2, <2>3
<1>4. CASE \E c, h \in Principal, s \in Service : BeginReleaseOne(w, c, h, s)
  <2>1. PICK c, h \in Principal, s \in Service : BeginReleaseOne(w, c, h, s)
    BY <1>4
  <2>2. /\ CallOf("releaseOne", h, s, 0, 0, 0) \in Call
        /\ CallOf("releaseOne", h, s, 0, 0, 0).at <= now
        /\ CallOf("releaseOne", h, s, 0, 0, 0).holder \in Principal
    OBVIOUS
  <2>3. Begin(w, CallOf("releaseOne", h, s, 0, 0, 0))
    BY <2>1 DEF BeginReleaseOne
  <2>. QED BY <2>2, <2>3
<1>5. CASE \E c \in Principal, s \in Service : BeginSelfRelease(w, c, s)
  <2>1. PICK c \in Principal, s \in Service : BeginSelfRelease(w, c, s)
    BY <1>5
  <2>2. /\ CallOf("selfRelease", Nothing, s, 0, 0, 0) \in Call
        /\ CallOf("selfRelease", Nothing, s, 0, 0, 0).at <= now
        /\ CallOf("selfRelease", Nothing, s, 0, 0, 0).op = "selfRelease"
    OBVIOUS
  <2>3. Begin(w, CallOf("selfRelease", Nothing, s, 0, 0, 0))
    BY <2>1 DEF BeginSelfRelease
  <2>. QED BY <2>2, <2>3
<1>6. CASE BeginIsLeased(w)
  <2>2. /\ CallOf("isLeased", Nothing, Nothing, 0, 0, now) \in Call
        /\ CallOf("isLeased", Nothing, Nothing, 0, 0, now).at <= now
        /\ CallOf("isLeased", Nothing, Nothing, 0, 0, now).op = "isLeased"
    OBVIOUS
  <2>3. Begin(w, CallOf("isLeased", Nothing, Nothing, 0, 0, now))
    BY <1>6 DEF BeginIsLeased
  <2>. QED BY <2>2, <2>3
<1>. QED BY <1>1, <1>2, <1>3, <1>4, <1>5, <1>6 DEF Begins

(* What the critical sections have in common. *)
LEMMA FinishTypes ==
  ASSUME ReservationTypeOK, ReadsArePast, HolderIsKnown, NEW w \in Worker, NEW op,
         Finish(w, op),
         leases' \in [Service -> Lease],
         promise' \in [Service -> [Principal -> Nat]]
  PROVE  ReservationTypeOK' /\ ReadsArePast' /\ HolderIsKnown'
BY DEF ReservationTypeOK, ReadsArePast, HolderIsKnown, Finish, NoCall, CallOf, Call, Ops

-----------------------------------------------------------------------------
(* Each critical section preserves the invariant.  Services it does not    *)
(* touch keep a live lease because the sweep spares it; for those it does   *)
(* touch the promise and the lease change together.                        *)
LEMMA CommitReserveStep ==
  ASSUME LeasesInv, NEW w \in Worker, NEW visible \in SUBSET Service, CommitReserve(w, visible)
  PROVE  LeasesInv'
<1>. DEFINE call == pending[w]
            swept == Swept(call.at)
            claimed == FirstOf(Unleased(swept, visible), call.n)
            until == Until(call)
<1>1. call \in Call /\ call.at \in Nat /\ call.at <= now /\ until \in Nat
  BY DEF LeasesInv, ReservationTypeOK, ReadsArePast, Call, Until
<1>2. \A s \in claimed : swept[s] = Free
  BY ClaimsAreFree DEF Unleased
<1>3. swept \in [Service -> Lease]
  BY <1>1, SweptIsTable DEF LeasesInv
<1>4. leases' = [s \in Service |->
        IF s \in claimed THEN [holder |-> call.holder, expires |-> until] ELSE swept[s]]
  BY DEF CommitReserve
<1>5. promise' = [s \in Service |->
        IF s \in claimed THEN [promise[s] EXCEPT ![call.holder] = until] ELSE promise[s]]
  BY DEF CommitReserve
<1>6. Finish(w, "reserve")
  BY DEF CommitReserve
<1>7. leases' \in [Service -> Lease]
  BY <1>1, <1>3, <1>4 DEF Call, Lease
<1>8. promise' \in [Service -> [Principal -> Nat]]
  BY <1>1, <1>5 DEF LeasesInv, ReservationTypeOK
<1>9. ReservationTypeOK' /\ ReadsArePast' /\ HolderIsKnown'
  BY <1>6, <1>7, <1>8, FinishTypes DEF LeasesInv
<1>10. ASSUME NEW s \in Service, NEW h \in Principal, promise'[s][h] > now'
       PROVE  leases'[s] = [holder |-> h, expires |-> promise'[s][h]]
  <2>. now' = now
    BY <1>6 DEF Finish
  <2>1. CASE s \notin claimed
    <3>1. leases[s] = [holder |-> h, expires |-> promise[s][h]]
      BY <1>5, <1>10, <2>1 DEF LeasesInv, PromiseKept
    <3>2. promise[s][h] > now
      BY <1>5, <1>10, <2>1
    <3>3. leases[s].expires > call.at
      BY <3>2, PromiseOutlivesReading
    <3>4. swept[s] = leases[s]
      BY <1>1, <3>3, SweepSparesTheLive DEF LeasesInv
    <3>. QED BY <1>4, <1>5, <2>1, <3>1, <3>4
  <2>2. CASE s \in claimed
    <3>1. ASSUME promise[s][h] > now
          PROVE  FALSE
      <4>1. leases[s] = [holder |-> h, expires |-> promise[s][h]]
        BY <3>1 DEF LeasesInv, PromiseKept
      <4>2. leases[s].expires > call.at
        BY <3>1, PromiseOutlivesReading
      <4>3. swept[s] # Free
        BY <1>1, <4>2, SweepSparesTheLive DEF LeasesInv
      <4>. QED BY <1>2, <2>2, <4>3
    <3>2. h = call.holder /\ promise'[s][h] = until
      BY <1>5, <1>10, <2>2, <3>1 DEF LeasesInv, ReservationTypeOK
    <3>. QED BY <1>4, <2>2, <3>2
  <2>. QED BY <2>1, <2>2
<1>. QED BY <1>9, <1>10 DEF LeasesInv, PromiseKept

LEMMA CommitExtendStep ==
  ASSUME LeasesInv, NEW w \in Worker, CommitExtend(w)
  PROVE  LeasesInv'
<1>. DEFINE call == pending[w]
            swept == Swept(call.at)
            owned == HeldBy(swept, call.holder)
            until == Until(call)
<1>1. call \in Call /\ call.at \in Nat /\ call.at <= now /\ until \in Nat
  BY DEF LeasesInv, ReservationTypeOK, ReadsArePast, Call, Until
<1>2. call.holder \in Principal
  BY DEF LeasesInv, HolderIsKnown, CommitExtend, Finish
<1>3. swept \in [Service -> Lease]
  BY <1>1, SweptIsTable DEF LeasesInv
<1>4. leases' = [s \in Service |->
        IF s \in owned THEN [swept[s] EXCEPT !.expires = until] ELSE swept[s]]
  BY DEF CommitExtend
<1>5. promise' = [s \in Service |->
        IF s \in owned THEN [promise[s] EXCEPT ![call.holder] = until] ELSE promise[s]]
  BY DEF CommitExtend
<1>6. Finish(w, "extend")
  BY DEF CommitExtend
<1>7. leases' \in [Service -> Lease]
  BY <1>1, <1>3, <1>4 DEF Lease
<1>8. promise' \in [Service -> [Principal -> Nat]]
  BY <1>1, <1>5 DEF LeasesInv, ReservationTypeOK
<1>9. ReservationTypeOK' /\ ReadsArePast' /\ HolderIsKnown'
  BY <1>6, <1>7, <1>8, FinishTypes DEF LeasesInv
<1>10. ASSUME NEW s \in Service, NEW h \in Principal, promise'[s][h] > now'
       PROVE  leases'[s] = [holder |-> h, expires |-> promise'[s][h]]
  <2>. now' = now
    BY <1>6 DEF Finish
  <2>0. ASSUME promise[s][h] > now
        PROVE  /\ swept[s] = leases[s]
               /\ leases[s] = [holder |-> h, expires |-> promise[s][h]]
    <3>1. leases[s] = [holder |-> h, expires |-> promise[s][h]]
      BY <2>0 DEF LeasesInv, PromiseKept
    <3>2. leases[s].expires > call.at
      BY <2>0, PromiseOutlivesReading
    <3>. QED BY <1>1, <3>1, <3>2, SweepSparesTheLive DEF LeasesInv
  <2>1. CASE s \notin owned
    BY <1>4, <1>5, <1>10, <2>0, <2>1
  <2>2. CASE s \in owned /\ h # call.holder
    <3>1. promise'[s][h] = promise[s][h]
      BY <1>5, <2>2 DEF LeasesInv, ReservationTypeOK
    <3>2. swept[s].holder = h
      BY <1>10, <2>0, <3>1
    <3>. QED BY <2>2, <3>2 DEF HeldBy
  <2>3. CASE s \in owned /\ h = call.holder
    <3>1. promise'[s][h] = until
      BY <1>2, <1>5, <2>3 DEF LeasesInv, ReservationTypeOK
    <3>2. leases'[s] = [holder |-> h, expires |-> until]
      BY <1>3, <1>4, <2>3 DEF Lease, HeldBy
    <3>. QED BY <3>1, <3>2
  <2>. QED BY <2>1, <2>2, <2>3
<1>. QED BY <1>9, <1>10 DEF LeasesInv, PromiseKept

LEMMA ForgetStep ==
  ASSUME LeasesInv, NEW w \in Worker, NEW op, NEW gone \in SUBSET Service,
         Finish(w, op), Forget(gone)
  PROVE  LeasesInv'
<1>1. now \in Nat /\ Swept(now) \in [Service -> Lease] /\ Free \in Lease
  BY SweptIsTable DEF LeasesInv, ReservationTypeOK, Free, Lease
<1>2. leases' \in [Service -> Lease]
  BY <1>1 DEF Forget
<1>3. promise' \in [Service -> [Principal -> Nat]]
  BY DEF LeasesInv, ReservationTypeOK, Forget
<1>4. ReservationTypeOK' /\ ReadsArePast' /\ HolderIsKnown'
  BY <1>2, <1>3, FinishTypes DEF LeasesInv
<1>5. ASSUME NEW s \in Service, NEW h \in Principal, promise'[s][h] > now'
      PROVE  leases'[s] = [holder |-> h, expires |-> promise'[s][h]]
  <2>. now' = now
    BY DEF Finish
  <2>1. promise[s][h] > now /\ promise'[s][h] = promise[s][h]
    BY <1>1, <1>5 DEF Forget, LeasesInv, ReservationTypeOK
  <2>2. leases[s] = [holder |-> h, expires |-> promise[s][h]]
    BY <2>1 DEF LeasesInv, PromiseKept
  <2>3. s \notin gone
    BY <1>1, <1>5, <2>2 DEF Forget, LeasesInv, ReservationTypeOK
  <2>4. Swept(now)[s] = leases[s]
    BY <1>1, <2>1, <2>2, SweepSparesTheLive DEF LeasesInv
  <2>. QED BY <2>1, <2>2, <2>3, <2>4 DEF Forget
<1>. QED BY <1>4, <1>5 DEF LeasesInv, PromiseKept

LEMMA CommitIsLeasedStep ==
  ASSUME LeasesInv, NEW w \in Worker, CommitIsLeased(w)
  PROVE  LeasesInv'
<1>1. pending[w].at \in Nat /\ pending[w].at <= now /\ now \in Nat
  BY DEF LeasesInv, ReservationTypeOK, ReadsArePast, Call
<1>2. Swept(pending[w].at) \in [Service -> Lease]
  BY <1>1, SweptIsTable DEF LeasesInv
<1>3. ReservationTypeOK' /\ ReadsArePast' /\ HolderIsKnown'
  BY <1>2, FinishTypes DEF LeasesInv, ReservationTypeOK, CommitIsLeased
<1>4. ASSUME NEW s \in Service, NEW h \in Principal, promise'[s][h] > now'
      PROVE  leases'[s] = [holder |-> h, expires |-> promise'[s][h]]
  <2>1. promise[s][h] > now /\ promise' = promise
    BY <1>4 DEF CommitIsLeased, Finish
  <2>2. leases[s] = [holder |-> h, expires |-> promise[s][h]]
    BY <2>1 DEF LeasesInv, PromiseKept
  <2>3. leases[s].expires > pending[w].at
    BY <1>1, <2>1, <2>2 DEF LeasesInv, ReservationTypeOK
  <2>4. leases'[s] = leases[s]
    BY <1>1, <2>3, SweepSparesTheLive DEF LeasesInv, CommitIsLeased
  <2>. QED BY <2>1, <2>2, <2>4
<1>. QED BY <1>3, <1>4 DEF LeasesInv, PromiseKept

LEMMA TickStep == ASSUME LeasesInv, Tick PROVE LeasesInv'
<1>1. now \in Nat /\ now' = now + 1
  BY DEF LeasesInv, ReservationTypeOK, Tick
<1>2. ReservationTypeOK'
  BY <1>1 DEF LeasesInv, ReservationTypeOK, Tick
<1>3. ReadsArePast' /\ HolderIsKnown'
  BY <1>1 DEF LeasesInv, ReservationTypeOK, Call, ReadsArePast, HolderIsKnown, Tick
<1>4. ASSUME NEW s \in Service, NEW h \in Principal, promise'[s][h] > now'
      PROVE  leases'[s] = [holder |-> h, expires |-> promise'[s][h]]
  <2>0. promise'[s][h] = IF promise[s][h] > now' THEN promise[s][h] ELSE 0
    BY DEF Tick
  <2>1. promise'[s][h] = promise[s][h] /\ promise[s][h] > now
    <3>0. promise \in [Service -> [Principal -> Nat]]
      BY DEF LeasesInv, ReservationTypeOK
    <3>1. promise[s][h] \in Nat
      BY <3>0
    <3>. QED BY <1>1, <1>4, <2>0, <3>1
  <2>. QED BY <2>1 DEF LeasesInv, PromiseKept, Tick
<1>. QED BY <1>2, <1>3, <1>4 DEF LeasesInv, PromiseKept

LEMMA EntriesStep ==
  ASSUME LeasesInv, NEW c \in Principal, NEW s \in Service,
         RegisterEntry(c, s) \/ DeregisterEntry(c, s)
  PROVE  LeasesInv'
<1>1. owner' \in [Service -> Principal \cup {Nothing}]
  BY DEF LeasesInv, ReservationTypeOK, RegisterEntry, DeregisterEntry
<1>2. UNCHANGED <<now, leases, pending, promise>>
  BY DEF RegisterEntry, DeregisterEntry
<1>. QED BY <1>1, <1>2 DEF LeasesInv, ReservationTypeOK, ReadsArePast, HolderIsKnown, PromiseKept

LEMMA BeginsStep ==
  ASSUME LeasesInv, NEW w \in Worker, Begins(w)
  PROVE  LeasesInv'
<1>1. PICK call \in Call :
        /\ Begin(w, call)
        /\ call.at <= now
        /\ call.op \in {"reserve", "extend", "releaseAll", "releaseOne"}
             => call.holder \in Principal
  BY BeginsIsBegin DEF LeasesInv
<1>2. ReservationTypeOK' /\ ReadsArePast' /\ HolderIsKnown'
  BY <1>1, BeginTypes DEF LeasesInv
<1>3. UNCHANGED <<now, leases, promise>>
  BY <1>1 DEF Begin
<1>. QED BY <1>2, <1>3 DEF LeasesInv, PromiseKept

(* The next-state relation, with the beginnings taken together. *)
LEMMA ReservationCases ==
  ASSUME ReservationNext
  PROVE  \/ Tick
         \/ \E c \in Principal, s \in Service : RegisterEntry(c, s) \/ DeregisterEntry(c, s)
         \/ \E w \in Worker :
              \/ Begins(w)
              \/ \E visible \in SUBSET Service : CommitReserve(w, visible)
              \/ CommitExtend(w)
              \/ CommitReleaseAll(w)
              \/ CommitReleaseOne(w)
              \/ CommitSelfRelease(w)
              \/ CommitIsLeased(w)
BY Zenon DEF ReservationNext, Begins

LEMMA LeasesStep == LeasesInv /\ [ReservationNext]_reservationVars => LeasesInv'
<1>. SUFFICES ASSUME LeasesInv, [ReservationNext]_reservationVars PROVE LeasesInv'
  OBVIOUS
<1>1. CASE Tick
  BY <1>1, TickStep
<1>2. ASSUME NEW c \in Principal, NEW s \in Service,
             RegisterEntry(c, s) \/ DeregisterEntry(c, s)
      PROVE  LeasesInv'
  BY <1>2, EntriesStep
<1>3. ASSUME NEW w \in Worker, Begins(w)
      PROVE  LeasesInv'
  BY <1>3, BeginsStep
<1>4. ASSUME NEW w \in Worker, NEW visible \in SUBSET Service, CommitReserve(w, visible)
      PROVE  LeasesInv'
  BY <1>4, CommitReserveStep
<1>5. ASSUME NEW w \in Worker, CommitExtend(w)
      PROVE  LeasesInv'
  BY <1>5, CommitExtendStep
<1>6. ASSUME NEW w \in Worker, CommitReleaseAll(w)
      PROVE  LeasesInv'
  <2>1. PICK gone \in SUBSET Service : Forget(gone)
    BY <1>6, Zenon DEF CommitReleaseAll, HeldBy
  <2>2. Finish(w, "releaseAll")
    BY <1>6 DEF CommitReleaseAll
  <2>. QED BY <2>1, <2>2, ForgetStep
<1>7. ASSUME NEW w \in Worker, CommitReleaseOne(w)
      PROVE  LeasesInv'
  <2>1. PICK gone \in SUBSET Service : Forget(gone)
    BY <1>7 DEF CommitReleaseOne, HeldBy
  <2>2. Finish(w, "releaseOne")
    BY <1>7 DEF CommitReleaseOne
  <2>. QED BY <2>1, <2>2, ForgetStep
<1>8. ASSUME NEW w \in Worker, CommitSelfRelease(w)
      PROVE  LeasesInv'
  <2>1. PICK gone \in SUBSET Service : Forget(gone)
    BY <1>8, Zenon DEF CommitSelfRelease
  <2>2. Finish(w, "selfRelease")
    BY <1>8 DEF CommitSelfRelease
  <2>. QED BY <2>1, <2>2, ForgetStep
<1>9. ASSUME NEW w \in Worker, CommitIsLeased(w)
      PROVE  LeasesInv'
  BY <1>9, CommitIsLeasedStep
<1>10. CASE UNCHANGED reservationVars
  BY <1>10 DEF LeasesInv, ReservationTypeOK, ReadsArePast, HolderIsKnown, PromiseKept,
               reservationVars
<1>. QED
  BY <1>1, <1>2, <1>3, <1>4, <1>5, <1>6, <1>7, <1>8, <1>9, <1>10, ReservationCases, Zenon

LEMMA InitLeases == ReservationInit => LeasesInv
BY DEF ReservationInit, LeasesInv, ReservationTypeOK, ReadsArePast, HolderIsKnown, PromiseKept,
       Lease, Free, Call, CallOf, NoCall, Ops

THEOREM SpecLeasesInv == ReservationSpec => []LeasesInv
BY InitLeases, LeasesStep, PTL DEF ReservationSpec

-----------------------------------------------------------------------------
(* Every variable always has its type. *)
THEOREM SpecReservationTypeOK == ReservationSpec => []ReservationTypeOK
BY SpecLeasesInv, PTL DEF LeasesInv

(* Whoever was told that it holds a service until some time does hold it    *)
(* until then, unless it gave it up, however stale the clock readings of    *)
(* the other workers are.                                                  *)
THEOREM SpecPromiseKept == ReservationSpec => []PromiseKept
BY SpecLeasesInv, PTL DEF LeasesInv

(* reserve_services never grants a service to two holders at once: both     *)
(* promises would be the one lease of the table.                           *)
THEOREM SpecNoDoubleGrant == ReservationSpec => []NoDoubleGrant
<1>1. ASSUME PromiseKept, NEW s \in Service, NEW g \in Principal, NEW h \in Principal,
             promise[s][g] > now, promise[s][h] > now
      PROVE  g = h
  <2>1. /\ leases[s] = [holder |-> g, expires |-> promise[s][g]]
        /\ leases[s] = [holder |-> h, expires |-> promise[s][h]]
    BY <1>1 DEF PromiseKept
  <2>2. leases[s].holder = g /\ leases[s].holder = h
    BY <2>1
  <2>. QED BY <2>2
<1>2. PromiseKept => NoDoubleGrant
  BY <1>1 DEF NoDoubleGrant
<1>. QED BY <1>2, SpecPromiseKept, PTL

-----------------------------------------------------------------------------
(* The step formulas of the two action properties. *)
LiveLeaseIsSafe ==
  \A s \in Service :
    leases[s].expires > now /\ leases'[s] # leases[s] =>
      \E w \in Worker :
        \/ /\ pending[w].holder = leases[s].holder
           /\ \/ Commits(w, "releaseAll")
              \/ Commits(w, "releaseOne") /\ pending[w].sid = s
              \/ Commits(w, "extend") /\ leases'[s].holder = leases[s].holder
        \/ Commits(w, "selfRelease") /\ pending[w].sid = s

OnlyLiveLeasesMove ==
  \A w \in Worker, s \in Service :
    Commits(w, "extend") /\ leases'[s].expires > leases[s].expires =>
      /\ leases[s].expires > pending[w].at
      /\ leases[s].holder = pending[w].holder

(* A finished call leaves its worker idle. *)
LEMMA FinishCommits ==
  ASSUME ReservationTypeOK, NEW w \in Worker, NEW op, Finish(w, op)
  PROVE  Commits(w, op) /\ pending[w].op = op
BY DEF ReservationTypeOK, Finish, Commits

(* Only a critical section changes the leases. *)
LEMMA LeasesStayOutside ==
  ASSUME ReservationNext
  PROVE  \/ leases' = leases
         \/ \E w \in Worker :
              \/ \E visible \in SUBSET Service : CommitReserve(w, visible)
              \/ CommitExtend(w)
              \/ CommitReleaseAll(w)
              \/ CommitReleaseOne(w)
              \/ CommitSelfRelease(w)
              \/ CommitIsLeased(w)
<1>1. Tick => leases' = leases
  BY DEF Tick
<1>2. ASSUME NEW c \in Principal, NEW s \in Service
      PROVE  RegisterEntry(c, s) \/ DeregisterEntry(c, s) => leases' = leases
  BY DEF RegisterEntry, DeregisterEntry
<1>3. ASSUME NEW w \in Worker, Begins(w) PROVE leases' = leases
  BY <1>3 DEF Begins, BeginReserve, BeginExtend, BeginReleaseAll,
              BeginReleaseOne, BeginSelfRelease, BeginIsLeased, Begin
<1>. QED BY ReservationCases, <1>1, <1>2, <1>3, Zenon

LEMMA LiveLeaseStep ==
  LeasesInv /\ [ReservationNext]_reservationVars => [LiveLeaseIsSafe]_reservationVars
<1>. SUFFICES ASSUME LeasesInv, ReservationNext, NEW s \in Service,
                     leases[s].expires > now, leases'[s] # leases[s]
              PROVE  \E w \in Worker :
                       \/ /\ pending[w].holder = leases[s].holder
                          /\ \/ Commits(w, "releaseAll")
                             \/ Commits(w, "releaseOne") /\ pending[w].sid = s
                             \/ Commits(w, "extend") /\ leases'[s].holder = leases[s].holder
                       \/ Commits(w, "selfRelease") /\ pending[w].sid = s
  BY Zenon DEF LiveLeaseIsSafe
<1>1. now \in Nat /\ leases[s].expires \in Nat
  BY DEF LeasesInv, ReservationTypeOK, Lease
<1>2. ASSUME NEW w \in Worker
      PROVE  /\ pending[w].at \in Nat
             /\ Swept(pending[w].at)[s] = leases[s]
             /\ Swept(now)[s] = leases[s]
             /\ leases[s] # Free
  <2>1. pending[w].at \in Nat /\ pending[w].at <= now
    BY DEF LeasesInv, ReservationTypeOK, ReadsArePast, Call
  <2>2. leases[s].expires > pending[w].at
    BY <1>1, <2>1
  <2>. QED BY <1>1, <2>1, <2>2, SweepSparesTheLive DEF LeasesInv
<1>3. ASSUME NEW w \in Worker, NEW visible \in SUBSET Service, CommitReserve(w, visible)
      PROVE  FALSE
  <2>1. s \notin FirstOf(Unleased(Swept(pending[w].at), visible), pending[w].n)
    BY <1>2, ClaimsAreFree DEF Unleased
  <2>. QED BY <1>2, <1>3, <2>1 DEF CommitReserve
<1>4. ASSUME NEW w \in Worker, CommitIsLeased(w)
      PROVE  FALSE
  BY <1>2, <1>4 DEF CommitIsLeased
<1>5. ASSUME NEW w \in Worker, CommitExtend(w)
      PROVE  /\ pending[w].holder = leases[s].holder
             /\ Commits(w, "extend")
             /\ leases'[s].holder = leases[s].holder
  <2>1. Commits(w, "extend")
    BY <1>5, FinishCommits DEF CommitExtend, LeasesInv
  <2>2. leases[s].holder = pending[w].holder
    BY <1>2, <1>5 DEF CommitExtend, HeldBy
  <2>3. leases'[s].holder = leases[s].holder
    BY <1>2, <1>5 DEF CommitExtend, LeasesInv, ReservationTypeOK, Lease
  <2>. QED BY <2>1, <2>2, <2>3
<1>6. ASSUME NEW w \in Worker, CommitReleaseAll(w)
      PROVE  Commits(w, "releaseAll") /\ pending[w].holder = leases[s].holder
  <2>1. Commits(w, "releaseAll")
    BY <1>6, FinishCommits DEF CommitReleaseAll, LeasesInv
  <2>. QED BY <1>2, <1>6, <2>1 DEF CommitReleaseAll, Forget, HeldBy
<1>7. ASSUME NEW w \in Worker, CommitReleaseOne(w)
      PROVE  /\ Commits(w, "releaseOne")
             /\ pending[w].sid = s
             /\ pending[w].holder = leases[s].holder
  <2>1. Commits(w, "releaseOne")
    BY <1>7, FinishCommits DEF CommitReleaseOne, LeasesInv
  <2>. QED BY <1>2, <1>7, <2>1 DEF CommitReleaseOne, Forget, HeldBy
<1>8. ASSUME NEW w \in Worker, CommitSelfRelease(w)
      PROVE  Commits(w, "selfRelease") /\ pending[w].sid = s
  <2>1. Commits(w, "selfRelease")
    BY <1>8, FinishCommits DEF CommitSelfRelease, LeasesInv
  <2>. QED BY <1>2, <1>8, <2>1 DEF CommitSelfRelease, Forget
<1>. QED BY LeasesStayOutside, <1>3, <1>4, <1>5, <1>6, <1>7, <1>8, Zenon

(* No reserve, sweep, or call of another holder takes or shortens a lease   *)
(* that is still running.                                                  *)
THEOREM SpecLeaseChangesForItsHolder == ReservationSpec => LeaseChangesForItsHolder
<1>1. LeasesInv /\ [ReservationNext]_reservationVars => [LiveLeaseIsSafe]_reservationVars
  BY LiveLeaseStep
<1>2. ReservationSpec => [][LiveLeaseIsSafe]_reservationVars
  BY <1>1, SpecLeasesInv, PTL DEF ReservationSpec
<1>. QED BY <1>2 DEF LeaseChangesForItsHolder, LiveLeaseIsSafe

LEMMA ExtendStep ==
  LeasesInv /\ [ReservationNext]_reservationVars => [OnlyLiveLeasesMove]_reservationVars
<1>. SUFFICES ASSUME LeasesInv, ReservationNext, NEW w \in Worker, NEW s \in Service,
                     Commits(w, "extend"), leases'[s].expires > leases[s].expires
              PROVE  /\ leases[s].expires > pending[w].at
                     /\ leases[s].holder = pending[w].holder
  BY Zenon DEF OnlyLiveLeasesMove
<1>1. /\ pending[w].op = "extend" /\ pending'[w] = NoCall
      /\ pending[w].at \in Nat /\ pending[w].holder \in Principal
      /\ leases[s] \in Lease
  BY DEF Commits, LeasesInv, ReservationTypeOK, HolderIsKnown, Call
<1>2. pending'[w] # pending[w]
  BY <1>1 DEF NoCall, CallOf
<1>3. CommitExtend(w)
  <2>1. ASSUME NEW u \in Worker, NEW op, Finish(u, op)
        PROVE  u = w /\ op = "extend"
    <3>1. pending' = [pending EXCEPT ![u] = NoCall] /\ pending[u].op = op
      BY <2>1 DEF Finish
    <3>2. u = w
      BY <1>2, <3>1 DEF LeasesInv, ReservationTypeOK
    <3>. QED BY <1>1, <3>1, <3>2
  <2>2. leases' # leases
    BY <1>1 DEF Lease
  <2>3. ASSUME NEW u \in Worker
        PROVE  /\ \A visible \in SUBSET Service : ~CommitReserve(u, visible)
               /\ ~CommitReleaseAll(u)
               /\ ~CommitReleaseOne(u)
               /\ ~CommitSelfRelease(u)
               /\ ~CommitIsLeased(u)
    BY <2>1 DEF CommitReserve, CommitReleaseAll, CommitReleaseOne,
                CommitSelfRelease, CommitIsLeased
  <2>4. ASSUME NEW u \in Worker, CommitExtend(u)
        PROVE  u = w
    BY <2>1, <2>4 DEF CommitExtend
  <2>. QED BY LeasesStayOutside, <2>2, <2>3, <2>4
<1>4. /\ leases'[s] = IF Swept(pending[w].at)[s].holder = pending[w].holder
                      THEN [Swept(pending[w].at)[s] EXCEPT !.expires =
                              pending[w].at + pending[w].ttl]
                      ELSE Swept(pending[w].at)[s]
  BY <1>3 DEF CommitExtend, HeldBy, Until
<1>5. CASE leases[s].expires > pending[w].at
  <2>1. Swept(pending[w].at)[s] = leases[s]
    BY <1>1, <1>5, SweepSparesTheLive DEF LeasesInv
  <2>2. CASE leases[s].holder = pending[w].holder
    BY <1>5, <2>2
  <2>3. CASE leases[s].holder # pending[w].holder
    <3>1. leases'[s] = leases[s]
      BY <1>4, <2>1, <2>3
    <3>. QED BY <1>1, <3>1 DEF Lease
  <2>. QED BY <2>2, <2>3
<1>6. CASE ~(leases[s].expires > pending[w].at)
  <2>1. Swept(pending[w].at)[s] = Free
    BY <1>1, <1>6 DEF Swept, Lease
  <2>2. leases'[s] = Free
    BY <1>1, <1>4, <2>1 DEF Free
  <2>. QED BY <1>1, <2>2 DEF Free, Lease
<1>. QED BY <1>5, <1>6

(* An extension moves only leases of its holder that had not run out when   *)
(* the call read the clock.                                                *)
THEOREM SpecExtendMovesOnlyLiveLeases == ReservationSpec => ExtendMovesOnlyLiveLeases
<1>1. LeasesInv /\ [ReservationNext]_reservationVars => [OnlyLiveLeasesMove]_reservationVars
  BY ExtendStep
<1>2. ReservationSpec => [][OnlyLiveLeasesMove]_reservationVars
  BY <1>1, SpecLeasesInv, PTL DEF ReservationSpec
<1>. QED BY <1>2 DEF ExtendMovesOnlyLiveLeases, OnlyLiveLeasesMove
=============================================================================
