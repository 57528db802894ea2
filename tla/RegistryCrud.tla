---------------------------- MODULE RegistryCrud ----------------------------
(***************************************************************************)
(* register, update and deregister of RegistryService, for one dataset.    *)
(* A handler runs on a worker thread and is a sequence of short critical   *)
(* sections with file I/O between them:                                    *)
(*                                                                         *)
(*   commit to _entries; save to or remove from disk; regenerate the       *)
(*   output cache; write service.json if it changed; call _on_mutation.    *)
(*                                                                         *)
(* Each is one action here, so that two handlers interleave between them   *)
(* as two threads do.  Uploaded skills go to disk before they are          *)
(* committed, all else after.  The taxonomy's part is in TaxonomyBuild.    *)
(***************************************************************************)
EXTENDS Integers, FiniteSets

CONSTANTS
  Sid,       \* service ids
  SkillSid,  \* those generated for a skill: no other type has them
  Value,     \* what a registration says of the service
  Sources,   \* the sources a generic or a2a registration may have
  Thread,    \* threads that run handlers
  Absent,    \* no entry
  None       \* no service

ASSUME RegistryCrudAssumption ==
  /\ SkillSid \subseteq Sid
  /\ Sources \subseteq {"api_config", "ephemeral"}
  /\ Absent \notin Value
  /\ None \notin Sid

VARIABLES
  entries,    \* _entries
  disk,       \* api_config.json (with _api_entries) and the skills folder
  cache,      \* _output_cache
  file,       \* service.json
  announced,  \* what the cluster last recorded of a service
  thread,     \* what each handler is about to do, and what it has read
  exempt,     \* history: services about which nothing is promised (below)
  crossed     \* history: a handler regenerated while another had to write

vars == <<entries, disk, cache, file, announced, thread, exempt, crossed>>

Entry == [value: Value, source: {"api_config", "ephemeral", "skill_folder"}]

NoEntry == [value |-> Absent, source |-> "none"]

Output == [Sid -> Value \cup {Absent}]

OutputOf(e) == [s \in Sid |-> e[s].value]

Idle == [pc |-> "idle", op |-> "none", sid |-> None, entry |-> NoEntry,
         out |-> [s \in Sid |-> Absent]]

ThreadState ==
  [pc: {"idle", "rewrite", "commit", "save", "remove", "regenerate",
        "write", "announce"},
   op: {"none", "register", "update", "deregister"},
   sid: Sid \cup {None}, entry: Entry \cup {NoEntry}, out: Output]

Busy(s) == \E t \in Thread : thread[t].sid = s

(* The next step of thread t. *)
Goto(t, pc) == thread' = [thread EXCEPT ![t].pc = pc]
Done(t) == thread' = [thread EXCEPT ![t] = Idle]

(* A free thread takes a request for s.  From when two requests for s have  *)
(* overlapped, and from when an ephemeral registration has hidden a         *)
(* persistent one, nothing is promised of s.                               *)
Take(t, op, s, e, pc) ==
  /\ thread[t] = Idle
  /\ thread' = [thread EXCEPT ![t] =
                  [Idle EXCEPT !.pc = pc, !.op = op, !.sid = s, !.entry = e]]
  /\ exempt' = IF Busy(s) \/ (e.source = "ephemeral" /\ disk[s] # Absent)
               THEN exempt \cup {s} ELSE exempt

Present(s) == entries[s] # NoEntry

(* The definitions whose names begin with Mutant are plausible mistakes,    *)
(* which the properties must catch.                                        *)
MutantAfterCommit(e) == "regenerate"

AfterCommit(e) == IF e.source = "api_config" THEN "save" ELSE "regenerate"

---------------------------------------------------------------------------
(* A registry that has just started on an empty dataset. *)
Init ==
  /\ entries = [s \in Sid |-> NoEntry]
  /\ disk = [s \in Sid |-> Absent]
  /\ cache = OutputOf(entries)
  /\ file = cache
  /\ announced = [s \in Sid |-> "nothing"]
  /\ thread = [t \in Thread |-> Idle]
  /\ exempt = {}
  /\ crossed = FALSE

(* register_generic and register_a2a; a known id is replaced. *)
Register(t, s, v, source) ==
  LET e == [value |-> v, source |-> source]
  IN  /\ s \notin SkillSid
      /\ Take(t, "register", s, e, AfterCommit(e))
      /\ entries' = [entries EXCEPT ![s] = e]
      /\ UNCHANGED <<disk, cache, file, announced, crossed>>

(* register_skill unpacks the archive over the skill's folder, *)
UploadSkill(t, s, v) ==
  LET e == [value |-> v, source |-> "skill_folder"]
  IN  /\ s \in SkillSid
      /\ Take(t, "register", s, e, "commit")
      /\ disk' = [disk EXCEPT ![s] = v]
      /\ UNCHANGED <<entries, cache, file, announced, crossed>>

(* and asks only then whether the caller may replace the skill: a 403.     *)
RefuseSkill(t) ==
  LET s == thread[t].sid
  IN  /\ thread[t].op = "register" /\ thread[t].pc = "commit"
      /\ Present(s)
      /\ Done(t)
      /\ exempt' = exempt \cup {s}
      /\ UNCHANGED <<entries, disk, cache, file, announced, crossed>>

(* update_service copies the entry under the lock, merges the changes into  *)
(* the copy outside it,                                                    *)
Update(t, s, v) ==
  /\ Present(s)
  /\ Take(t, "update", s, [entries[s] EXCEPT !.value = v],
          IF s \in SkillSid /\ v # entries[s].value THEN "rewrite" ELSE "commit")
  /\ UNCHANGED <<entries, disk, cache, file, announced, crossed>>

(* and rewrites SKILL.md if something changes; a folder that is gone is an  *)
(* error.                                                                  *)
RewriteSkill(t) ==
  LET s == thread[t].sid
  IN  /\ thread[t].pc = "rewrite"
      /\ IF disk[s] = Absent
         THEN Done(t) /\ UNCHANGED disk
         ELSE Goto(t, "commit") /\ disk' = [disk EXCEPT ![s] = thread[t].entry.value]
      /\ UNCHANGED <<entries, cache, file, announced, exempt, crossed>>

(* The copy replaces the entry, also one registered meanwhile; an update   *)
(* whose service has been deregistered meanwhile is a 404.                 *)
Commit(t) ==
  LET s == thread[t].sid
      e == thread[t].entry
  IN  /\ thread[t].pc = "commit"
      /\ thread[t].op = "update" => Present(s)
      /\ entries' = [entries EXCEPT ![s] = e]
      /\ Goto(t, AfterCommit(e))
      /\ UNCHANGED <<disk, cache, file, announced, exempt, crossed>>

UpdateGone(t) ==
  /\ thread[t].op = "update" /\ thread[t].pc = "commit"
  /\ ~Present(thread[t].sid)
  /\ Done(t)
  /\ UNCHANGED <<entries, disk, cache, file, announced, exempt, crossed>>

(* deregister and deregister_skill. *)
Deregister(t, s) ==
  /\ Present(s)
  /\ Take(t, "deregister", s, NoEntry,
          IF entries[s].source = "ephemeral" THEN "regenerate" ELSE "remove")
  /\ entries' = [entries EXCEPT ![s] = NoEntry]
  /\ UNCHANGED <<disk, cache, file, announced, crossed>>

MutantSave(t) ==
  /\ thread[t].pc = "save"
  /\ disk' = [disk EXCEPT ![thread[t].sid] = thread[t].entry.value]
  /\ Goto(t, "announce")
  /\ UNCHANGED <<entries, cache, file, announced, exempt, crossed>>

(* save_api_entry, and remove_api_entry or remove_skill. *)
Save(t) ==
  /\ thread[t].pc = "save"
  /\ disk' = [disk EXCEPT ![thread[t].sid] = thread[t].entry.value]
  /\ Goto(t, "regenerate")
  /\ UNCHANGED <<entries, cache, file, announced, exempt, crossed>>

Remove(t) ==
  /\ thread[t].pc = "remove"
  /\ disk' = [disk EXCEPT ![thread[t].sid] = Absent]
  /\ Goto(t, "regenerate")
  /\ UNCHANGED <<entries, cache, file, announced, exempt, crossed>>

MutantChanged(output) == FALSE

Changed(output) == output # cache

(* _regenerate_output compares lists: the same services in another order   *)
(* are a change too, which `reordered` stands for.                         *)
Regenerate(t) ==
  LET output == OutputOf(entries)
  IN  /\ thread[t].pc = "regenerate"
      /\ cache' = output
      /\ \E reordered \in BOOLEAN :
           thread' = [thread EXCEPT ![t] =
             IF Changed(output) \/ reordered
             THEN [@ EXCEPT !.pc = "write", !.out = output]
             ELSE [@ EXCEPT !.pc = "announce"]]
      /\ crossed' = (crossed \/ \E u \in Thread : thread[u].pc = "write")
      /\ UNCHANGED <<entries, disk, file, announced, exempt>>

Write(t) ==
  /\ thread[t].pc = "write"
  /\ file' = thread[t].out
  /\ thread' = [thread EXCEPT ![t] = [@ EXCEPT !.pc = "announce", !.out = Idle.out]]
  /\ UNCHANGED <<entries, disk, cache, announced, exempt, crossed>>

MutantAnnouncement(op) == "version"

Announcement(op) == IF op = "deregister" THEN "tombstone" ELSE "version"

(* _emit_mutation: the cluster stamps a version, or a tombstone, for a      *)
(* service that it knows by its id only.                                   *)
Announce(t) ==
  /\ thread[t].pc = "announce"
  /\ announced' = [announced EXCEPT ![thread[t].sid] = Announcement(thread[t].op)]
  /\ Done(t)
  /\ UNCHANGED <<entries, disk, cache, file, exempt, crossed>>

(* The process dies and starts again: startup loads what is on disk, and    *)
(* writes service.json.  Nothing is promised of the services some handler   *)
(* had not finished with, nor to the cluster of those that were in memory   *)
(* only.                                                                   *)
Restart ==
  /\ entries' = [s \in Sid |->
       IF disk[s] = Absent THEN NoEntry
       ELSE [value |-> disk[s],
             source |-> IF s \in SkillSid THEN "skill_folder" ELSE "api_config"]]
  /\ cache' = disk
  /\ file' = disk
  /\ thread' = [t \in Thread |-> Idle]
  /\ exempt' = exempt \cup {s \in Sid : Busy(s) \/ entries[s].source = "ephemeral"}
  /\ crossed' = FALSE
  /\ UNCHANGED <<disk, announced>>

Next ==
  \/ \E t \in Thread, s \in Sid :
       \/ \E v \in Value :
            \/ \E source \in Sources : Register(t, s, v, source)
            \/ UploadSkill(t, s, v)
            \/ Update(t, s, v)
       \/ Deregister(t, s)
  \/ \E t \in Thread :
       \/ RefuseSkill(t) \/ RewriteSkill(t) \/ Commit(t) \/ UpdateGone(t)
       \/ Save(t) \/ Remove(t)
       \/ Regenerate(t) \/ Write(t) \/ Announce(t)
  \/ Restart

Spec == Init /\ [][Next]_vars
---------------------------------------------------------------------------
(* Every variable has its type. *)
TypeOK ==
  /\ entries \in [Sid -> Entry \cup {NoEntry}]
  /\ disk \in Output
  /\ cache \in Output
  /\ file \in Output
  /\ announced \in [Sid -> {"nothing", "version", "tombstone"}]
  /\ thread \in [Thread -> ThreadState]
  /\ exempt \subseteq Sid
  /\ crossed \in BOOLEAN

(* The output cache that answers queries lags behind the entries only      *)
(* while a handler that changed them has yet to regenerate it, whatever     *)
(* the order in which concurrent handlers regenerate.                      *)
CacheFollowsEntries ==
  (\A t \in Thread : thread[t].pc \notin {"save", "remove", "regenerate"})
    => cache = OutputOf(entries)

(* service.json is the cache, unless a write is still to come, or the       *)
(* writes of two handlers crossed since the process started.               *)
FileFollowsCache ==
  crossed \/ file = cache \/ \E t \in Thread : thread[t].pc = "write"

Durable(e) == IF e.source = "ephemeral" THEN Absent ELSE e.value

(* What a restart would bring back of a service is what is registered now: *)
(* whatever goes on with other services, and through crashes, when its own *)
(* requests came one after the other.                                      *)
DiskFollowsEntries ==
  \A s \in Sid \ exempt : ~Busy(s) => disk[s] = Durable(entries[s])

(* The cluster has a version of just the services that are registered.     *)
AnnouncedFollowsEntries ==
  \A s \in Sid \ exempt :
    ~Busy(s) => (entries[s] # NoEntry <=> announced[s] = "version")
=============================================================================
