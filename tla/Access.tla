------------------------------- MODULE Access -------------------------------
(***************************************************************************)
(* Requests about one dataset: the dependencies of a route, on the event    *)
(* loop, decide by the dataset's flag and the caller's key whether the      *)
(* operation is begun on the pool.  Meanwhile keys are issued and revoked,  *)
(* the flag changes, the dataset comes and goes, the registry restarts.     *)
(***************************************************************************)
EXTENDS AuthStore, Datasets

CONSTANT MaxOps   \* bound: requests, changes of the store and restarts

ASSUME AccessAssumption == MaxOps \in Nat /\ "auth" \in Setting

Anonymous == 0    \* for a key, and for a principal
Request == [kind: Kind, setting: Setting \cup {"none"}, value: Value, key: KeyId \cup {Anonymous},
            due: BOOLEAN]
NoRequest == [kind |-> "none", setting |-> "none", value |-> Default, key |-> Anonymous, due |-> FALSE]

VARIABLES
  request,   \* what waits on the event loop for the flag to be read
  caller,    \* of each worker, as whom its operation was admitted
  due,       \* history: workers whose caller had to have a key
  ops

vars == <<auth, dataset, request, caller, due, ops>>

Init ==
  /\ AuthInit /\ DatasetInit
  /\ request = NoRequest
  /\ caller = [w \in Pool |-> Anonymous]
  /\ due = {}
  /\ ops = 0

Count == ops < MaxOps /\ ops' = ops + 1

(* What may be asked; the dataset is created without a name to look up.     *)
Asked == {[kind |-> "register", setting |-> "register", value |-> Default],
          [kind |-> "delete", setting |-> "none", value |-> Default],
          [kind |-> "read", setting |-> "register", value |-> Default]}
         \cup {[kind |-> "set", setting |-> s, value |-> v] : s \in Setting \ {"auth"}, v \in Value}

(* The flag is known to be up, and nothing is about to change it. *)
FlagIsUp ==
  /\ said["auth"] = Special /\ "auth" \notin clash
  /\ ~Working({"set", "create", "delete"})

Arrive(q, k) ==
  /\ Count /\ request = NoRequest
  /\ k # Anonymous => k \in told.issued
  /\ Begin(Loop, "read", "auth", Default)
  /\ request' = [kind |-> q.kind, setting |-> q.setting, value |-> q.value, key |-> k, due |-> FlagIsUp]
  /\ UNCHANGED <<auth, caller, due>>

IsAdmin(k) == Accepts(k) /\ principals[keys[k].of].role = "admin"

(* The namespaces of the caller; not asked of an admin. *)
InScope(k) == Accepts(k) /\ principals[keys[k].of].scoped

(* authorize and require_admin_or_anon: if the flag is down or there is no   *)
(* store, everyone may; else the key decides.                              *)
Open == ~loaded \/ job[Loop].value = Default

May(kind, k) == IsAdmin(k) \/ (InScope(k) /\ kind \in {"register", "read"})

Admit(w) ==
  LET k == request.key
  IN  /\ request # NoRequest /\ request.kind # "read" /\ At(Loop, {"read"}, "got")
      /\ Open \/ May(request.kind, k)
      /\ ~Busy(w)
      /\ LET j == [kind |-> request.kind, at |-> "start", setting |-> request.setting,
                   value |-> request.value]
         IN  /\ job' = [job EXCEPT ![Loop] = NoJob, ![w] = j]
             /\ clash' = clash \cup UNION {Unsure(j, job[i]) : i \in Thread \ {Loop}}
      /\ caller' = [caller EXCEPT ![w] = IF Open THEN Anonymous ELSE keys[k].of]
      /\ due' = IF request.due /\ loaded /\ "auth" \notin clash THEN due \cup {w} ELSE due \ {w}
      /\ request' = NoRequest
      /\ UNCHANGED <<auth, dir, store, vector, setfile, cache, entries, saved, said, ops>>

(* A setting is read by the event loop itself. *)
AdmitRead ==
  /\ request.kind = "read" /\ At(Loop, {"read"}, "got")
  /\ Open \/ May("read", request.key)
  /\ job' = [job EXCEPT ![Loop] = [kind |-> "read", at |-> "start",
                                   setting |-> request.setting, value |-> Default]]
  /\ request' = NoRequest
  /\ UNCHANGED <<auth, dir, store, vector, setfile, cache, entries, saved, said, clash,
                 caller, due, ops>>

Refuse ==
  /\ request # NoRequest /\ At(Loop, {"read"}, "got")
  /\ ~Open /\ ~May(request.kind, request.key)
  /\ Done(Loop) /\ request' = NoRequest
  /\ UNCHANGED <<auth, dir, store, vector, setfile, cache, entries, saved, said, clash,
                 caller, due, ops>>

(* set_auth_config asks for an admin whatever the flag says; create_dataset *)
(* does if the flag is wanted.                                             *)
MayStrictly(k) == loaded /\ k \in told.issued /\ IsAdmin(k)

AdmitStrict(w, kind, v, k) ==
  /\ Count
  /\ (kind = "create" /\ v = Default) \/ MayStrictly(k)
  /\ Begin(w, kind, "auth", v)
  /\ caller' = [caller EXCEPT ![w] = IF k = Anonymous THEN Anonymous ELSE keys[k].of]
  /\ due' = due \ {w}
  /\ UNCHANGED <<auth, request>>

(* Principals and keys, which an admin manages, and the command line. *)
Manage ==
  /\ Count
  /\ \/ AuthRequest /\ \E k \in told.issued : IsAdmin(k)
     \/ AuthCommand
  /\ UNCHANGED <<dataset, request, caller, due>>

Restart ==
  /\ Count
  /\ Load /\ DatasetRestart
  /\ request' = NoRequest
  /\ caller' = [w \in Pool |-> Anonymous]
  /\ due' = {}

Step(t) ==
  /\ ~(t = Loop /\ request # NoRequest /\ job[t].at = "got")
  /\ DatasetStep(t) \/ (t = Loop /\ Answer(t))
  /\ UNCHANGED <<auth, request, caller, due, ops>>

Next ==
  \/ \E q \in Asked, k \in KeyId \cup {Anonymous} : Arrive(q, k)
  \/ \E w \in Pool :
       \/ Admit(w)
       \/ \E kind \in {"set", "create"}, v \in Value, k \in KeyId \cup {Anonymous} :
            AdmitStrict(w, kind, v, k)
  \/ AdmitRead \/ Refuse
  \/ Manage
  \/ \E t \in Thread : Step(t)
  \/ Restart

Spec == Init /\ [][Next]_vars
---------------------------------------------------------------------------
(* Every variable has its type. *)
TypeOK ==
  /\ AuthTypeOK /\ DatasetTypeOK
  /\ request \in Request \cup {NoRequest}
  /\ caller \in [Pool -> PrincipalId \cup {Anonymous}]
  /\ due \subseteq Pool
  /\ ops \in 0 .. MaxOps

(* Once the flag of a dataset has been answered to be up, nothing is done to *)
(* the dataset on behalf of a caller without a key; unless operations on    *)
(* the flag or the dataset overlapped.                                     *)
NobodySlipsIn ==
  \A w \in due : Busy(w) => caller[w] # Anonymous
=============================================================================
