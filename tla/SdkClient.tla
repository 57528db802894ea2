----------------------------- MODULE SdkClient -----------------------------
(***************************************************************************)
(* The client library: processes on one host that register agents, share a   *)
(* file of what they own, turn blank agents into members of teams and back, *)
(* and keep leased services alive by renewers; and leaders that reserve     *)
(* blank agents.  Of the registry there is what the calls need: the cards    *)
(* and the reservations, each request taking effect at once.               *)
(*                                                                         *)
(* A call is one or two requests with changes of the client's state after    *)
(* each; threads of one process, or tasks of its event loop, and processes  *)
(* interleave between them, and an answer may be lost.  The two clients     *)
(* take the same steps, except with renewers.                              *)
(***************************************************************************)
EXTENDS Naturals, FiniteSets

CONSTANTS
  Client,     \* processes that use one registry and one ownership file
  AsyncClient, \* those of them with an AsyncA2XRegistryClient
  Agent,      \* agents of teams
  Leased,     \* services of a dataset where registrations have a ttl
  Leader,
  Endpoint,
  Thread,     \* bound: the calls that can be under way at a time
  Renewer,    \* bound: of renewers ever made
  MaxCalls,   \* bound: calls, reservations and restarts
  MaxFaults   \* bound: lost answers, failed writes and ends of processes


(* The definitions whose names begin with Mutant are plausible mistakes,    *)
(* which the properties must catch.                                        *)

Service == Agent \cup Leased
Unknown == "unknown"
NoOne == "no one"

Card == [kind: {"blank", "team", "leased"}, endpoint: Endpoint \cup {Unknown}]
NoCard == [kind |-> "none", endpoint |-> Unknown]

NoRenewer == "no renewer"

ASSUME SdkClientAssumption ==
  /\ AsyncClient \subseteq Client /\ Agent \cap Leased = {}
  /\ NoOne \notin Client \cup Leader /\ NoRenewer \notin Renewer
  /\ MaxCalls \in Nat /\ MaxFaults \in Nat

NoCall == [op |-> "none", by |-> NoOne, on |-> NoOne, at |-> "none", card |-> NoCard,
           filled |-> FALSE, renewer |-> NoRenewer, old |-> NoRenewer]

VARIABLES
  card,      \* the registry's card of each service
  lock,      \* the leader for whom the registry holds it
  owned,     \* OwnershipStore._data of each process
  file,      \* its segment of the ownership file
  endpoint,  \* _blank_endpoints
  held,      \* HeartbeatRegistry._renewers
  renewer,   \* of each renewer, its process and whether its thread runs
  call,      \* what each thread is at
  promised,  \* the leaders that count on an agent
  said,      \* history: what each process was answered to have registered
  writer,    \* history: the process whose memory the file is
  moved,     \* history: endpoints changed behind a cache's back
  taken,     \* history: agents whose lock their own release took from a leader
  raced,     \* history: processes whose calls on renewers overlapped
  calls, faults

client == <<owned, file, endpoint, held, renewer>>
history == <<said, writer, moved, taken, raced>>
vars == <<card, lock, client, call, promised, history, calls, faults>>

Init ==
  /\ card = [s \in Service |-> NoCard]
  /\ lock = [s \in Agent |-> NoOne]
  /\ owned = [c \in Client |-> {}] /\ file = {}
  /\ endpoint = [c \in Client |-> [s \in Agent |-> Unknown]]
  /\ held = [c \in Client |-> [s \in Leased |-> NoRenewer]]
  /\ renewer = [r \in Renewer |-> [of |-> NoOne, runs |-> FALSE]]
  /\ call = [t \in Thread |-> NoCall]
  /\ promised = [s \in Agent |-> {}]
  /\ said = [c \in Client |-> {}]
  /\ writer = NoOne /\ moved = {} /\ taken = {} /\ raced = {}
  /\ calls = 0 /\ faults = 0

Count == calls < MaxCalls /\ calls' = calls + 1
Fault == faults < MaxFaults /\ faults' = faults + 1
At(t, ops, where) == call[t].op \in ops /\ call[t].at = where
Then(t, where) == call' = [call EXCEPT ![t].at = where]
Return(t) == call' = [call EXCEPT ![t] = NoCall]
Calling(c, ops) == \E t \in Thread : call[t].by = c /\ call[t].op \in ops

Begin(t, op, c, s, new) ==
  /\ Count /\ call[t] = NoCall
  /\ call' = [call EXCEPT ![t] = [NoCall EXCEPT !.op = op, !.by = c, !.on = s, !.card = new,
                                  !.at = IF op = "replace" /\ new.endpoint = Unknown
                                         THEN "resolve" ELSE "send"]]
  /\ UNCHANGED <<card, lock, client, promised, said, writer, moved, taken, faults>>

Overlapped(c) ==
  IF c \notin AsyncClient /\ Calling(c, {"register", "shutdown"}) THEN raced \cup {c} ELSE raced

(* register_blank_agent, and register_agent with auto_renew; the others ask  *)
(* _assert_owned first.                                                    *)
CallRegister(t, c, s, e) ==
  /\ Begin(t, "register", c, s, [kind |-> IF s \in Agent THEN "blank" ELSE "leased", endpoint |-> e])
  /\ raced' = IF s \in Leased THEN Overlapped(c) ELSE raced

CallOwned(t, op, c, s, new) ==
  /\ s \in owned[c]
  /\ Begin(t, op, c, s, new)
  /\ UNCHANGED raced

(* A request takes effect, and is answered or not.                         *)
Answered(t, where) == Then(t, where) /\ UNCHANGED faults
Unanswered(t) == Return(t) /\ Fault

(* OwnershipStore._save_to_disk: the segment becomes what this process has,  *)
(* or cannot be written.                                                   *)
MutantSegment(c, mine) == owned[c]

Segment(c, mine) == mine

Owns(c, mine) ==
  /\ owned' = [owned EXCEPT ![c] = mine]
  /\ \/ file' = Segment(c, mine) /\ writer' = c /\ UNCHANGED faults
     \/ file' = file /\ writer' = NoOne /\ Fault
---------------------------------------------------------------------------
(* The registry: a card is put whole, whoever asks. *)
Put(s, new) ==
  /\ card' = [card EXCEPT ![s] = new]
  /\ promised' = [a \in Agent |-> IF a = s /\ new.kind = "team" THEN {} ELSE promised[a]]

(* Processes whose cache of the endpoint is older than the card.           *)
Behind(c, s, e) == {<<d, s>> : d \in {x \in Client \ {c} : s \in Agent /\ endpoint[x][s] \notin {Unknown, e}}}

(* register_agent and replace_agent_card: the request, *)
Send(t) ==
  /\ At(t, {"register", "replace"}, "send")
  /\ LET s == call[t].on
         new == call[t].card
     IN  /\ Put(s, new)
         /\ \/ Answered(t, "own") /\ moved' = moved \cup Behind(call[t].by, s, new.endpoint)
            \/ Unanswered(t) /\ moved' = moved \cup Behind(NoOne, s, new.endpoint)
  /\ UNCHANGED <<lock, client, said, writer, taken, raced, calls>>

Gained(c, s) == owned[c] \cup {s}

(* the ownership,                                                          *)
Own(t) ==
  /\ At(t, {"register", "replace"}, "own")
  /\ Owns(call[t].by, Gained(call[t].by, call[t].on))
  /\ said' = [said EXCEPT ![call[t].by] = @ \cup {call[t].on}]
  /\ Then(t, IF call[t].on \in Agent THEN "cache" ELSE "hold")
  /\ UNCHANGED <<card, lock, endpoint, held, renewer, promised, moved, taken, raced, calls>>

MutantKnown(t) == IF call[t].filled THEN call[t].card.endpoint ELSE endpoint[call[t].by][call[t].on]

(* the endpoint that the card was given,                                   *)
Known(t) == call[t].card.endpoint

Cache(t) ==
  LET c == call[t].by
      s == call[t].on
  IN  /\ At(t, {"register", "replace"}, "cache")
      /\ endpoint' = [endpoint EXCEPT ![c][s] = Known(t)]
      /\ moved' = IF card[s].endpoint = call[t].card.endpoint THEN moved \ {<<c, s>>} ELSE moved \cup {<<c, s>>}
      /\ IF call[t].op = "replace" THEN Then(t, "release") ELSE Return(t)
      /\ UNCHANGED <<card, lock, owned, file, held, renewer, promised, said, writer, taken, raced,
                     calls, faults>>

(* and, after a replacement, release_my_lease, whoever holds it: unless the *)
(* service has ceased to be owned.                                         *)
Release(t) ==
  LET s == call[t].on
  IN  /\ At(t, {"replace"}, "release")
      /\ IF s \in owned[call[t].by]
         THEN /\ lock' = [lock EXCEPT ![s] = NoOne]
              /\ taken' = IF promised[s] # {} THEN taken \cup {s} ELSE taken
         ELSE UNCHANGED <<lock, taken>>
      /\ Return(t)
      /\ UNCHANGED <<card, client, promised, said, writer, moved, raced, calls, faults>>

Found(e) == e # Unknown

(* _resolve_endpoint, for a card without one: the cache, or the card.       *)
Resolve(t) ==
  LET c == call[t].by
      s == call[t].on
      e == IF endpoint[c][s] # Unknown THEN endpoint[c][s] ELSE card[s].endpoint
  IN  /\ At(t, {"replace"}, "resolve")
      /\ IF Found(e)
         THEN call' = [call EXCEPT ![t].card.endpoint = e, ![t].at = "send", ![t].filled = TRUE]
         ELSE Return(t)
      /\ UNCHANGED <<card, lock, client, promised, history, calls, faults>>

(* update_agent, of the endpoint: the cache is not asked.                   *)
Update(t) ==
  LET s == call[t].on
      e == call[t].card.endpoint
  IN  /\ At(t, {"update"}, "send") /\ card[s] # NoCard
      /\ card' = [card EXCEPT ![s].endpoint = e]
      /\ moved' = moved \cup Behind(NoOne, s, e)
      /\ Return(t)
      /\ UNCHANGED <<lock, client, promised, said, writer, taken, raced, calls, faults>>

(* deregister_agent *)
Deregister(t) ==
  /\ At(t, {"deregister"}, "send") /\ card[call[t].on] # NoCard
  /\ card' = [card EXCEPT ![call[t].on] = NoCard]
  /\ promised' = [a \in Agent |-> IF a = call[t].on THEN {} ELSE promised[a]]
  /\ Answered(t, "disown") \/ Unanswered(t)
  /\ UNCHANGED <<lock, client, history, calls>>

(* A service that is not there is not owned any more. *)
NotFound(t) ==
  /\ At(t, {"update", "deregister"}, "send") /\ card[call[t].on] = NoCard
  /\ Then(t, "disown")
  /\ UNCHANGED <<card, lock, client, promised, history, calls, faults>>

Disown(t) ==
  LET c == call[t].by
      s == call[t].on
  IN  /\ At(t, {"update", "deregister"}, "disown")
      /\ IF owned[c] = {} THEN UNCHANGED <<owned, file, writer, faults>> ELSE Owns(c, owned[c] \ {s})
      /\ said' = [said EXCEPT ![c] = @ \ {s}]
      /\ endpoint' = IF s \in Agent /\ call[t].op = "deregister"
                     THEN [endpoint EXCEPT ![c][s] = Unknown] ELSE endpoint
      /\ moved' = IF call[t].op = "deregister" THEN moved \ {<<c, s>>} ELSE moved
      /\ Return(t)
      /\ UNCHANGED <<card, lock, held, renewer, promised, taken, raced, calls>>
---------------------------------------------------------------------------
(* HeartbeatRegistry.add: the new renewer takes the place of the old, *)
Hold(t) ==
  LET c == call[t].by
      s == call[t].on
  IN  /\ At(t, {"register"}, "hold") /\ c \notin AsyncClient
      /\ \E r \in Renewer :
           /\ renewer[r].of = NoOne
           /\ renewer' = [renewer EXCEPT ![r].of = c]
           /\ held' = [held EXCEPT ![c][s] = r]
           /\ call' = [call EXCEPT ![t].renewer = r, ![t].old = held[c][s], ![t].at = "stop"]
      /\ UNCHANGED <<card, lock, owned, file, endpoint, promised, history, calls, faults>>

Stopped(r) == IF r = NoRenewer THEN renewer ELSE [renewer EXCEPT ![r].runs = FALSE]

MutantStops(t) == renewer

(* which is stopped, if its thread has been started,                       *)
Stops(t) == Stopped(call[t].old)

StopOld(t) ==
  /\ At(t, {"register"}, "stop")
  /\ renewer' = Stops(t)
  /\ Then(t, "start")
  /\ UNCHANGED <<card, lock, owned, file, endpoint, held, promised, history, calls, faults>>

(* and then the new one is started.                                        *)
Start(t) ==
  /\ At(t, {"register"}, "start")
  /\ renewer' = [renewer EXCEPT ![call[t].renewer].runs = TRUE]
  /\ Return(t)
  /\ UNCHANGED <<card, lock, owned, file, endpoint, held, promised, history, calls, faults>>

(* AsyncHeartbeatRegistry.add has no step between: the new one runs, and a   *)
(* task is to stop the old one.                                            *)
HoldAsync(t) ==
  LET c == call[t].by
      s == call[t].on
  IN  /\ At(t, {"register"}, "hold") /\ c \in AsyncClient
      /\ \E r \in Renewer :
           /\ renewer[r].of = NoOne
           /\ renewer' = [renewer EXCEPT ![r] = [of |-> c, runs |-> TRUE]]
           /\ held' = [held EXCEPT ![c][s] = r]
           /\ call' = [call EXCEPT ![t].old = held[c][s], ![t].at = "cancel"]
      /\ UNCHANGED <<card, lock, owned, file, endpoint, promised, history, calls, faults>>

CancelOld(t) ==
  /\ At(t, {"register"}, "cancel")
  /\ renewer' = Stops(t)
  /\ Return(t)
  /\ UNCHANGED <<card, lock, owned, file, endpoint, held, promised, history, calls, faults>>

(* shutdown: renewers are taken out first, then stopped.                   *)
CallShutdown(t, c, s) ==
  /\ s \in owned[c] \cap Leased
  /\ Begin(t, "shutdown", c, s, NoCard)
  /\ raced' = Overlapped(c)

TakeOut(t) ==
  LET c == call[t].by
      s == call[t].on
  IN  /\ At(t, {"shutdown"}, "send")
      /\ held' = [held EXCEPT ![c][s] = NoRenewer]
      /\ call' = [call EXCEPT ![t].old = held[c][s], ![t].at = "stop"]
      /\ UNCHANGED <<card, lock, owned, file, endpoint, renewer, promised, history, calls, faults>>

StopTaken(t) ==
  /\ At(t, {"shutdown"}, "stop")
  /\ renewer' = Stopped(call[t].old)
  /\ Return(t)
  /\ UNCHANGED <<card, lock, owned, file, endpoint, held, promised, history, calls, faults>>

(* A leased service whose heartbeats do not come, or come too late, is      *)
(* removed by the registry.                                                *)
Lapse(s) ==
  /\ card[s] # NoCard /\ card' = [card EXCEPT ![s] = NoCard]
  /\ Count
  /\ UNCHANGED <<lock, client, call, promised, history, faults>>
---------------------------------------------------------------------------
(* reserve_blank_agents: the registry gives a blank agent that is not locked. *)
MutantFree(s) == TRUE

Free(s) == lock[s] = NoOne

Reservable(s) == card[s].kind = "blank" /\ Free(s)

Reserve(l, s) ==
  /\ Count /\ Reservable(s)
  /\ lock' = [lock EXCEPT ![s] = l]
  /\ promised' = [promised EXCEPT ![s] = @ \cup {l}]
  /\ UNCHANGED <<card, client, call, history, faults>>

(* The end of a reservation: released by its leader, or run out; not of one *)
(* that another leader has meanwhile.                                      *)
EndReservation(l, s) ==
  /\ l \in promised[s]
  /\ lock' = IF lock[s] = l THEN [lock EXCEPT ![s] = NoOne] ELSE lock
  /\ promised' = [promised EXCEPT ![s] = @ \ {l}]
  /\ taken' = IF promised'[s] = {} THEN taken \ {s} ELSE taken
  /\ UNCHANGED <<card, client, call, said, writer, moved, raced, calls, faults>>

(* A process ends and another takes its place: what it knows is the file.   *)
Restart(c) ==
  /\ Count /\ Fault
  /\ owned' = [owned EXCEPT ![c] = file]
  /\ said' = [said EXCEPT ![c] = IF writer = c THEN @ ELSE file]
  /\ endpoint' = [endpoint EXCEPT ![c] = [s \in Agent |-> Unknown]]
  /\ held' = [held EXCEPT ![c] = [s \in Leased |-> NoRenewer]]
  /\ renewer' = [r \in Renewer |-> IF renewer[r].of = c THEN [renewer[r] EXCEPT !.runs = FALSE]
                                   ELSE renewer[r]]
  /\ call' = [t \in Thread |-> IF call[t].by = c THEN NoCall ELSE call[t]]
  /\ moved' = {m \in moved : m[1] # c}
  /\ raced' = raced \ {c}
  /\ UNCHANGED <<card, lock, file, writer, promised, taken>>

CallStep(t) ==
  \/ Send(t) \/ Own(t) \/ Cache(t) \/ Release(t) \/ Resolve(t)
  \/ Update(t) \/ Deregister(t) \/ NotFound(t) \/ Disown(t)
  \/ Hold(t) \/ StopOld(t) \/ Start(t) \/ HoldAsync(t) \/ CancelOld(t) \/ TakeOut(t) \/ StopTaken(t)

Next ==
  \/ \E t \in Thread, c \in Client :
       \/ \E s \in Service, e \in Endpoint : CallRegister(t, c, s, e)
       \/ \E s \in Agent, kind \in {"blank", "team"}, e \in Endpoint \cup {Unknown} :
            CallOwned(t, "replace", c, s, [kind |-> kind, endpoint |-> e])
       \/ \E s \in Agent, e \in Endpoint :
            CallOwned(t, "update", c, s, [kind |-> "team", endpoint |-> e])
       \/ \E s \in Service : CallOwned(t, "deregister", c, s, NoCard)
       \/ \E s \in Leased : CallShutdown(t, c, s)
  \/ \E t \in Thread : CallStep(t)
  \/ \E l \in Leader, s \in Agent : Reserve(l, s) \/ EndReservation(l, s)
  \/ \E s \in Leased : Lapse(s)
  \/ \E c \in Client : Restart(c)

Spec == Init /\ [][Next]_vars
---------------------------------------------------------------------------
(* Every variable has its type. *)
TypeOK ==
  /\ card \in [Service -> Card \cup {NoCard}]
  /\ lock \in [Agent -> Leader \cup {NoOne}] /\ promised \in [Agent -> SUBSET Leader]
  /\ {owned, said} \subseteq [Client -> SUBSET Service] /\ file \subseteq Service
  /\ endpoint \in [Client -> [Agent -> Endpoint \cup {Unknown}]]
  /\ held \in [Client -> [Leased -> Renewer \cup {NoRenewer}]]
  /\ renewer \in [Renewer -> [of: Client \cup {NoOne}, runs: BOOLEAN]]
  /\ \A t \in Thread : /\ call[t].by \in Client \cup {NoOne}
                       /\ call[t].on \in Service \cup {NoOne}
                       /\ (call[t].at = "none") <=> (call[t].op = "none")
                       /\ call[t].filled => call[t].card.endpoint \in Endpoint
  /\ calls \in 0..MaxCalls /\ faults \in 0..MaxFaults

(* What a process was told it had registered, it may still change after it   *)
(* was ended and started again, with nothing but the file to remember: as    *)
(* long as no other process, and no failed write, came between             *)
(* (OwnershipStore, add and _save_to_disk).                                *)
OwnershipSurvives == \A c \in Client : said[c] \subseteq owned[c]

(* Two leaders never count on one agent, unless the agent's own               *)
(* release_my_lease, which frees whatever lock it meets, came between        *)
(* (reserve_blank_agents; Reservation.__exit__).                           *)
NoSharedAgent == \A s \in Agent \ taken : \A l, m \in promised[s] : l = m

(* A card completed from the cache of endpoints gets the endpoint that the   *)
(* service has, unless a process's own update_agent, a lost answer or        *)
(* another process changed it (replace_agent_card: "the original card's     *)
(* endpoint is preserved unless explicitly overridden").                   *)
EndpointStands ==
  \A c \in Client, s \in Agent :
    (endpoint[c][s] # Unknown /\ card[s] # NoCard /\ <<c, s>> \notin moved /\ ~Calling(c, {"register", "replace"}))
      => endpoint[c][s] = card[s].endpoint

(* No thread renews the lease of a service forever without close or shutdown *)
(* being able to stop it: outside a call that is about to stop it, every     *)
(* thread that runs is one HeartbeatRegistry has; unless such calls of       *)
(* threads overlapped, where add starts a renewer that remove has already    *)
(* stopped.                                                                *)
NoOrphanRenewer ==
  \A r \in Renewer :
    LET c == renewer[r].of
    IN  (renewer[r].runs /\ c \notin raced)
          => \/ \E s \in Leased : held[c][s] = r
             \/ \E t \in Thread : call[t].by = c /\ call[t].old = r
=============================================================================
