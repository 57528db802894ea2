--------------------------- MODULE SdkClientProofs ---------------------------
(***************************************************************************)
(* What the client library promises of ownership and of reservations, for  *)
(* any number of processes, threads, services and leaders.                 *)
(***************************************************************************)
EXTENDS SdkClient, TLAPS

(* Agents, their locks and the leaders that count on them: an agent that   *)
(* is promised is promised to the one leader the registry holds it for,    *)
(* unless its own release took the lock away.                              *)
LockInv ==
  /\ lock \in [Agent -> Leader \cup {NoOne}]
  /\ promised \in [Agent -> SUBSET Leader]
  /\ \A s \in Agent \ taken : promised[s] \subseteq {lock[s]}

LEMMA PutKeeps ==
  ASSUME LockInv, NEW s, NEW new, Put(s, new), UNCHANGED <<lock, taken>>
  PROVE  LockInv'
BY DEF LockInv, Put

LEMMA ReleaseKeeps ==
  ASSUME LockInv, NEW t \in Thread, Release(t)
  PROVE  LockInv'
<1>. DEFINE s == call[t].on
<1>1. CASE s \in owned[call[t].by]
  <2>1. /\ lock' = [lock EXCEPT ![s] = NoOne]
        /\ taken' = IF promised[s] # {} THEN taken \cup {s} ELSE taken
        /\ promised' = promised
    BY <1>1 DEF Release
  <2>. QED BY <2>1 DEF LockInv
<1>2. CASE s \notin owned[call[t].by]
  BY <1>2 DEF Release, LockInv
<1>. QED BY <1>1, <1>2

LEMMA ReserveKeeps ==
  ASSUME LockInv, NEW l \in Leader, NEW s \in Agent, Reserve(l, s)
  PROVE  LockInv'
<1>1. /\ lock[s] = NoOne
      /\ lock' = [lock EXCEPT ![s] = l]
      /\ promised' = [promised EXCEPT ![s] = promised[s] \cup {l}]
      /\ taken' = taken
  BY DEF Reserve, Reservable, Free, history
<1>2. s \notin taken => promised[s] = {}
  BY <1>1, SdkClientAssumption DEF LockInv
<1>. QED BY <1>1, <1>2 DEF LockInv

LEMMA EndReservationKeeps ==
  ASSUME LockInv, NEW l \in Leader, NEW s \in Agent, EndReservation(l, s)
  PROVE  LockInv'
<1>1. /\ l \in promised[s]
      /\ lock' = IF lock[s] = l THEN [lock EXCEPT ![s] = NoOne] ELSE lock
      /\ promised' = [promised EXCEPT ![s] = promised[s] \ {l}]
      /\ taken' = IF promised'[s] = {} THEN taken \ {s} ELSE taken
  BY DEF EndReservation
<1>2. lock' \in [Agent -> Leader \cup {NoOne}] /\ promised' \in [Agent -> SUBSET Leader]
  BY <1>1 DEF LockInv
<1>3. ASSUME NEW a \in Agent \ taken' PROVE promised'[a] \subseteq {lock'[a]}
  <2>1. CASE a = s /\ s \notin taken
    BY <1>1, <2>1 DEF LockInv
  <2>2. CASE a = s /\ s \in taken
    BY <1>1, <1>3, <2>2
  <2>3. CASE a # s
    BY <1>1, <1>3, <2>3 DEF LockInv
  <2>. QED BY <2>1, <2>2, <2>3
<1>. QED BY <1>2, <1>3 DEF LockInv

(* What begins a call, and what only the registry or a process does.       *)
Calls ==
  \E t \in Thread, c \in Client, s \in Service : \E op, new : Begin(t, op, c, s, new)

Reservations == \E l \in Leader, s \in Agent : Reserve(l, s) \/ EndReservation(l, s)

LEMMA NextActs ==
  Next => \/ Calls
          \/ \E t \in Thread : CallStep(t)
          \/ Reservations
          \/ \E s \in Leased : Lapse(s)
          \/ \E c \in Client : Restart(c)
<1>1. ASSUME NEW t \in Thread, NEW c \in Client, NEW s \in Service, NEW e, CallRegister(t, c, s, e)
      PROVE  Calls
  BY <1>1 DEF Calls, CallRegister
<1>2. ASSUME NEW t \in Thread, NEW c \in Client, NEW s \in Service, NEW op, NEW new,
             CallOwned(t, op, c, s, new)
      PROVE  Calls
  BY <1>2 DEF Calls, CallOwned
<1>3. ASSUME NEW t \in Thread, NEW c \in Client, NEW s \in Service, CallShutdown(t, c, s)
      PROVE  Calls
  BY <1>3 DEF Calls, CallShutdown
<1>4. Agent \subseteq Service /\ Leased \subseteq Service
  BY DEF Service
<1>. QED BY <1>1, <1>2, <1>3, <1>4 DEF Next, Reservations

LEMMA CallsFacts ==
  ASSUME Calls
  PROVE  UNCHANGED <<card, lock, client, promised, said, writer, moved, taken, faults>>
BY DEF Calls, Begin

(* The other steps of a call leave the reservations alone, or put a card.  *)
LEMMA CallKeeps ==
  ASSUME LockInv, NEW t \in Thread, CallStep(t)
  PROVE  LockInv'
<1>1. CASE Send(t)
  <2>1. UNCHANGED <<lock, taken>> /\ Put(call[t].on, call[t].card)
    BY <1>1 DEF Send
  <2>. QED BY <2>1, PutKeeps
<1>2. CASE Deregister(t)
  <2>1. /\ promised' = [a \in Agent |-> IF a = call[t].on THEN {} ELSE promised[a]]
        /\ UNCHANGED <<lock, taken>>
    BY <1>2 DEF Deregister, history
  <2>. QED BY <2>1 DEF LockInv
<1>3. CASE Release(t)
  BY <1>3, ReleaseKeeps
<1>4. CASE UNCHANGED <<lock, promised, taken>>
  BY <1>4 DEF LockInv
<1>5. Own(t) \/ Cache(t) \/ Disown(t) => UNCHANGED <<lock, promised, taken>>
  BY DEF Own, Cache, Disown
<1>6. Resolve(t) \/ Update(t) \/ NotFound(t) => UNCHANGED <<lock, promised, taken>>
  BY DEF Resolve, Update, NotFound, history
<1>7. Hold(t) \/ StopOld(t) \/ Start(t) => UNCHANGED <<lock, promised, taken>>
  BY DEF Hold, StopOld, Start, history
<1>8. HoldAsync(t) => UNCHANGED <<lock, promised, taken>>
  BY DEF HoldAsync, history
<1>9. CancelOld(t) \/ TakeOut(t) \/ StopTaken(t) => UNCHANGED <<lock, promised, taken>>
  BY DEF CancelOld, TakeOut, StopTaken, history
<1>. QED BY <1>1, <1>2, <1>3, <1>4, <1>5, <1>6, <1>7, <1>8, <1>9 DEF CallStep

LEMMA NextLock == LockInv /\ [Next]_vars => LockInv'
<1>. SUFFICES ASSUME LockInv, [Next]_vars PROVE LockInv'
  OBVIOUS
<1>1. CASE \E t \in Thread : CallStep(t)
  BY <1>1, CallKeeps
<1>2. CASE Reservations
  BY <1>2, ReserveKeeps, EndReservationKeeps DEF Reservations
<1>3. CASE UNCHANGED <<lock, promised, taken>>
  BY <1>3 DEF LockInv
<1>4. Calls => UNCHANGED <<lock, promised, taken>>
  BY CallsFacts
<1>5. (\E s \in Leased : Lapse(s)) => UNCHANGED <<lock, promised, taken>>
  BY DEF Lapse, history
<1>6. (\E c \in Client : Restart(c)) => UNCHANGED <<lock, promised, taken>>
  BY DEF Restart
<1>7. UNCHANGED vars => UNCHANGED <<lock, promised, taken>>
  BY DEF vars, history
<1>. QED BY <1>1, <1>2, <1>3, <1>4, <1>5, <1>6, <1>7, NextActs

(* Two leaders never count on one agent, unless the agent's own release    *)
(* came between (reserve_blank_agents, replace_agent_card).                *)
THEOREM SpecNoSharedAgent == Spec => []NoSharedAgent
<1>1. Init => LockInv
  BY DEF Init, LockInv
<1>2. LockInv => NoSharedAgent
  BY DEF LockInv, NoSharedAgent
<1>. QED BY <1>1, <1>2, NextLock, PTL DEF Spec

-----------------------------------------------------------------------------
(* The calls: what a record of one is, and what Then and Return make of it. *)
IsCall(k) ==
  k = [op |-> k.op, by |-> k.by, on |-> k.on, at |-> k.at, card |-> k.card,
       filled |-> k.filled, renewer |-> k.renewer, old |-> k.old]

CallsTyped == call = [t \in Thread |-> call[t]] /\ \A t \in Thread : IsCall(call[t])

LEMMA ThenFacts ==
  ASSUME CallsTyped, NEW t \in Thread, NEW where, Then(t, where)
  PROVE  /\ CallsTyped'
         /\ \A u \in Thread : u # t => call'[u] = call[u]
         /\ call'[t].op = call[t].op /\ call'[t].by = call[t].by /\ call'[t].on = call[t].on
         /\ call'[t].at = where /\ call'[t].card = call[t].card
         /\ call'[t].renewer = call[t].renewer /\ call'[t].old = call[t].old
<1>. DEFINE new == [call[t] EXCEPT !.at = where]
<1>1. call' = [call EXCEPT ![t] = new]
  BY DEF Then, CallsTyped
<1>2. IsCall(call[t])
  BY DEF CallsTyped
<1>3. /\ new.op = call[t].op /\ new.by = call[t].by /\ new.on = call[t].on
      /\ new.at = where /\ new.card = call[t].card /\ new.filled = call[t].filled
      /\ new.renewer = call[t].renewer /\ new.old = call[t].old
  BY <1>2 DEF IsCall
<1>4. IsCall(new)
  BY <1>2 DEF IsCall
<1>. HIDE DEF new
<1>. QED BY <1>1, <1>3, <1>4 DEF CallsTyped

LEMMA ExceptFacts ==
  ASSUME NEW k, IsCall(k), NEW x
  PROVE  /\ IsCall([k EXCEPT !.at = x]) /\ IsCall([k EXCEPT !.renewer = x])
         /\ IsCall([k EXCEPT !.old = x]) /\ IsCall([k EXCEPT !.filled = x])
         /\ IsCall([k EXCEPT !.card.endpoint = x])
<1>1. IsCall([k EXCEPT !.at = x])
  BY DEF IsCall
<1>2. IsCall([k EXCEPT !.renewer = x])
  BY DEF IsCall
<1>3. IsCall([k EXCEPT !.old = x])
  BY DEF IsCall
<1>4. IsCall([k EXCEPT !.filled = x])
  BY DEF IsCall
<1>5. IsCall([k EXCEPT !.card.endpoint = x])
  BY DEF IsCall
<1>. QED BY <1>1, <1>2, <1>3, <1>4, <1>5

LEMMA ReturnFacts ==
  ASSUME CallsTyped, NEW t \in Thread, Return(t)
  PROVE  /\ CallsTyped'
         /\ \A u \in Thread : u # t => call'[u] = call[u]
         /\ call'[t] = NoCall
<1>1. IsCall(NoCall)
  BY DEF IsCall, NoCall
<1>. QED BY <1>1 DEF Return, CallsTyped

LEMMA ResolveFacts ==
  ASSUME CallsTyped, NEW t \in Thread, Resolve(t)
  PROVE  /\ CallsTyped'
         /\ \A u \in Thread : u # t => call'[u] = call[u]
         /\ \/ call'[t] = NoCall
            \/ /\ call'[t].op = call[t].op /\ call'[t].by = call[t].by /\ call'[t].on = call[t].on
               /\ call'[t].at = "send"
               /\ call'[t].renewer = call[t].renewer /\ call'[t].old = call[t].old
<1>1. CASE Return(t)
  BY <1>1, ReturnFacts
<1>2. CASE ~Return(t)
  <2>1. PICK e : call' = [call EXCEPT ![t].card.endpoint = e, ![t].at = "send", ![t].filled = TRUE]
    BY <1>2 DEF Resolve
  <2>. DEFINE new == [call[t] EXCEPT !.card.endpoint = e, !.at = "send", !.filled = TRUE]
  <2>2. IsCall(call[t])
    BY DEF CallsTyped
  <2>3. /\ new.op = call[t].op /\ new.by = call[t].by /\ new.on = call[t].on
        /\ new.at = "send" /\ new.renewer = call[t].renewer /\ new.old = call[t].old
    BY <2>2 DEF IsCall
  <2>4. IsCall(new)
    <3>1. IsCall([call[t] EXCEPT !.card.endpoint = e])
      BY <2>2, ExceptFacts
    <3>2. IsCall([call[t] EXCEPT !.card.endpoint = e, !.at = "send"])
      BY <3>1, ExceptFacts
    <3>. QED BY <3>2, ExceptFacts
  <2>5. call' = [call EXCEPT ![t] = new]
    BY <2>1, <2>2 DEF CallsTyped, IsCall
  <2>. HIDE DEF new
  <2>. QED BY <2>3, <2>4, <2>5 DEF CallsTyped
<1>. QED BY <1>1, <1>2

(* What a call that takes or stops renewers notes of them. *)
Notes(t, r, d, where) ==
  \/ call' = [call EXCEPT ![t].renewer = r, ![t].old = d, ![t].at = where]
  \/ r = call[t].renewer /\ call' = [call EXCEPT ![t].old = d, ![t].at = where]

LEMMA HolderFacts ==
  ASSUME CallsTyped, NEW t \in Thread, NEW r, NEW d, NEW where, Notes(t, r, d, where)
  PROVE  /\ CallsTyped'
         /\ \A u \in Thread : u # t => call'[u] = call[u]
         /\ call'[t].op = call[t].op /\ call'[t].by = call[t].by /\ call'[t].on = call[t].on
         /\ call'[t].at = where /\ call'[t].card = call[t].card
         /\ call'[t].renewer = r /\ call'[t].old = d
<1>. DEFINE new == [call[t] EXCEPT !.renewer = r, !.old = d, !.at = where]
<1>1. IsCall(call[t])
  BY DEF CallsTyped
<1>2. /\ new.op = call[t].op /\ new.by = call[t].by /\ new.on = call[t].on
      /\ new.at = where /\ new.card = call[t].card /\ new.renewer = r /\ new.old = d
  BY <1>1 DEF IsCall
<1>3. IsCall(new)
  <2>1. IsCall([call[t] EXCEPT !.renewer = r])
    BY <1>1, ExceptFacts
  <2>2. IsCall([call[t] EXCEPT !.renewer = r, !.old = d])
    BY <2>1, ExceptFacts
  <2>. QED BY <2>2, ExceptFacts
<1>4. call' = [call EXCEPT ![t] = new]
  <2>1. CASE call' = [call EXCEPT ![t].renewer = r, ![t].old = d, ![t].at = where]
    BY <1>1, <2>1 DEF CallsTyped, IsCall
  <2>2. CASE r = call[t].renewer /\ call' = [call EXCEPT ![t].old = d, ![t].at = where]
    BY <1>1, <2>2 DEF CallsTyped, IsCall
  <2>. QED BY <2>1, <2>2 DEF Notes
<1>. HIDE DEF new
<1>. QED BY <1>2, <1>3, <1>4 DEF CallsTyped

LEMMA BeginFacts ==
  ASSUME CallsTyped, NEW t \in Thread, NEW op, NEW c, NEW s, NEW new, Begin(t, op, c, s, new)
  PROVE  /\ CallsTyped'
         /\ \A u \in Thread : u # t => call'[u] = call[u]
         /\ call[t] = NoCall
         /\ call'[t].op = op /\ call'[t].by = c /\ call'[t].on = s
         /\ call'[t].at \in {"resolve", "send"} /\ call'[t].card = new
         /\ call'[t].renewer = NoRenewer /\ call'[t].old = NoRenewer
<1>. DEFINE at == IF op = "replace" /\ new.endpoint = Unknown THEN "resolve" ELSE "send"
<1>1. PICK k : /\ k = [NoCall EXCEPT !.op = op, !.by = c, !.on = s, !.card = new, !.at = at]
               /\ call' = [call EXCEPT ![t] = k]
  BY DEF Begin
<1>2. at \in {"resolve", "send"}
  OBVIOUS
<1>. HIDE DEF at
<1>3. k = [op |-> op, by |-> c, on |-> s, at |-> at, card |-> new,
           filled |-> FALSE, renewer |-> NoRenewer, old |-> NoRenewer]
  BY <1>1 DEF NoCall
<1>4. IsCall(k) /\ k.op = op /\ k.by = c /\ k.on = s /\ k.at = at /\ k.card = new
      /\ k.renewer = NoRenewer /\ k.old = NoRenewer
  BY <1>3 DEF IsCall
<1>5. call[t] = NoCall
  BY DEF Begin
<1>6. call' = [call EXCEPT ![t] = k]
  BY <1>1
<1>. QED BY <1>2, <1>4, <1>5, <1>6 DEF CallsTyped

-----------------------------------------------------------------------------
(* Renewers.                                                               *)

Stage == {"stop", "start", "cancel"}   \* where a call has an older renewer to stop

WellMade(k) ==
  /\ k.op # "none" => k.by \in Client /\ k.on \in Service
  /\ k.at \in Stage \cup {"hold"} => k.op # "none" /\ k.on \in Leased
  /\ k.op = "shutdown" => k.on \in Leased
  /\ k.op = "register" /\ k.at \in {"stop", "start"} => k.by \notin AsyncClient /\ k.renewer \in Renewer
  /\ k.at \notin Stage => k.renewer = NoRenewer /\ k.old = NoRenewer
  /\ {k.renewer, k.old} \subseteq Renewer \cup {NoRenewer}

(* A renewer belongs to one process, in its registry and in its calls. *)
Belongs ==
  /\ renewer \in [Renewer -> [of: Client \cup {NoOne}, runs: BOOLEAN]]
  /\ held \in [Client -> [Leased -> Renewer \cup {NoRenewer}]]
  /\ \A r \in Renewer : renewer[r].runs => renewer[r].of \in Client
  /\ \A c \in Client, s \in Leased : held[c][s] # NoRenewer => renewer[held[c][s]].of = c
  /\ \A t \in Thread : /\ call[t].renewer # NoRenewer => renewer[call[t].renewer].of = call[t].by
                       /\ call[t].old # NoRenewer => renewer[call[t].old].of = call[t].by

(* The calls of a process that change its renewers. *)
Holding(k, c) ==
  k.by = c /\ (k.op = "shutdown" \/ (k.op = "register" /\ k.on \in Leased))

OneAtATime ==
  \A c \in Client \ (raced \cup AsyncClient), t, u \in Thread :
    Holding(call[t], c) /\ Holding(call[u], c) => t = u

(* A call that is about to start a renewer has it registered, and has      *)
(* stopped the older one.                                                  *)
Prepared ==
  \A t \in Thread :
    LET k == call[t]
    IN  k.op = "register" /\ k.by \notin raced =>
          /\ k.at \in {"stop", "start"} => held[k.by][k.on] = k.renewer
          /\ k.at = "start" /\ k.old # NoRenewer => ~renewer[k.old].runs

RenewerInv ==
  /\ CallsTyped
  /\ \A t \in Thread : WellMade(call[t])
  /\ Belongs /\ OneAtATime /\ Prepared
  /\ NoOrphanRenewer

LEMMA NoCallFacts ==
  /\ NoCall.op = "none" /\ NoCall.by = NoOne /\ NoCall.at = "none"
  /\ NoCall.renewer = NoRenewer /\ NoCall.old = NoRenewer
  /\ WellMade(NoCall)
  /\ \A c \in Client : ~Holding(NoCall, c)
<1>1. /\ NoCall.op = "none" /\ NoCall.by = NoOne /\ NoCall.at = "none"
      /\ NoCall.renewer = NoRenewer /\ NoCall.old = NoRenewer
  BY DEF NoCall
<1>. QED BY <1>1 DEF WellMade, Holding, Stage

(* A step of a call that has nothing to do with renewers. *)
LEMMA PlainKeeps ==
  ASSUME RenewerInv, NEW t \in Thread,
         UNCHANGED <<held, renewer, raced>>, CallsTyped',
         \A u \in Thread : u # t => call'[u] = call[u],
         call[t].at \notin Stage,
         \/ call'[t] = NoCall
         \/ /\ call'[t].op = call[t].op /\ call'[t].by = call[t].by /\ call'[t].on = call[t].on
            /\ call'[t].renewer = call[t].renewer /\ call'[t].old = call[t].old
            /\ call'[t].at \notin Stage
            /\ call'[t].at = "hold" => call[t].op # "none" /\ call[t].on \in Leased
  PROVE  RenewerInv'
<1>1. WellMade(call[t]) /\ call[t].renewer = NoRenewer /\ call[t].old = NoRenewer
  BY DEF RenewerInv, WellMade
<1>2. WellMade(call'[t]) /\ call'[t].renewer = NoRenewer /\ call'[t].old = NoRenewer
      /\ call'[t].at \notin Stage
  BY <1>1, NoCallFacts DEF WellMade, Stage
<1>3. \A u \in Thread : WellMade(call'[u])
  BY <1>2 DEF RenewerInv
<1>4. \A c \in Client : Holding(call'[t], c) => Holding(call[t], c)
  BY NoCallFacts DEF Holding
<1>5. Belongs'
  BY <1>2 DEF RenewerInv, Belongs
<1>6. OneAtATime'
  BY <1>4 DEF RenewerInv, OneAtATime
<1>7. Prepared'
  BY <1>2 DEF RenewerInv, Prepared, Stage
<1>8. NoOrphanRenewer'
  <2>. SUFFICES ASSUME NEW r \in Renewer, renewer[r].runs, renewer[r].of \notin raced
                PROVE  \/ \E s \in Leased : held[renewer[r].of][s] = r
                       \/ \E u \in Thread : call'[u].by = renewer[r].of /\ call'[u].old = r
    BY DEF NoOrphanRenewer
  <2>1. \/ \E s \in Leased : held[renewer[r].of][s] = r
        \/ \E u \in Thread : call[u].by = renewer[r].of /\ call[u].old = r
    BY DEF RenewerInv, NoOrphanRenewer
  <2>2. r # NoRenewer
    BY SdkClientAssumption
  <2>. QED BY <1>1, <2>1, <2>2
<1>. QED BY <1>3, <1>5, <1>6, <1>7, <1>8 DEF RenewerInv

(* The beginning of a call: raced takes in a process whose calls overlap.   *)
LEMMA BeginKeeps ==
  ASSUME RenewerInv, NEW t \in Thread, NEW op, NEW c \in Client, NEW s \in Service, NEW new,
         Begin(t, op, c, s, new), raced \subseteq raced',
         op # "none", op = "shutdown" => s \in Leased,
         op = "shutdown" \/ (op = "register" /\ s \in Leased) => raced' = Overlapped(c)
  PROVE  RenewerInv'
<1>1. /\ CallsTyped'
      /\ \A u \in Thread : u # t => call'[u] = call[u]
      /\ call[t] = NoCall
      /\ call'[t].op = op /\ call'[t].by = c /\ call'[t].on = s
      /\ call'[t].at \in {"resolve", "send"}
      /\ call'[t].renewer = NoRenewer /\ call'[t].old = NoRenewer
  BY BeginFacts DEF RenewerInv
<1>2. held' = held /\ renewer' = renewer
  BY DEF Begin, client
<1>3. \A u \in Thread : WellMade(call'[u])
  BY <1>1 DEF RenewerInv, WellMade, Stage
<1>4. Belongs'
  BY <1>1, <1>2 DEF RenewerInv, Belongs
<1>5. OneAtATime'
  <2>. SUFFICES ASSUME NEW d \in Client \ (raced' \cup AsyncClient),
                       NEW u \in Thread, NEW v \in Thread,
                       Holding(call'[u], d), Holding(call'[v], d)
                PROVE  u = v
    BY DEF OneAtATime
  <2>1. CASE u # t /\ v # t
    BY <1>1, <2>1 DEF RenewerInv, OneAtATime
  <2>2. ASSUME NEW w \in Thread, w # t, Holding(call'[t], d), Holding(call'[w], d) PROVE FALSE
    <3>1. d = c /\ raced' = Overlapped(c)
      BY <1>1, <2>2 DEF Holding
    <3>2. Calling(c, {"register", "shutdown"})
      BY <1>1, <2>2, <3>1 DEF Calling, Holding
    <3>. QED BY <3>1, <3>2 DEF Overlapped
  <2>. QED BY <2>1, <2>2
<1>6. Prepared'
  BY <1>1, <1>2 DEF RenewerInv, Prepared
<1>7. NoOrphanRenewer'
  <2>. SUFFICES ASSUME NEW r \in Renewer, renewer[r].runs, renewer[r].of \notin raced'
                PROVE  \/ \E z \in Leased : held[renewer[r].of][z] = r
                       \/ \E u \in Thread : call'[u].by = renewer[r].of /\ call'[u].old = r
    BY <1>2 DEF NoOrphanRenewer
  <2>1. \/ \E z \in Leased : held[renewer[r].of][z] = r
        \/ \E u \in Thread : call[u].by = renewer[r].of /\ call[u].old = r
    BY DEF RenewerInv, NoOrphanRenewer
  <2>2. r # NoRenewer
    BY SdkClientAssumption
  <2>. QED BY <1>1, <2>1, <2>2, NoCallFacts
<1>. QED BY <1>1, <1>3, <1>4, <1>5, <1>6, <1>7 DEF RenewerInv

Registers(c, s, r) == held' = [held EXCEPT ![c][s] = r]

(* HeartbeatRegistry.add and its asynchronous twin: r, new, is taken in and *)
(* displaces d, which the call is to stop.                                  *)
LEMMA TakeInKeeps ==
  ASSUME RenewerInv, NEW t \in Thread, NEW r \in Renewer, NEW runs \in BOOLEAN, NEW where,
         At(t, {"register"}, "hold"), UNCHANGED raced,
         renewer[r].of = NoOne,
         renewer'[r].of = call[t].by, renewer'[r].runs = runs,
         renewer' \in [Renewer -> [of: Client \cup {NoOne}, runs: BOOLEAN]],
         \A q \in Renewer : q # r => renewer'[q] = renewer[q],
         Registers(call[t].by, call[t].on, r),
         CallsTyped', \A u \in Thread : u # t => call'[u] = call[u],
         call'[t].op = call[t].op, call'[t].by = call[t].by, call'[t].on = call[t].on,
         call'[t].at = where, call'[t].old = held[call[t].by][call[t].on],
         \/ where = "stop" /\ ~runs /\ call[t].by \notin AsyncClient /\ call'[t].renewer = r
         \/ where = "cancel" /\ call[t].by \in AsyncClient /\ call'[t].renewer = NoRenewer
  PROVE  RenewerInv'
<1>. DEFINE c == call[t].by
            s == call[t].on
            d == held[c][s]
<1>1. /\ call[t].op = "register" /\ call[t].at = "hold"
      /\ c \in Client /\ s \in Leased /\ c # NoOne /\ r # NoRenewer
      /\ call[t].renewer = NoRenewer /\ call[t].old = NoRenewer
      /\ d \in Renewer \cup {NoRenewer}
  <2>1. call[t].op = "register" /\ call[t].at = "hold" /\ WellMade(call[t])
    BY DEF At, RenewerInv
  <2>2. /\ c \in Client /\ s \in Leased
        /\ call[t].renewer = NoRenewer /\ call[t].old = NoRenewer
    BY <2>1 DEF WellMade, Stage
  <2>. QED BY <2>1, <2>2, SdkClientAssumption DEF RenewerInv, Belongs
<1>2. /\ held' \in [Client -> [Leased -> Renewer \cup {NoRenewer}]]
      /\ held'[c][s] = r
      /\ \A e \in Client, z \in Leased : e # c \/ z # s => held'[e][z] = held[e][z]
  BY <1>1 DEF RenewerInv, Belongs, Registers
<1>3. /\ \A e \in Client, z \in Leased : held[e][z] # r
      /\ \A u \in Thread : call[u].old # r /\ call[u].renewer # r
  <2>1. \A e \in Client, z \in Leased : held[e][z] # r
    BY <1>1, SdkClientAssumption DEF RenewerInv, Belongs
  <2>2. ASSUME NEW u \in Thread PROVE call[u].old # r /\ call[u].renewer # r
    <3>1. SUFFICES ASSUME call[u].at \in Stage PROVE call[u].old # r /\ call[u].renewer # r
      BY <1>1 DEF RenewerInv, WellMade
    <3>2. call[u].by \in Client
      BY <3>1 DEF RenewerInv, WellMade
    <3>3. call[u].by # NoOne
      BY <3>2, SdkClientAssumption
    <3>. QED BY <1>1, <3>3 DEF RenewerInv, Belongs
  <2>. QED BY <2>1, <2>2
<1>4. where \in {"stop", "cancel"}
  OBVIOUS
<1>5. WellMade(call'[t])
  <2>1. WellMade(call[t])
    BY DEF RenewerInv
  <2>. QED BY <1>1, <1>4, <2>1 DEF WellMade, Stage
<1>6. \A u \in Thread : WellMade(call'[u])
  BY <1>5 DEF RenewerInv
<1>7. d # NoRenewer => renewer[d].of = c /\ d # r
  BY <1>1, <1>3 DEF RenewerInv, Belongs
<1>8. Belongs'
  <2>1. \A q \in Renewer : renewer'[q].runs => renewer'[q].of \in Client
    BY <1>1 DEF RenewerInv, Belongs
  <2>2. ASSUME NEW e \in Client, NEW z \in Leased, held'[e][z] # NoRenewer
        PROVE  renewer'[held'[e][z]].of = e
    <3>1. CASE e = c /\ z = s
      BY <1>2, <3>1
    <3>2. CASE e # c \/ z # s
      <4>1. held'[e][z] = held[e][z] /\ held[e][z] \in Renewer /\ held[e][z] # r
        BY <1>2, <1>3, <2>2, <3>2 DEF RenewerInv, Belongs
      <4>2. renewer[held[e][z]].of = e
        BY <2>2, <4>1 DEF RenewerInv, Belongs
      <4>. QED BY <4>1, <4>2
    <3>. QED BY <3>1, <3>2
  <2>3. ASSUME NEW u \in Thread
        PROVE  /\ call'[u].renewer # NoRenewer => renewer'[call'[u].renewer].of = call'[u].by
               /\ call'[u].old # NoRenewer => renewer'[call'[u].old].of = call'[u].by
    <3>1. CASE u = t
      BY <1>1, <1>7, <3>1
    <3>2. CASE u # t
      <4>1. /\ call'[u] = call[u] /\ call[u].renewer # r /\ call[u].old # r
            /\ {call[u].renewer, call[u].old} \subseteq Renewer \cup {NoRenewer}
        BY <1>3, <3>2 DEF RenewerInv, WellMade
      <4>. QED BY <4>1 DEF RenewerInv, Belongs
    <3>. QED BY <3>1, <3>2
  <2>. QED BY <1>2, <2>1, <2>2, <2>3 DEF Belongs
<1>9. \A u \in Thread, e \in Client : Holding(call'[u], e) => Holding(call[u], e)
  BY DEF Holding
<1>10. OneAtATime'
  BY <1>9 DEF RenewerInv, OneAtATime
<1>11. Prepared'
  <2>. SUFFICES ASSUME NEW u \in Thread, call'[u].op = "register", call'[u].by \notin raced
                PROVE  /\ call'[u].at \in {"stop", "start"} =>
                            held'[call'[u].by][call'[u].on] = call'[u].renewer
                       /\ call'[u].at = "start" /\ call'[u].old # NoRenewer =>
                            ~renewer'[call'[u].old].runs
    BY DEF Prepared
  <2>1. CASE u = t
    BY <1>2, <1>4, <2>1
  <2>2. CASE u # t /\ call[u].at \in {"stop", "start"}
    <3>1. /\ call'[u] = call[u]
          /\ call[u].by \in Client \ AsyncClient /\ call[u].on \in Leased
          /\ call[u].old \in Renewer \cup {NoRenewer}
      BY <2>2 DEF RenewerInv, WellMade, Stage
    <3>2. /\ held[call[u].by][call[u].on] = call[u].renewer
          /\ call[u].at = "start" /\ call[u].old # NoRenewer => ~renewer[call[u].old].runs
      BY <2>2, <3>1 DEF RenewerInv, Prepared
    <3>3. call[u].by # c
      <4>. SUFFICES ASSUME call[u].by = c PROVE FALSE
        OBVIOUS
      <4>1. Holding(call[u], c) /\ Holding(call[t], c)
        BY <1>1, <3>1 DEF Holding
      <4>. QED BY <2>2, <3>1, <4>1 DEF RenewerInv, OneAtATime
    <3>4. held'[call[u].by][call[u].on] = held[call[u].by][call[u].on]
      BY <1>2, <3>1, <3>3
    <3>5. call[u].old # r
      BY <1>3
    <3>. QED BY <3>1, <3>2, <3>4, <3>5
  <2>3. CASE u # t /\ call[u].at \notin {"stop", "start"}
    BY <2>3
  <2>. QED BY <2>1, <2>2, <2>3
<1>12. NoOrphanRenewer'
  <2>. SUFFICES ASSUME NEW q \in Renewer, renewer'[q].runs, renewer'[q].of \notin raced
                PROVE  \/ \E z \in Leased : held'[renewer'[q].of][z] = q
                       \/ \E u \in Thread : call'[u].by = renewer'[q].of /\ call'[u].old = q
    BY DEF NoOrphanRenewer
  <2>1. CASE q = r
    BY <1>1, <1>2, <2>1
  <2>2. CASE q # r
    <3>1. /\ renewer'[q] = renewer[q] /\ q # NoRenewer /\ renewer[q].of \in Client
          /\ \/ \E z \in Leased : held[renewer[q].of][z] = q
             \/ \E u \in Thread : call[u].by = renewer[q].of /\ call[u].old = q
      BY <2>2, SdkClientAssumption DEF RenewerInv, NoOrphanRenewer, Belongs
    <3>2. CASE \E u \in Thread : call[u].by = renewer[q].of /\ call[u].old = q
      BY <1>1, <3>1, <3>2
    <3>3. CASE \E z \in Leased : held[renewer[q].of][z] = q
      <4>1. PICK z \in Leased : held[renewer[q].of][z] = q
        BY <3>3
      <4>2. CASE renewer[q].of = c /\ z = s
        BY <3>1, <4>1, <4>2
      <4>3. CASE renewer[q].of # c \/ z # s
        BY <1>2, <3>1, <4>1, <4>3
      <4>. QED BY <4>2, <4>3
    <3>. QED BY <3>1, <3>2, <3>3
  <2>. QED BY <2>1, <2>2
<1>. QED BY <1>6, <1>8, <1>10, <1>11, <1>12 DEF RenewerInv

LEMMA HoldKeeps ==
  ASSUME RenewerInv, NEW t \in Thread, Hold(t) \/ HoldAsync(t)
  PROVE  RenewerInv'
<1>. DEFINE c == call[t].by
            s == call[t].on
<1>1. CallsTyped /\ renewer \in [Renewer -> [of: Client \cup {NoOne}, runs: BOOLEAN]]
      /\ call[t].renewer = NoRenewer /\ call[t].at = "hold" /\ c \in Client
  <2>1. call[t].at = "hold" /\ WellMade(call[t])
    BY DEF Hold, HoldAsync, At, RenewerInv
  <2>. QED BY <2>1 DEF RenewerInv, Belongs, WellMade, Stage
<1>2. CASE Hold(t)
  <2>1. PICK r \in Renewer :
          /\ renewer[r].of = NoOne
          /\ renewer' = [renewer EXCEPT ![r].of = c]
          /\ held' = [held EXCEPT ![c][s] = r]
          /\ call' = [call EXCEPT ![t].renewer = r, ![t].old = held[c][s], ![t].at = "stop"]
    BY <1>2 DEF Hold
  <2>2. /\ renewer' \in [Renewer -> [of: Client \cup {NoOne}, runs: BOOLEAN]]
        /\ renewer'[r].of = c /\ renewer'[r].runs = renewer[r].runs
        /\ \A q \in Renewer : q # r => renewer'[q] = renewer[q]
    BY <1>1, <2>1
  <2>3. ~renewer[r].runs
    BY <2>1, SdkClientAssumption DEF RenewerInv, Belongs
  <2>4. renewer'[r].runs = FALSE
    BY <1>1, <2>2, <2>3
  <2>5. /\ CallsTyped'
        /\ \A u \in Thread : u # t => call'[u] = call[u]
        /\ call'[t].op = call[t].op /\ call'[t].by = c /\ call'[t].on = s
        /\ call'[t].at = "stop" /\ call'[t].renewer = r /\ call'[t].old = held[c][s]
    <3>1. Notes(t, r, held[c][s], "stop")
      BY <2>1 DEF Notes
    <3>. QED BY <1>1, <3>1, HolderFacts
  <2>6. At(t, {"register"}, "hold") /\ UNCHANGED raced /\ c \notin AsyncClient
    BY <1>2 DEF Hold, history
  <2>7. Registers(c, s, r) /\ renewer[r].of = NoOne
    BY <2>1 DEF Registers
  <2>. QED BY <2>2, <2>4, <2>5, <2>6, <2>7, TakeInKeeps
<1>3. CASE HoldAsync(t)
  <2>1. PICK r \in Renewer :
          /\ renewer[r].of = NoOne
          /\ renewer' = [renewer EXCEPT ![r] = [of |-> c, runs |-> TRUE]]
          /\ held' = [held EXCEPT ![c][s] = r]
          /\ call' = [call EXCEPT ![t].old = held[c][s], ![t].at = "cancel"]
    BY <1>3 DEF HoldAsync
  <2>2. /\ renewer' \in [Renewer -> [of: Client \cup {NoOne}, runs: BOOLEAN]]
        /\ renewer'[r].of = c /\ renewer'[r].runs = TRUE
        /\ \A q \in Renewer : q # r => renewer'[q] = renewer[q]
    BY <1>1, <2>1
  <2>3. /\ CallsTyped'
        /\ \A u \in Thread : u # t => call'[u] = call[u]
        /\ call'[t].op = call[t].op /\ call'[t].by = c /\ call'[t].on = s
        /\ call'[t].at = "cancel" /\ call'[t].renewer = NoRenewer /\ call'[t].old = held[c][s]
    <3>1. Notes(t, NoRenewer, held[c][s], "cancel")
      BY <1>1, <2>1 DEF Notes
    <3>. QED BY <1>1, <3>1, HolderFacts
  <2>4. At(t, {"register"}, "hold") /\ UNCHANGED raced /\ c \in AsyncClient
    BY <1>3 DEF HoldAsync, history
  <2>5. Registers(c, s, r) /\ renewer[r].of = NoOne
    BY <2>1 DEF Registers
  <2>. QED BY <2>2, <2>3, <2>4, <2>5, TakeInKeeps
<1>. QED BY <1>2, <1>3

(* A call stops the older renewer it holds, and ends or goes on to start   *)
(* the new one.                                                            *)
LEMMA StopKeeps ==
  ASSUME RenewerInv, NEW t \in Thread, call[t].at \in {"stop", "cancel"},
         renewer' = Stopped(call[t].old), UNCHANGED <<held, raced>>,
         CallsTyped', \A u \in Thread : u # t => call'[u] = call[u],
         \/ call'[t] = NoCall
         \/ /\ call[t].op = "register" /\ call[t].at = "stop"
            /\ call'[t].op = call[t].op /\ call'[t].by = call[t].by /\ call'[t].on = call[t].on
            /\ call'[t].renewer = call[t].renewer /\ call'[t].old = call[t].old
            /\ call'[t].at = "start"
  PROVE  RenewerInv'
<1>. DEFINE d == call[t].old
<1>1. WellMade(call[t]) /\ d \in Renewer \cup {NoRenewer} /\ NoRenewer \notin Renewer
  BY SdkClientAssumption DEF RenewerInv, WellMade
<1>2. /\ renewer' \in [Renewer -> [of: Client \cup {NoOne}, runs: BOOLEAN]]
      /\ \A q \in Renewer : q # d => renewer'[q] = renewer[q]
      /\ d # NoRenewer => renewer'[d].of = renewer[d].of /\ ~renewer'[d].runs
  BY <1>1 DEF Stopped, RenewerInv, Belongs
<1>3. \A q \in Renewer : renewer'[q].of = renewer[q].of /\ (renewer'[q].runs => renewer[q].runs)
  BY <1>1, <1>2
<1>4. WellMade(call'[t])
  BY <1>1, NoCallFacts DEF WellMade, Stage
<1>5. \A u \in Thread : WellMade(call'[u])
  BY <1>4 DEF RenewerInv
<1>6. Belongs'
  <2>1. \A q \in Renewer : renewer'[q].runs => renewer'[q].of \in Client
    BY <1>3 DEF RenewerInv, Belongs
  <2>2. ASSUME NEW e \in Client, NEW z \in Leased, held'[e][z] # NoRenewer
        PROVE  renewer'[held'[e][z]].of = e
    BY <1>3, <2>2 DEF RenewerInv, Belongs
  <2>3. ASSUME NEW u \in Thread
        PROVE  /\ call'[u].renewer # NoRenewer => renewer'[call'[u].renewer].of = call'[u].by
               /\ call'[u].old # NoRenewer => renewer'[call'[u].old].of = call'[u].by
    <3>1. {call[u].renewer, call[u].old} \subseteq Renewer \cup {NoRenewer}
      BY DEF RenewerInv, WellMade
    <3>2. /\ call[u].renewer # NoRenewer => renewer'[call[u].renewer].of = call[u].by
          /\ call[u].old # NoRenewer => renewer'[call[u].old].of = call[u].by
      BY <1>3, <3>1 DEF RenewerInv, Belongs
    <3>. QED BY <3>2, NoCallFacts
  <2>. QED BY <1>2, <2>1, <2>2, <2>3 DEF RenewerInv, Belongs
<1>7. \A u \in Thread, e \in Client : Holding(call'[u], e) => Holding(call[u], e)
  BY NoCallFacts DEF Holding
<1>8. OneAtATime'
  BY <1>7 DEF RenewerInv, OneAtATime
<1>9. Prepared'
  <2>. SUFFICES ASSUME NEW u \in Thread, call'[u].op = "register", call'[u].by \notin raced
                PROVE  /\ call'[u].at \in {"stop", "start"} =>
                            held[call'[u].by][call'[u].on] = call'[u].renewer
                       /\ call'[u].at = "start" /\ call'[u].old # NoRenewer =>
                            ~renewer'[call'[u].old].runs
    BY DEF Prepared
  <2>1. CASE u = t
    BY <1>2, <2>1, NoCallFacts DEF RenewerInv, Prepared
  <2>2. CASE u # t
    <3>1. call'[u] = call[u] /\ call[u].old \in Renewer \cup {NoRenewer}
      BY <2>2 DEF RenewerInv, WellMade
    <3>2. /\ call[u].at \in {"stop", "start"} => held[call[u].by][call[u].on] = call[u].renewer
          /\ call[u].at = "start" /\ call[u].old # NoRenewer => ~renewer[call[u].old].runs
      BY <3>1 DEF RenewerInv, Prepared
    <3>. QED BY <1>3, <3>1, <3>2
  <2>. QED BY <2>1, <2>2
<1>10. NoOrphanRenewer'
  <2>. SUFFICES ASSUME NEW q \in Renewer, renewer'[q].runs, renewer'[q].of \notin raced
                PROVE  \/ \E z \in Leased : held[renewer'[q].of][z] = q
                       \/ \E u \in Thread : call'[u].by = renewer'[q].of /\ call'[u].old = q
    BY DEF NoOrphanRenewer
  <2>1. q # d /\ renewer'[q] = renewer[q]
    BY <1>1, <1>2
  <2>2. \/ \E z \in Leased : held[renewer[q].of][z] = q
        \/ \E u \in Thread : call[u].by = renewer[q].of /\ call[u].old = q
    BY <2>1 DEF RenewerInv, NoOrphanRenewer
  <2>. QED BY <2>1, <2>2
<1>. QED BY <1>5, <1>6, <1>8, <1>9, <1>10 DEF RenewerInv

(* The new renewer is started: it is the one registered. *)
LEMMA StartKeeps ==
  ASSUME RenewerInv, NEW t \in Thread, Start(t)
  PROVE  RenewerInv'
<1>. DEFINE c == call[t].by
            r == call[t].renewer
<1>1. /\ call[t].op = "register" /\ call[t].at = "start"
      /\ renewer' = [renewer EXCEPT ![r].runs = TRUE]
      /\ held' = held /\ raced' = raced
  BY DEF Start, At, history
<1>2. /\ CallsTyped'
      /\ \A u \in Thread : u # t => call'[u] = call[u]
      /\ call'[t] = NoCall
  BY ReturnFacts DEF RenewerInv, Start
<1>3. /\ WellMade(call[t]) /\ r \in Renewer /\ NoRenewer \notin Renewer
      /\ c \in Client \ AsyncClient /\ call[t].on \in Leased
  <2>1. WellMade(call[t])
    BY DEF RenewerInv
  <2>. QED BY <1>1, <2>1, SdkClientAssumption DEF WellMade, Stage
<1>4. renewer[r].of = c
  BY <1>3 DEF RenewerInv, Belongs
<1>5. /\ renewer' \in [Renewer -> [of: Client \cup {NoOne}, runs: BOOLEAN]]
      /\ \A q \in Renewer : q # r => renewer'[q] = renewer[q]
      /\ \A q \in Renewer : renewer'[q].of = renewer[q].of
  BY <1>1, <1>3 DEF RenewerInv, Belongs
<1>6. \A u \in Thread : WellMade(call'[u])
  BY <1>2, NoCallFacts DEF RenewerInv
<1>7. Belongs'
  <2>1. \A q \in Renewer : renewer'[q].runs => renewer'[q].of \in Client
    BY <1>3, <1>4, <1>5 DEF RenewerInv, Belongs
  <2>2. ASSUME NEW e \in Client, NEW z \in Leased, held'[e][z] # NoRenewer
        PROVE  renewer'[held'[e][z]].of = e
    BY <1>1, <1>5, <2>2 DEF RenewerInv, Belongs
  <2>3. ASSUME NEW u \in Thread
        PROVE  /\ call'[u].renewer # NoRenewer => renewer'[call'[u].renewer].of = call'[u].by
               /\ call'[u].old # NoRenewer => renewer'[call'[u].old].of = call'[u].by
    <3>1. {call[u].renewer, call[u].old} \subseteq Renewer \cup {NoRenewer}
      BY DEF RenewerInv, WellMade
    <3>2. /\ call[u].renewer # NoRenewer => renewer'[call[u].renewer].of = call[u].by
          /\ call[u].old # NoRenewer => renewer'[call[u].old].of = call[u].by
      BY <1>5, <3>1 DEF RenewerInv, Belongs
    <3>. QED BY <1>2, <3>2, NoCallFacts
  <2>. QED BY <1>1, <1>5, <2>1, <2>2, <2>3 DEF RenewerInv, Belongs
<1>8. \A u \in Thread, e \in Client : Holding(call'[u], e) => Holding(call[u], e)
  BY <1>2, NoCallFacts DEF Holding
<1>9. OneAtATime'
  BY <1>1, <1>8 DEF RenewerInv, OneAtATime
<1>10. Prepared'
  <2>. SUFFICES ASSUME NEW u \in Thread, call'[u].op = "register", call'[u].by \notin raced
                PROVE  /\ call'[u].at \in {"stop", "start"} =>
                            held[call'[u].by][call'[u].on] = call'[u].renewer
                       /\ call'[u].at = "start" /\ call'[u].old # NoRenewer =>
                            ~renewer'[call'[u].old].runs
    BY <1>1 DEF Prepared
  <2>1. u # t /\ call'[u] = call[u] /\ call[u].old \in Renewer \cup {NoRenewer}
    BY <1>2, NoCallFacts DEF RenewerInv, WellMade
  <2>2. /\ call[u].at \in {"stop", "start"} => held[call[u].by][call[u].on] = call[u].renewer
        /\ call[u].at = "start" /\ call[u].old # NoRenewer => ~renewer[call[u].old].runs
    BY <2>1 DEF RenewerInv, Prepared
  <2>3. call[u].at = "start" => call[u].old # r
    <3>. SUFFICES ASSUME call[u].at = "start", call[u].old = r PROVE FALSE
      OBVIOUS
    <3>1. call[u].by = c
      BY <1>3, <1>4 DEF RenewerInv, Belongs
    <3>2. WellMade(call[u])
      BY DEF RenewerInv
    <3>3. call[u].on \in Leased
      BY <3>2 DEF WellMade, Stage
    <3>4. Holding(call[u], c) /\ Holding(call[t], c)
      BY <1>1, <1>3, <2>1, <3>1, <3>3 DEF Holding
    <3>5. c \notin raced
      BY <2>1, <3>1
    <3>. QED BY <1>3, <2>1, <3>4, <3>5 DEF RenewerInv, OneAtATime
  <2>. QED BY <1>5, <2>1, <2>2, <2>3
<1>11. NoOrphanRenewer'
  <2>. SUFFICES ASSUME NEW q \in Renewer, renewer'[q].runs, renewer'[q].of \notin raced
                PROVE  \/ \E z \in Leased : held[renewer'[q].of][z] = q
                       \/ \E u \in Thread : call'[u].by = renewer'[q].of /\ call'[u].old = q
    BY <1>1 DEF NoOrphanRenewer
  <2>1. CASE q = r
    <3>1. renewer'[q].of = c /\ c \notin raced
      BY <1>4, <1>5, <2>1
    <3>2. held[c][call[t].on] = r
      BY <1>1, <3>1 DEF RenewerInv, Prepared
    <3>. QED BY <1>3, <2>1, <3>1, <3>2
  <2>2. CASE q # r
    <3>1. renewer'[q] = renewer[q] /\ q # NoRenewer
      BY <1>3, <1>5, <2>2
    <3>2. \/ \E z \in Leased : held[renewer[q].of][z] = q
          \/ \E u \in Thread : call[u].by = renewer[q].of /\ call[u].old = q
      BY <3>1 DEF RenewerInv, NoOrphanRenewer
    <3>3. ~(call[t].by = renewer[q].of /\ call[t].old = q)
      BY <1>1, <3>1 DEF RenewerInv, Prepared
    <3>. QED BY <1>2, <3>1, <3>2, <3>3
  <2>. QED BY <2>1, <2>2
<1>. QED BY <1>2, <1>6, <1>7, <1>9, <1>10, <1>11 DEF RenewerInv

(* shutdown takes the renewer out and notes it, to stop it. *)
LEMMA TakeOutKeeps ==
  ASSUME RenewerInv, NEW t \in Thread, TakeOut(t)
  PROVE  RenewerInv'
<1>. DEFINE c == call[t].by
            s == call[t].on
            d == held[c][s]
<1>1. /\ call[t].op = "shutdown" /\ call[t].at = "send"
      /\ held' = [held EXCEPT ![c][s] = NoRenewer]
      /\ renewer' = renewer /\ raced' = raced
  BY DEF TakeOut, At, history
<1>2. /\ c \in Client /\ s \in Leased
      /\ call[t].renewer = NoRenewer /\ call[t].old = NoRenewer
      /\ d \in Renewer \cup {NoRenewer}
      /\ WellMade(call[t])
  <2>1. WellMade(call[t])
    BY DEF RenewerInv
  <2>2. /\ c \in Client /\ s \in Leased
        /\ call[t].renewer = NoRenewer /\ call[t].old = NoRenewer
    BY <1>1, <2>1 DEF WellMade, Stage
  <2>. QED BY <2>1, <2>2 DEF RenewerInv, Belongs
<1>3. /\ CallsTyped'
      /\ \A u \in Thread : u # t => call'[u] = call[u]
      /\ call'[t].op = call[t].op /\ call'[t].by = c /\ call'[t].on = s
      /\ call'[t].at = "stop" /\ call'[t].renewer = NoRenewer /\ call'[t].old = d
  <2>1. Notes(t, NoRenewer, d, "stop")
    BY <1>2 DEF Notes, TakeOut
  <2>. QED BY <1>2, <2>1, HolderFacts DEF RenewerInv
<1>4. /\ held' \in [Client -> [Leased -> Renewer \cup {NoRenewer}]]
      /\ held'[c][s] = NoRenewer
      /\ \A e \in Client, z \in Leased : e # c \/ z # s => held'[e][z] = held[e][z]
  BY <1>1, <1>2 DEF RenewerInv, Belongs
<1>5. WellMade(call'[t])
  BY <1>1, <1>2, <1>3 DEF WellMade, Stage
<1>6. \A u \in Thread : WellMade(call'[u])
  BY <1>3, <1>5 DEF RenewerInv
<1>7. Belongs'
  <2>1. ASSUME NEW e \in Client, NEW z \in Leased, held'[e][z] # NoRenewer
        PROVE  renewer[held'[e][z]].of = e
    BY <1>4, <2>1 DEF RenewerInv, Belongs
  <2>2. d # NoRenewer => renewer[d].of = c
    BY <1>2 DEF RenewerInv, Belongs
  <2>3. ASSUME NEW u \in Thread
        PROVE  /\ call'[u].renewer # NoRenewer => renewer[call'[u].renewer].of = call'[u].by
               /\ call'[u].old # NoRenewer => renewer[call'[u].old].of = call'[u].by
    BY <1>3, <2>2 DEF RenewerInv, Belongs
  <2>. QED BY <1>1, <1>4, <2>1, <2>3 DEF RenewerInv, Belongs
<1>8. \A u \in Thread, e \in Client : Holding(call'[u], e) => Holding(call[u], e)
  BY <1>3 DEF Holding
<1>9. OneAtATime'
  BY <1>1, <1>8 DEF RenewerInv, OneAtATime
<1>10. Prepared'
  <2>. SUFFICES ASSUME NEW u \in Thread, call'[u].op = "register", call'[u].by \notin raced
                PROVE  /\ call'[u].at \in {"stop", "start"} =>
                            held'[call'[u].by][call'[u].on] = call'[u].renewer
                       /\ call'[u].at = "start" /\ call'[u].old # NoRenewer =>
                            ~renewer[call'[u].old].runs
    BY <1>1 DEF Prepared
  <2>1. u # t /\ call'[u] = call[u]
    BY <1>1, <1>3
  <2>2. /\ call[u].at \in {"stop", "start"} => held[call[u].by][call[u].on] = call[u].renewer
        /\ call[u].at = "start" /\ call[u].old # NoRenewer => ~renewer[call[u].old].runs
    BY <2>1 DEF RenewerInv, Prepared
  <2>3. ASSUME call[u].at \in {"stop", "start"}
        PROVE  held'[call[u].by][call[u].on] = held[call[u].by][call[u].on]
    <3>1. WellMade(call[u])
      BY DEF RenewerInv
    <3>2. call[u].by \in Client \ AsyncClient /\ call[u].on \in Leased
      BY <2>1, <2>3, <3>1 DEF WellMade, Stage
    <3>3. call[u].by # c
      <4>. SUFFICES ASSUME call[u].by = c PROVE FALSE
        OBVIOUS
      <4>1. Holding(call[u], c) /\ Holding(call[t], c)
        BY <1>1, <2>1, <3>2 DEF Holding
      <4>. QED BY <2>1, <3>2, <4>1 DEF RenewerInv, OneAtATime
    <3>. QED BY <1>4, <3>2, <3>3
  <2>. QED BY <2>1, <2>2, <2>3
<1>11. NoOrphanRenewer'
  <2>. SUFFICES ASSUME NEW q \in Renewer, renewer[q].runs, renewer[q].of \notin raced
                PROVE  \/ \E z \in Leased : held'[renewer[q].of][z] = q
                       \/ \E u \in Thread : call'[u].by = renewer[q].of /\ call'[u].old = q
    BY <1>1 DEF NoOrphanRenewer
  <2>1. /\ q # NoRenewer /\ renewer[q].of \in Client
        /\ \/ \E z \in Leased : held[renewer[q].of][z] = q
           \/ \E u \in Thread : call[u].by = renewer[q].of /\ call[u].old = q
    BY SdkClientAssumption DEF RenewerInv, NoOrphanRenewer, Belongs
  <2>2. CASE \E u \in Thread : call[u].by = renewer[q].of /\ call[u].old = q
    BY <1>2, <1>3, <2>1, <2>2
  <2>3. CASE \E z \in Leased : held[renewer[q].of][z] = q
    <3>1. PICK z \in Leased : held[renewer[q].of][z] = q
      BY <2>3
    <3>2. CASE renewer[q].of = c /\ z = s
      BY <1>3, <3>1, <3>2
    <3>3. CASE renewer[q].of # c \/ z # s
      BY <1>4, <2>1, <3>1, <3>3
    <3>. QED BY <3>2, <3>3
  <2>. QED BY <2>1, <2>2, <2>3
<1>. QED BY <1>3, <1>6, <1>7, <1>9, <1>10, <1>11 DEF RenewerInv

(* A process that ends takes its calls and its renewers with it. *)
LEMMA RestartKeeps ==
  ASSUME RenewerInv, NEW c \in Client, Restart(c)
  PROVE  RenewerInv'
<1>1. /\ held' = [held EXCEPT ![c] = [s \in Leased |-> NoRenewer]]
      /\ renewer' = [r \in Renewer |-> IF renewer[r].of = c THEN [renewer[r] EXCEPT !.runs = FALSE]
                                       ELSE renewer[r]]
      /\ call' = [t \in Thread |-> IF call[t].by = c THEN NoCall ELSE call[t]]
      /\ raced' = raced \ {c}
  BY DEF Restart
<1>2. /\ \A t \in Thread : call'[t] = IF call[t].by = c THEN NoCall ELSE call[t]
      /\ CallsTyped'
  <2>1. IsCall(NoCall)
    BY DEF IsCall, NoCall
  <2>. QED BY <1>1, <2>1 DEF RenewerInv, CallsTyped
<1>3. /\ renewer' \in [Renewer -> [of: Client \cup {NoOne}, runs: BOOLEAN]]
      /\ \A q \in Renewer : renewer'[q].of = renewer[q].of
      /\ \A q \in Renewer : renewer[q].of = c => ~renewer'[q].runs
      /\ \A q \in Renewer : renewer[q].of # c => renewer'[q] = renewer[q]
  BY <1>1 DEF RenewerInv, Belongs
<1>4. /\ held' \in [Client -> [Leased -> Renewer \cup {NoRenewer}]]
      /\ \A z \in Leased : held'[c][z] = NoRenewer
      /\ \A e \in Client, z \in Leased : e # c => held'[e][z] = held[e][z]
  BY <1>1 DEF RenewerInv, Belongs
<1>5. \A u \in Thread : WellMade(call'[u])
  BY <1>2, NoCallFacts DEF RenewerInv
<1>6. Belongs'
  <2>1. \A q \in Renewer : renewer'[q].runs => renewer'[q].of \in Client
    BY <1>3 DEF RenewerInv, Belongs
  <2>2. ASSUME NEW e \in Client, NEW z \in Leased, held'[e][z] # NoRenewer
        PROVE  renewer'[held'[e][z]].of = e
    <3>1. held'[e][z] = held[e][z] /\ held[e][z] \in Renewer
      BY <1>4, <2>2 DEF RenewerInv, Belongs
    <3>2. renewer[held[e][z]].of = e
      BY <2>2, <3>1 DEF RenewerInv, Belongs
    <3>. QED BY <1>3, <3>1, <3>2
  <2>3. ASSUME NEW u \in Thread
        PROVE  /\ call'[u].renewer # NoRenewer => renewer'[call'[u].renewer].of = call'[u].by
               /\ call'[u].old # NoRenewer => renewer'[call'[u].old].of = call'[u].by
    <3>1. {call[u].renewer, call[u].old} \subseteq Renewer \cup {NoRenewer}
      BY DEF RenewerInv, WellMade
    <3>2. /\ call[u].renewer # NoRenewer => renewer'[call[u].renewer].of = call[u].by
          /\ call[u].old # NoRenewer => renewer'[call[u].old].of = call[u].by
      BY <1>3, <3>1 DEF RenewerInv, Belongs
    <3>. QED BY <1>2, <3>2, NoCallFacts
  <2>. QED BY <1>3, <1>4, <2>1, <2>2, <2>3 DEF Belongs
<1>7. OneAtATime'
  <2>. SUFFICES ASSUME NEW e \in Client \ (raced' \cup AsyncClient),
                       NEW u \in Thread, NEW v \in Thread,
                       Holding(call'[u], e), Holding(call'[v], e)
                PROVE  u = v
    BY DEF OneAtATime
  <2>1. /\ call'[u] = call[u] /\ call'[v] = call[v]
        /\ call[u].by # c /\ call[u].by = e
    BY <1>2, NoCallFacts DEF Holding
  <2>2. e \in Client \ (raced \cup AsyncClient)
    BY <1>1, <2>1
  <2>. QED BY <2>1, <2>2 DEF RenewerInv, OneAtATime
<1>8. Prepared'
  <2>. SUFFICES ASSUME NEW u \in Thread, call'[u].op = "register", call'[u].by \notin raced'
                PROVE  /\ call'[u].at \in {"stop", "start"} =>
                            held'[call'[u].by][call'[u].on] = call'[u].renewer
                       /\ call'[u].at = "start" /\ call'[u].old # NoRenewer =>
                            ~renewer'[call'[u].old].runs
    BY DEF Prepared
  <2>1. /\ call'[u] = call[u] /\ call[u].by # c /\ WellMade(call[u])
    BY <1>2, NoCallFacts DEF RenewerInv
  <2>2. /\ call[u].at \in {"stop", "start"} => held[call[u].by][call[u].on] = call[u].renewer
        /\ call[u].at = "start" /\ call[u].old # NoRenewer => ~renewer[call[u].old].runs
    BY <1>1, <2>1 DEF RenewerInv, Prepared
  <2>3. call[u].at \in {"stop", "start"} => call[u].by \in Client /\ call[u].on \in Leased
    BY <2>1 DEF WellMade, Stage
  <2>4. call[u].old # NoRenewer => call[u].old \in Renewer /\ renewer[call[u].old].of # c
    BY <2>1 DEF WellMade, RenewerInv, Belongs
  <2>. QED BY <1>3, <1>4, <2>1, <2>2, <2>3, <2>4
<1>9. NoOrphanRenewer'
  <2>. SUFFICES ASSUME NEW q \in Renewer, renewer'[q].runs, renewer'[q].of \notin raced'
                PROVE  \/ \E z \in Leased : held'[renewer'[q].of][z] = q
                       \/ \E u \in Thread : call'[u].by = renewer'[q].of /\ call'[u].old = q
    BY DEF NoOrphanRenewer
  <2>1. renewer'[q] = renewer[q] /\ renewer[q].of # c /\ renewer[q].of \in Client
    BY <1>3 DEF RenewerInv, Belongs
  <2>2. \/ \E z \in Leased : held[renewer[q].of][z] = q
        \/ \E u \in Thread : call[u].by = renewer[q].of /\ call[u].old = q
    BY <1>1, <2>1 DEF RenewerInv, NoOrphanRenewer
  <2>. QED BY <1>2, <1>4, <2>1, <2>2
<1>. QED BY <1>2, <1>5, <1>6, <1>7, <1>8, <1>9 DEF RenewerInv

(* One step for each of a call's. *)
LEMMA CallRenewers ==
  ASSUME RenewerInv, NEW t \in Thread, CallStep(t)
  PROVE  RenewerInv'
<1>. USE DEF At
<1>1. CallsTyped /\ WellMade(call[t])
  BY DEF RenewerInv
<1>2. ASSUME NEW where, Then(t, where), where \notin Stage \cup {"hold"},
             call[t].at \notin Stage, UNCHANGED <<held, renewer, raced>>
      PROVE  RenewerInv'
  BY <1>1, <1>2, ThenFacts, PlainKeeps
<1>3. ASSUME Return(t), call[t].at \notin Stage, UNCHANGED <<held, renewer, raced>>
      PROVE  RenewerInv'
  BY <1>1, <1>3, ReturnFacts, PlainKeeps
<1>4. CASE Send(t)
  <2>1. /\ call[t].at \notin Stage /\ UNCHANGED <<held, renewer, raced>>
        /\ Then(t, "own") \/ Return(t)
    BY <1>4 DEF Send, Answered, Unanswered, client, Stage
  <2>2. "own" \notin Stage \cup {"hold"}
    BY DEF Stage
  <2>. QED BY <1>2, <1>3, <2>1, <2>2
<1>5. CASE Own(t)
  <2>. DEFINE where == IF call[t].on \in Agent THEN "cache" ELSE "hold"
  <2>1. /\ call[t].at = "own" /\ call[t].op # "none" /\ UNCHANGED <<held, renewer, raced>>
        /\ Then(t, where)
    BY <1>5 DEF Own
  <2>2. where = "hold" => call[t].on \in Leased
    BY <1>1, <2>1 DEF WellMade, Service
  <2>3. where \notin Stage /\ call[t].at \notin Stage
    BY <2>1 DEF Stage
  <2>. HIDE DEF where
  <2>4. /\ CallsTyped'
        /\ \A u \in Thread : u # t => call'[u] = call[u]
        /\ call'[t].op = call[t].op /\ call'[t].by = call[t].by /\ call'[t].on = call[t].on
        /\ call'[t].at = where
        /\ call'[t].renewer = call[t].renewer /\ call'[t].old = call[t].old
    BY <1>1, <2>1, ThenFacts
  <2>. QED BY <2>1, <2>2, <2>3, <2>4, PlainKeeps
<1>6. CASE Cache(t)
  <2>1. /\ call[t].at \notin Stage /\ UNCHANGED <<held, renewer, raced>>
        /\ Then(t, "release") \/ Return(t)
    BY <1>6 DEF Cache, Stage
  <2>2. "release" \notin Stage \cup {"hold"}
    BY DEF Stage
  <2>. QED BY <1>2, <1>3, <2>1, <2>2
<1>7. CASE Release(t)
  BY <1>3, <1>7 DEF Release, client, Stage
<1>8. CASE Resolve(t)
  <2>1. call[t].at = "resolve" /\ UNCHANGED <<held, renewer, raced>>
    BY <1>8 DEF Resolve, client, history
  <2>2. call[t].at \notin Stage /\ "send" \notin Stage
    BY <2>1 DEF Stage
  <2>3. /\ CallsTyped'
        /\ \A u \in Thread : u # t => call'[u] = call[u]
        /\ \/ call'[t] = NoCall
           \/ /\ call'[t].op = call[t].op /\ call'[t].by = call[t].by /\ call'[t].on = call[t].on
              /\ call'[t].at = "send"
              /\ call'[t].renewer = call[t].renewer /\ call'[t].old = call[t].old
    BY <1>1, <1>8, ResolveFacts
  <2>. QED BY <2>1, <2>2, <2>3, PlainKeeps
<1>9. CASE Update(t)
  BY <1>3, <1>9 DEF Update, client, Stage
<1>10. CASE Deregister(t)
  <2>1. /\ call[t].at \notin Stage /\ UNCHANGED <<held, renewer, raced>>
        /\ Then(t, "disown") \/ Return(t)
    BY <1>10 DEF Deregister, Answered, Unanswered, client, history, Stage
  <2>2. "disown" \notin Stage \cup {"hold"}
    BY DEF Stage
  <2>. QED BY <1>2, <1>3, <2>1, <2>2
<1>11. CASE NotFound(t)
  <2>1. /\ call[t].at \notin Stage /\ UNCHANGED <<held, renewer, raced>>
        /\ Then(t, "disown")
    BY <1>11 DEF NotFound, client, history, Stage
  <2>2. "disown" \notin Stage \cup {"hold"}
    BY DEF Stage
  <2>. QED BY <1>2, <2>1, <2>2
<1>12. CASE Disown(t)
  BY <1>3, <1>12 DEF Disown, Stage
<1>13. CASE Hold(t) \/ HoldAsync(t)
  BY <1>13, HoldKeeps
<1>14. CASE StopOld(t)
  <2>1. /\ call[t].op = "register" /\ call[t].at = "stop"
        /\ renewer' = Stopped(call[t].old) /\ UNCHANGED <<held, raced>> /\ Then(t, "start")
    BY <1>14 DEF StopOld, Stops, history
  <2>. QED BY <1>1, <2>1, ThenFacts, StopKeeps
<1>15. CASE Start(t)
  BY <1>15, StartKeeps
<1>16. CASE CancelOld(t) \/ StopTaken(t)
  <2>1. /\ call[t].at \in {"stop", "cancel"}
        /\ renewer' = Stopped(call[t].old) /\ UNCHANGED <<held, raced>> /\ Return(t)
    BY <1>16 DEF CancelOld, StopTaken, Stops, history
  <2>. QED BY <1>1, <2>1, ReturnFacts, StopKeeps
<1>17. CASE TakeOut(t)
  BY <1>17, TakeOutKeeps
<1>. QED BY <1>4, <1>5, <1>6, <1>7, <1>8, <1>9, <1>10, <1>11, <1>12, <1>13, <1>14, <1>15,
            <1>16, <1>17 DEF CallStep

LEMMA NextRenewers == RenewerInv /\ [Next]_vars => RenewerInv'
<1>. SUFFICES ASSUME RenewerInv, [Next]_vars PROVE RenewerInv'
  OBVIOUS
<1>1. ASSUME NEW t \in Thread, NEW c \in Client, NEW s \in Service, NEW e, CallRegister(t, c, s, e)
      PROVE  RenewerInv'
  <2>1. PICK new : Begin(t, "register", c, s, new)
    BY <1>1 DEF CallRegister
  <2>2. /\ raced \subseteq raced'
        /\ s \in Leased => raced' = Overlapped(c)
    BY <1>1 DEF CallRegister, Overlapped
  <2>. QED BY <2>1, <2>2, BeginKeeps
<1>2. ASSUME NEW t \in Thread, NEW c \in Client, NEW s \in Service, NEW new,
             NEW op \in {"replace", "update", "deregister"}, CallOwned(t, op, c, s, new)
      PROVE  RenewerInv'
  <2>1. Begin(t, op, c, s, new) /\ raced' = raced
    BY <1>2 DEF CallOwned
  <2>2. op # "none" /\ op # "shutdown" /\ op # "register"
    OBVIOUS
  <2>. QED BY <2>1, <2>2, BeginKeeps
<1>3. ASSUME NEW t \in Thread, NEW c \in Client, NEW s \in Leased, CallShutdown(t, c, s)
      PROVE  RenewerInv'
  <2>1. Begin(t, "shutdown", c, s, NoCard) /\ raced' = Overlapped(c) /\ s \in Service
    BY <1>3 DEF CallShutdown, Service
  <2>2. raced \subseteq raced'
    BY <2>1 DEF Overlapped
  <2>. QED BY <2>1, <2>2, BeginKeeps
<1>4. ASSUME NEW t \in Thread, CallStep(t) PROVE RenewerInv'
  BY <1>4, CallRenewers
<1>5. ASSUME NEW c \in Client, Restart(c) PROVE RenewerInv'
  BY <1>5, RestartKeeps
<1>6. CASE UNCHANGED <<call, held, renewer, raced>>
  BY <1>6 DEF RenewerInv, CallsTyped, Belongs, OneAtATime, Prepared, NoOrphanRenewer
<1>7. ASSUME NEW l \in Leader, NEW s \in Agent, Reserve(l, s) \/ EndReservation(l, s)
      PROVE  UNCHANGED <<call, held, renewer, raced>>
  BY <1>7 DEF Reserve, EndReservation, client, history
<1>8. ASSUME NEW s \in Leased, Lapse(s) PROVE UNCHANGED <<call, held, renewer, raced>>
  BY <1>8 DEF Lapse, client, history
<1>9. UNCHANGED vars => UNCHANGED <<call, held, renewer, raced>>
  BY DEF vars, client, history
<1>10. Agent \subseteq Service
  BY DEF Service
<1>. QED BY <1>1, <1>2, <1>3, <1>4, <1>5, <1>6, <1>7, <1>8, <1>9, <1>10 DEF Next

LEMMA InitRenewers == Init => RenewerInv
<1>. SUFFICES ASSUME Init PROVE RenewerInv
  OBVIOUS
<1>1. \A t \in Thread : call[t] = NoCall
  BY DEF Init
<1>2. CallsTyped
  <2>1. IsCall(NoCall)
    BY DEF IsCall, NoCall
  <2>. QED BY <2>1 DEF Init, CallsTyped
<1>3. \A t \in Thread : WellMade(call[t])
  BY <1>1, NoCallFacts
<1>4. /\ renewer \in [Renewer -> [of: Client \cup {NoOne}, runs: BOOLEAN]]
      /\ \A r \in Renewer : ~renewer[r].runs
      /\ held \in [Client -> [Leased -> Renewer \cup {NoRenewer}]]
      /\ \A c \in Client, s \in Leased : held[c][s] = NoRenewer
  BY DEF Init
<1>5. Belongs
  BY <1>1, <1>4, NoCallFacts DEF Belongs
<1>6. OneAtATime
  BY <1>1, NoCallFacts DEF OneAtATime
<1>7. Prepared
  BY <1>1, NoCallFacts DEF Prepared
<1>8. NoOrphanRenewer
  BY <1>4 DEF NoOrphanRenewer
<1>. QED BY <1>2, <1>3, <1>5, <1>6, <1>7, <1>8 DEF RenewerInv

(* Every reachable state has the invariant of the renewers: one owner for   *)
(* each, one call at a time for a process, and none that runs unregistered. *)
THEOREM SpecRenewerInv == Spec => []RenewerInv
BY InitRenewers, NextRenewers, PTL DEF Spec

(* No thread renews the lease of a service forever with nobody able to stop *)
(* it: outside a call that is about to stop it, every renewer that runs is  *)
(* one that its process has registered, unless calls of threads overlapped  *)
(* (HeartbeatRegistry.add, remove and shutdown).                            *)
THEOREM SpecNoOrphanRenewer == Spec => []NoOrphanRenewer
<1>1. RenewerInv => NoOrphanRenewer
  BY DEF RenewerInv
<1>. QED BY <1>1, SpecRenewerInv, PTL

-----------------------------------------------------------------------------
(* Ownership: what the file of a process's own writing holds is what it     *)
(* was answered, so that a restart forgets nothing of it.                   *)
OwnershipInv ==
  /\ owned \in [Client -> SUBSET Service] /\ said \in [Client -> SUBSET Service]
  /\ file \subseteq Service
  /\ \A c \in Client : said[c] \subseteq owned[c] /\ (writer = c => said[c] \subseteq file)

Answers(c, answered) == said' = [said EXCEPT ![c] = answered]

(* A change of what a process owns, and of what it was answered. *)
LEMMA OwnsKeeps ==
  ASSUME OwnershipInv, NEW c \in Client, NEW mine, mine \subseteq Service, Owns(c, mine),
         NEW answered, answered \subseteq mine, Answers(c, answered)
  PROVE  OwnershipInv'
<1>1. /\ owned' \in [Client -> SUBSET Service] /\ owned'[c] = mine
      /\ \A d \in Client : d # c => owned'[d] = owned[d]
  BY DEF Owns, OwnershipInv
<1>2. /\ said' \in [Client -> SUBSET Service] /\ said'[c] = answered
      /\ \A d \in Client : d # c => said'[d] = said[d]
  BY DEF OwnershipInv, Answers
<1>3. (file' = mine /\ writer' = c) \/ (file' = file /\ writer' = NoOne)
  BY DEF Owns, Segment
<1>4. NoOne \notin Client
  BY SdkClientAssumption
<1>5. ASSUME NEW d \in Client
      PROVE  said'[d] \subseteq owned'[d] /\ (writer' = d => said'[d] \subseteq file')
  BY <1>1, <1>2, <1>3, <1>4 DEF OwnershipInv
<1>. QED BY <1>1, <1>2, <1>3, <1>5 DEF OwnershipInv

LEMMA NextOwnership == RenewerInv /\ OwnershipInv /\ [Next]_vars => OwnershipInv'
<1>. SUFFICES ASSUME RenewerInv, OwnershipInv, [Next]_vars PROVE OwnershipInv'
  OBVIOUS
<1>1. CASE UNCHANGED <<owned, said, file, writer>>
  BY <1>1 DEF OwnershipInv
<1>2. ASSUME NEW t \in Thread, CallStep(t) PROVE OwnershipInv'
  <2>. DEFINE c == call[t].by
              s == call[t].on
  <2>1. ASSUME call[t].op # "none" PROVE c \in Client /\ s \in Service
    BY <2>1 DEF RenewerInv, WellMade
  <2>2. CASE Own(t)
    <3>1. c \in Client /\ s \in Service
      BY <2>1, <2>2 DEF Own, At
    <3>2. Owns(c, Gained(c, s)) /\ Answers(c, said[c] \cup {s})
      BY <2>2 DEF Own, Answers
    <3>3. Gained(c, s) \subseteq Service /\ said[c] \cup {s} \subseteq Gained(c, s)
      BY <3>1 DEF Gained, OwnershipInv
    <3>. QED BY <3>1, <3>2, <3>3, OwnsKeeps
  <2>3. CASE Disown(t)
    <3>1. c \in Client /\ s \in Service
      BY <2>1, <2>3 DEF Disown, At
    <3>2. Answers(c, said[c] \ {s})
      BY <2>3 DEF Disown, Answers
    <3>3. CASE owned[c] = {}
      BY <2>3, <3>1, <3>2, <3>3 DEF Disown, OwnershipInv, Answers
    <3>4. CASE owned[c] # {}
      <4>1. Owns(c, owned[c] \ {s})
        BY <2>3, <3>4 DEF Disown
      <4>2. owned[c] \ {s} \subseteq Service /\ said[c] \ {s} \subseteq owned[c] \ {s}
        BY <3>1 DEF OwnershipInv
      <4>. QED BY <3>1, <3>2, <4>1, <4>2, OwnsKeeps
    <3>. QED BY <3>3, <3>4
  <2>4. Send(t) \/ Cache(t) \/ Release(t) => UNCHANGED <<owned, said, file, writer>>
    BY DEF Send, Cache, Release, client
  <2>5. Resolve(t) \/ Update(t) \/ NotFound(t) => UNCHANGED <<owned, said, file, writer>>
    BY DEF Resolve, Update, NotFound, client, history
  <2>6. Deregister(t) => UNCHANGED <<owned, said, file, writer>>
    BY DEF Deregister, client, history
  <2>7. Hold(t) \/ StopOld(t) \/ Start(t) => UNCHANGED <<owned, said, file, writer>>
    BY DEF Hold, StopOld, Start, history
  <2>8. HoldAsync(t) => UNCHANGED <<owned, said, file, writer>>
    BY DEF HoldAsync, history
  <2>9. CancelOld(t) \/ TakeOut(t) \/ StopTaken(t) => UNCHANGED <<owned, said, file, writer>>
    BY DEF CancelOld, TakeOut, StopTaken, history
  <2>. QED BY <1>1, <1>2, <2>2, <2>3, <2>4, <2>5, <2>6, <2>7, <2>8, <2>9 DEF CallStep
<1>3. ASSUME NEW c \in Client, Restart(c) PROVE OwnershipInv'
  <2>1. /\ owned' = [owned EXCEPT ![c] = file]
        /\ said' = [said EXCEPT ![c] = IF writer = c THEN said[c] ELSE file]
        /\ file' = file /\ writer' = writer
    BY <1>3 DEF Restart
  <2>. QED BY <2>1 DEF OwnershipInv
<1>4. Calls => UNCHANGED <<owned, said, file, writer>>
  BY CallsFacts DEF client
<1>5. Reservations => UNCHANGED <<owned, said, file, writer>>
  BY DEF Reservations, Reserve, EndReservation, client, history
<1>6. (\E s \in Leased : Lapse(s)) => UNCHANGED <<owned, said, file, writer>>
  BY DEF Lapse, client, history
<1>7. UNCHANGED vars => UNCHANGED <<owned, said, file, writer>>
  BY DEF vars, client, history
<1>. QED BY <1>1, <1>2, <1>3, <1>4, <1>5, <1>6, <1>7, NextActs

(* What a process was told it had registered, it may still change after it  *)
(* was ended and started again, unless another process or a failed write   *)
(* came between (OwnershipStore.add, _save_to_disk and _load_from_disk).    *)
THEOREM SpecOwnershipSurvives == Spec => []OwnershipSurvives
<1>1. Init => OwnershipInv
  BY DEF Init, OwnershipInv
<1>2. OwnershipInv => OwnershipSurvives
  BY DEF OwnershipInv, OwnershipSurvives
<1>. QED BY <1>1, <1>2, NextOwnership, SpecRenewerInv, PTL DEF Spec

-----------------------------------------------------------------------------
(* The cache of endpoints.                                                 *)

AnyCard == [kind: {"none", "blank", "team", "leased"}, endpoint: Endpoint \cup {Unknown}]

(* What a call is to put is a card, and only agents have cached endpoints. *)
WellCarded(k) == k.card \in AnyCard /\ (k.op = "replace" \/ k.at = "cache" => k.on \in Agent)

(* A call of c has put a card of s and not yet remembered the endpoint. *)
Caching(c, s) ==
  \E t \in Thread : /\ call[t].by = c /\ call[t].on = s
                    /\ call[t].op \in {"register", "replace"} /\ call[t].at \in {"own", "cache"}

CacheRight(c, s) ==
  endpoint[c][s] # Unknown /\ card[s] # NoCard /\ <<c, s>> \notin moved /\ ~Caching(c, s)
    => endpoint[c][s] = card[s].endpoint

EndpointTyped ==
  /\ card \in [Service -> AnyCard]
  /\ endpoint \in [Client -> [Agent -> Endpoint \cup {Unknown}]]
  /\ \A t \in Thread : WellCarded(call[t])

EndpointInv == EndpointTyped /\ \A c \in Client, s \in Agent : CacheRight(c, s)

LEMMA NoCardFacts ==
  NoCard \in AnyCard /\ NoCall.card = NoCard /\ WellCarded(NoCall)
BY NoCallFacts DEF NoCard, AnyCard, NoCall, WellCarded

(* A step that changes the card of at most one service s, and no cache: it   *)
(* leaves out no cache of s that is behind.                                *)
LEMMA CardStep ==
  ASSUME EndpointInv, EndpointTyped', NEW s,
         UNCHANGED endpoint, moved \subseteq moved',
         \A a \in Agent : a # s => card'[a] = card[a],
         \A c \in Client, a \in Agent : Caching(c, a) => Caching(c, a)',
         s \in Agent =>
           \A c \in Client :
             \/ card'[s] = NoCard \/ <<c, s>> \in moved' \/ Caching(c, s)'
             \/ endpoint[c][s] \in {Unknown, card'[s].endpoint}
  PROVE  EndpointInv'
<1>1. ASSUME NEW c \in Client, NEW a \in Agent
      PROVE  CacheRight(c, a)'
  <2>1. CASE a = s
    BY <2>1 DEF CacheRight
  <2>2. CASE a # s
    <3>1. CacheRight(c, a) /\ card'[a] = card[a] /\ (Caching(c, a) => Caching(c, a)')
      BY <2>2 DEF EndpointInv
    <3>. QED BY <3>1 DEF CacheRight
  <2>. QED BY <2>1, <2>2
<1>. QED BY <1>1 DEF EndpointInv

(* A step of thread t that was not about to remember an endpoint. *)
LEMMA CachingStays ==
  ASSUME NEW t \in Thread, call[t].op \notin {"register", "replace"} \/ call[t].at \notin {"own", "cache"},
         \A u \in Thread : u # t => call'[u] = call[u]
  PROVE  \A c \in Client, a \in Agent : Caching(c, a) => Caching(c, a)'
<1>. SUFFICES ASSUME NEW c \in Client, NEW a \in Agent, Caching(c, a)
              PROVE  Caching(c, a)'
  OBVIOUS
<1>1. PICK u \in Thread : /\ call[u].by = c /\ call[u].on = a
                          /\ call[u].op \in {"register", "replace"} /\ call[u].at \in {"own", "cache"}
  BY DEF Caching
<1>2. u # t
  BY <1>1
<1>. QED BY <1>1, <1>2 DEF Caching

LEMMA NoCardMoves ==
  ASSUME EndpointInv, UNCHANGED <<card, endpoint, moved>>,
         \A u \in Thread : WellCarded(call'[u]),
         \A c \in Client, a \in Agent : Caching(c, a) => Caching(c, a)'
  PROVE  EndpointInv'
<1>1. EndpointTyped'
  BY DEF EndpointInv, EndpointTyped
<1>2. ASSUME NEW c \in Client, NEW a \in Agent
      PROVE  CacheRight(c, a)'
  BY DEF EndpointInv, CacheRight
<1>. QED BY <1>1, <1>2 DEF EndpointInv

LEMMA ResolveCard ==
  ASSUME CallsTyped, EndpointInv, NEW t \in Thread, call[t].by \in Client, call[t].on \in Service,
         Resolve(t)
  PROVE  WellCarded(call'[t])
<1>1. CASE Return(t)
  BY <1>1, ReturnFacts, NoCardFacts
<1>2. CASE ~Return(t)
  <2>. DEFINE c == call[t].by
              s == call[t].on
              e == IF endpoint[c][s] # Unknown THEN endpoint[c][s] ELSE card[s].endpoint
              new == [call[t] EXCEPT !.card.endpoint = e, !.at = "send", !.filled = TRUE]
  <2>1. call' = [call EXCEPT ![t].card.endpoint = e, ![t].at = "send", ![t].filled = TRUE]
    BY <1>2 DEF Resolve
  <2>2. IsCall(call[t]) /\ call[t].op = "replace" /\ WellCarded(call[t])
    BY DEF CallsTyped, Resolve, At, EndpointInv, EndpointTyped
  <2>3. s \in Agent /\ call[t].card \in AnyCard
    BY <2>2 DEF WellCarded
  <2>4. e \in Endpoint \cup {Unknown}
    BY <2>3 DEF EndpointInv, EndpointTyped, AnyCard
  <2>. HIDE DEF e
  <2>5. [call[t].card EXCEPT !.endpoint = e] \in AnyCard
    BY <2>3, <2>4 DEF AnyCard
  <2>6. new.on = s /\ new.card = [call[t].card EXCEPT !.endpoint = e]
    BY <2>2 DEF IsCall
  <2>7. call'[t] = new
    BY <2>1, <2>2 DEF CallsTyped, IsCall
  <2>. HIDE DEF new
  <2>. QED BY <2>3, <2>5, <2>6, <2>7 DEF WellCarded
<1>. QED BY <1>1, <1>2

LEMMA BeginEndpoints ==
  ASSUME RenewerInv, EndpointInv, NEW t \in Thread, NEW op, NEW c, NEW s, NEW new \in AnyCard,
         Begin(t, op, c, s, new), op = "replace" => s \in Agent
  PROVE  EndpointInv'
<1>1. /\ \A u \in Thread : u # t => call'[u] = call[u]
      /\ call[t] = NoCall
      /\ call'[t].op = op /\ call'[t].on = s /\ call'[t].card = new
      /\ call'[t].at \in {"resolve", "send"}
  BY BeginFacts DEF RenewerInv
<1>2. UNCHANGED <<card, endpoint, moved>>
  BY DEF Begin, client
<1>3. \A u \in Thread : WellCarded(call'[u])
  BY <1>1 DEF EndpointInv, EndpointTyped, WellCarded
<1>4. \A d \in Client, a \in Agent : Caching(d, a) => Caching(d, a)'
  BY <1>1, NoCallFacts, CachingStays
<1>. QED BY <1>2, <1>3, <1>4, NoCardMoves

(* A card is put: whoever has an older endpoint is behind, but the caller,   *)
(* if it is answered: it is to remember the new one.                       *)
LEMMA SendEndpoints ==
  ASSUME RenewerInv, EndpointInv, NEW t \in Thread, Send(t)
  PROVE  EndpointInv'
<1>. DEFINE c == call[t].by
            s == call[t].on
            new == call[t].card
<1>1. /\ call[t].op \in {"register", "replace"} /\ call[t].at = "send"
      /\ card' = [card EXCEPT ![s] = new] /\ endpoint' = endpoint
  BY DEF Send, At, Put, client
<1>2. c \in Client /\ s \in Service /\ new \in AnyCard /\ CallsTyped
  <2>1. WellMade(call[t]) /\ WellCarded(call[t]) /\ CallsTyped
    BY DEF RenewerInv, EndpointInv, EndpointTyped
  <2>. QED BY <1>1, <2>1 DEF WellMade, WellCarded
<1>3. card' \in [Service -> AnyCard] /\ card'[s] = new /\ \A a \in Agent : a # s => card'[a] = card[a]
  <2>1. Agent \subseteq Service
    BY DEF Service
  <2>. QED BY <1>1, <1>2, <2>1 DEF EndpointInv, EndpointTyped
<1>4. CASE Then(t, "own") /\ moved' = moved \cup Behind(c, s, new.endpoint)
  <2>1. /\ \A u \in Thread : u # t => call'[u] = call[u]
        /\ call'[t].op = call[t].op /\ call'[t].by = c /\ call'[t].on = s
        /\ call'[t].at = "own" /\ call'[t].card = new
    BY <1>2, <1>4, ThenFacts
  <2>2. \A d \in Client, a \in Agent : Caching(d, a) => Caching(d, a)'
    BY <1>1, <2>1, CachingStays
  <2>3. \A u \in Thread : WellCarded(call'[u])
    BY <2>1 DEF EndpointInv, EndpointTyped, WellCarded
  <2>4. EndpointTyped'
    BY <1>1, <1>3, <2>3 DEF EndpointInv, EndpointTyped
  <2>5. PICK a : a = s
    OBVIOUS
  <2>6. ASSUME a \in Agent, NEW d \in Client
        PROVE  <<d, a>> \in moved' \/ Caching(d, a)' \/ endpoint[d][a] \in {Unknown, card'[a].endpoint}
    <3>1. CASE d = c
      <4>1. call'[t].by = d /\ call'[t].on = a
        BY <2>1, <2>5, <3>1
      <4>. QED BY <1>1, <2>1, <4>1 DEF Caching
    <3>2. CASE d # c
      BY <1>3, <1>4, <2>5, <2>6, <3>2 DEF Behind
    <3>. QED BY <3>1, <3>2
  <2>7. \A b \in Agent : b # a => card'[b] = card[b]
    BY <1>3, <2>5
  <2>8. endpoint' = endpoint /\ moved \subseteq moved'
    BY <1>1, <1>4
  <2>. QED BY <2>2, <2>4, <2>6, <2>7, <2>8, CardStep
<1>5. CASE Return(t) /\ moved' = moved \cup Behind(NoOne, s, new.endpoint)
  <2>1. (\A u \in Thread : u # t => call'[u] = call[u]) /\ call'[t] = NoCall
    BY <1>2, <1>5, ReturnFacts
  <2>2. \A d \in Client, a \in Agent : Caching(d, a) => Caching(d, a)'
    BY <1>1, <2>1, CachingStays
  <2>3. \A u \in Thread : WellCarded(call'[u])
    BY <2>1, NoCardFacts DEF EndpointInv, EndpointTyped
  <2>4. EndpointTyped'
    BY <1>1, <1>3, <2>3 DEF EndpointInv, EndpointTyped
  <2>5. NoOne \notin Client
    BY SdkClientAssumption
  <2>6. ASSUME s \in Agent, NEW d \in Client
        PROVE  <<d, s>> \in moved' \/ endpoint[d][s] \in {Unknown, new.endpoint}
    BY <1>5, <2>5, <2>6 DEF Behind
  <2>. QED BY <1>1, <1>3, <1>5, <2>2, <2>4, <2>6, CardStep
<1>6. \/ Then(t, "own") /\ moved' = moved \cup Behind(c, s, new.endpoint)
      \/ Return(t) /\ moved' = moved \cup Behind(NoOne, s, new.endpoint)
  BY DEF Send, Answered, Unanswered
<1>. QED BY <1>4, <1>5, <1>6

(* The caller remembers the endpoint that it put, and knows itself behind if *)
(* the card has another by now.                                            *)
LEMMA CacheEndpoints ==
  ASSUME RenewerInv, EndpointInv, NEW t \in Thread, Cache(t)
  PROVE  EndpointInv'
<1>. DEFINE c == call[t].by
            s == call[t].on
            e == call[t].card.endpoint
<1>1. /\ call[t].op \in {"register", "replace"} /\ call[t].at = "cache"
      /\ endpoint' = [endpoint EXCEPT ![c][s] = e] /\ card' = card
      /\ moved' = IF card[s].endpoint = e THEN moved \ {<<c, s>>} ELSE moved \cup {<<c, s>>}
      /\ Then(t, "release") \/ Return(t)
  BY DEF Cache, At, Known
<1>2. c \in Client /\ s \in Agent /\ e \in Endpoint \cup {Unknown} /\ CallsTyped
  <2>1. WellMade(call[t]) /\ WellCarded(call[t]) /\ CallsTyped
    BY DEF RenewerInv, EndpointInv, EndpointTyped
  <2>. QED BY <1>1, <2>1 DEF WellMade, WellCarded, AnyCard
<1>3. /\ endpoint' \in [Client -> [Agent -> Endpoint \cup {Unknown}]]
      /\ endpoint'[c][s] = e
      /\ \A d \in Client, a \in Agent : d # c \/ a # s => endpoint'[d][a] = endpoint[d][a]
  BY <1>1, <1>2 DEF EndpointInv, EndpointTyped
<1>4. \A u \in Thread : u # t => call'[u] = call[u]
  BY <1>1, <1>2, ThenFacts, ReturnFacts
<1>5. call'[t] = NoCall \/ (call'[t].op = call[t].op /\ call'[t].on = s /\ call'[t].card = call[t].card)
  BY <1>1, <1>2, ThenFacts, ReturnFacts
<1>6. \A u \in Thread : WellCarded(call'[u])
  BY <1>2, <1>4, <1>5, NoCardFacts DEF EndpointInv, EndpointTyped, WellCarded
<1>7. EndpointTyped'
  BY <1>1, <1>3, <1>6 DEF EndpointInv, EndpointTyped
<1>8. ASSUME NEW d \in Client, NEW a \in Agent
      PROVE  CacheRight(d, a)'
  <2>1. CASE d = c /\ a = s
    BY <1>1, <1>3, <2>1 DEF CacheRight
  <2>2. CASE d # c \/ a # s
    <3>1. Caching(d, a) => Caching(d, a)'
      <4>. SUFFICES ASSUME Caching(d, a) PROVE Caching(d, a)'
        OBVIOUS
      <4>1. PICK u \in Thread : /\ call[u].by = d /\ call[u].on = a
                                /\ call[u].op \in {"register", "replace"}
                                /\ call[u].at \in {"own", "cache"}
        BY DEF Caching
      <4>2. u # t
        BY <2>2, <4>1
      <4>. QED BY <1>4, <4>1, <4>2 DEF Caching
    <3>2. CacheRight(d, a) /\ endpoint'[d][a] = endpoint[d][a]
      BY <1>3, <2>2 DEF EndpointInv
    <3>3. <<d, a>> # <<c, s>>
      BY <2>2
    <3>4. <<d, a>> \in moved' <=> <<d, a>> \in moved
      BY <1>1, <3>3
    <3>. QED BY <1>1, <3>1, <3>2, <3>4 DEF CacheRight
  <2>. QED BY <2>1, <2>2
<1>. QED BY <1>7, <1>8 DEF EndpointInv

LEMMA UpdateEndpoints ==
  ASSUME RenewerInv, EndpointInv, NEW t \in Thread, Update(t)
  PROVE  EndpointInv'
<1>. DEFINE s == call[t].on
            e == call[t].card.endpoint
<1>1. /\ call[t].op = "update" /\ card' = [card EXCEPT ![s].endpoint = e] /\ endpoint' = endpoint
      /\ moved' = moved \cup Behind(NoOne, s, e) /\ Return(t)
  BY DEF Update, At, client
<1>2. s \in Service /\ e \in Endpoint \cup {Unknown} /\ CallsTyped
  <2>1. WellMade(call[t]) /\ WellCarded(call[t]) /\ CallsTyped
    BY DEF RenewerInv, EndpointInv, EndpointTyped
  <2>. QED BY <1>1, <2>1 DEF WellMade, WellCarded, AnyCard
<1>3. (\A u \in Thread : u # t => call'[u] = call[u]) /\ call'[t] = NoCall
  BY <1>1, <1>2, ReturnFacts
<1>4. card' \in [Service -> AnyCard] /\ card'[s].endpoint = e
      /\ \A a \in Service : a # s => card'[a] = card[a]
  <2>1. card \in [Service -> AnyCard]
    BY DEF EndpointInv, EndpointTyped
  <2>. QED BY <1>1, <1>2, <2>1 DEF AnyCard
<1>5. \A d \in Client, a \in Agent : Caching(d, a) => Caching(d, a)'
  BY <1>1, <1>3, CachingStays
<1>6. \A u \in Thread : WellCarded(call'[u])
  BY <1>3, NoCardFacts DEF EndpointInv, EndpointTyped
<1>7. EndpointTyped'
  BY <1>1, <1>4, <1>6 DEF EndpointInv, EndpointTyped
<1>8. NoOne \notin Client /\ Agent \subseteq Service
  BY SdkClientAssumption DEF Service
<1>9. ASSUME s \in Agent, NEW d \in Client
      PROVE  <<d, s>> \in moved' \/ endpoint[d][s] \in {Unknown, e}
  BY <1>1, <1>8, <1>9 DEF Behind
<1>. QED BY <1>1, <1>4, <1>5, <1>7, <1>8, <1>9, CardStep

LEMMA DeregisterEndpoints ==
  ASSUME RenewerInv, EndpointInv, NEW t \in Thread, Deregister(t)
  PROVE  EndpointInv'
<1>. DEFINE s == call[t].on
<1>1. /\ call[t].op = "deregister" /\ card' = [card EXCEPT ![s] = NoCard] /\ endpoint' = endpoint
      /\ moved' = moved /\ (Then(t, "disown") \/ Return(t))
  BY DEF Deregister, At, Answered, Unanswered, client, history
<1>2. s \in Service /\ CallsTyped
  <2>1. WellMade(call[t]) /\ CallsTyped
    BY DEF RenewerInv
  <2>. QED BY <1>1, <2>1 DEF WellMade
<1>3. \A u \in Thread : u # t => call'[u] = call[u]
  BY <1>1, <1>2, ThenFacts, ReturnFacts
<1>4. \/ call'[t] = NoCall
      \/ /\ call'[t].op = call[t].op /\ call'[t].on = s
         /\ call'[t].at = "disown" /\ call'[t].card = call[t].card
  BY <1>1, <1>2, ThenFacts, ReturnFacts
<1>5. \A u \in Thread : WellCarded(call'[u])
  BY <1>1, <1>3, <1>4, NoCardFacts DEF EndpointInv, EndpointTyped, WellCarded
<1>6. card' \in [Service -> AnyCard] /\ card'[s] = NoCard
      /\ \A a \in Service : a # s => card'[a] = card[a]
  BY <1>1, <1>2, NoCardFacts DEF EndpointInv, EndpointTyped
<1>7. EndpointTyped'
  BY <1>1, <1>5, <1>6 DEF EndpointInv, EndpointTyped
<1>8. \A d \in Client, a \in Agent : Caching(d, a) => Caching(d, a)'
  BY <1>1, <1>3, CachingStays
<1>9. Agent \subseteq Service
  BY DEF Service
<1>. QED BY <1>1, <1>6, <1>7, <1>8, <1>9, CardStep

(* The endpoint of what a process has deregistered is forgotten. *)
LEMMA DisownEndpoints ==
  ASSUME RenewerInv, EndpointInv, NEW t \in Thread, Disown(t)
  PROVE  EndpointInv'
<1>. DEFINE c == call[t].by
            s == call[t].on
<1>1. /\ call[t].op \in {"update", "deregister"} /\ call[t].at = "disown" /\ Return(t)
      /\ endpoint' = IF s \in Agent /\ call[t].op = "deregister"
                     THEN [endpoint EXCEPT ![c][s] = Unknown] ELSE endpoint
      /\ moved' = IF call[t].op = "deregister" THEN moved \ {<<c, s>>} ELSE moved
      /\ card' = card
  BY DEF Disown, At
<1>2. c \in Client /\ s \in Service /\ CallsTyped
  <2>1. WellMade(call[t]) /\ CallsTyped
    BY DEF RenewerInv
  <2>. QED BY <1>1, <2>1 DEF WellMade
<1>3. (\A u \in Thread : u # t => call'[u] = call[u]) /\ call'[t] = NoCall
  BY <1>1, <1>2, ReturnFacts
<1>4. endpoint' \in [Client -> [Agent -> Endpoint \cup {Unknown}]]
  BY <1>1, <1>2 DEF EndpointInv, EndpointTyped
<1>5. \A u \in Thread : WellCarded(call'[u])
  BY <1>3, NoCardFacts DEF EndpointInv, EndpointTyped
<1>6. EndpointTyped'
  BY <1>1, <1>4, <1>5 DEF EndpointInv, EndpointTyped
<1>7. \A d \in Client, a \in Agent : Caching(d, a) => Caching(d, a)'
  BY <1>1, <1>3, CachingStays
<1>8. ASSUME NEW d \in Client, NEW a \in Agent
      PROVE  CacheRight(d, a)'
  <2>1. CacheRight(d, a) /\ (Caching(d, a) => Caching(d, a)')
    BY <1>7 DEF EndpointInv
  <2>2. CASE d = c /\ a = s /\ call[t].op = "deregister"
    <3>1. endpoint'[d][a] = Unknown
      BY <1>1, <2>2 DEF EndpointInv, EndpointTyped
    <3>. QED BY <3>1 DEF CacheRight
  <2>3. CASE ~(d = c /\ a = s /\ call[t].op = "deregister")
    <3>1. endpoint'[d][a] = endpoint[d][a]
      BY <1>1, <1>2, <2>3 DEF EndpointInv, EndpointTyped
    <3>2. <<d, a>> \in moved => <<d, a>> \in moved'
      <4>1. CASE call[t].op = "deregister"
        <5>1. <<d, a>> # <<c, s>>
          BY <2>3, <4>1
        <5>. QED BY <1>1, <5>1
      <4>2. CASE call[t].op # "deregister"
        BY <1>1, <4>2
      <4>. QED BY <4>1, <4>2
    <3>. QED BY <1>1, <2>1, <3>1, <3>2 DEF CacheRight
  <2>. QED BY <2>2, <2>3
<1>. QED BY <1>6, <1>8 DEF EndpointInv

(* A process that ends takes its cache and its calls with it. *)
LEMMA RestartEndpoints ==
  ASSUME RenewerInv, EndpointInv, NEW c \in Client, Restart(c)
  PROVE  EndpointInv'
<1>1. /\ endpoint' = [endpoint EXCEPT ![c] = [s \in Agent |-> Unknown]]
      /\ call' = [t \in Thread |-> IF call[t].by = c THEN NoCall ELSE call[t]]
      /\ moved' = {m \in moved : m[1] # c}
      /\ card' = card
  BY DEF Restart
<1>2. \A u \in Thread : WellCarded(call'[u])
  BY <1>1, NoCardFacts DEF EndpointInv, EndpointTyped
<1>3. /\ endpoint' \in [Client -> [Agent -> Endpoint \cup {Unknown}]]
      /\ \A a \in Agent : endpoint'[c][a] = Unknown
      /\ \A d \in Client, a \in Agent : d # c => endpoint'[d][a] = endpoint[d][a]
  BY <1>1 DEF EndpointInv, EndpointTyped
<1>4. EndpointTyped'
  BY <1>1, <1>2, <1>3 DEF EndpointInv, EndpointTyped
<1>5. ASSUME NEW d \in Client, NEW a \in Agent
      PROVE  CacheRight(d, a)'
  <2>1. CASE d = c
    BY <1>3, <2>1 DEF CacheRight
  <2>2. CASE d # c
    <3>1. CacheRight(d, a) /\ endpoint'[d][a] = endpoint[d][a]
      BY <1>3, <2>2 DEF EndpointInv
    <3>2. <<d, a>> \in moved => <<d, a>> \in moved'
      BY <1>1, <2>2
    <3>3. Caching(d, a) => Caching(d, a)'
      BY <1>1, <2>2 DEF Caching
    <3>. QED BY <1>1, <3>1, <3>2, <3>3 DEF CacheRight
  <2>. QED BY <2>1, <2>2
<1>. QED BY <1>4, <1>5 DEF EndpointInv

LEMMA LapseEndpoints ==
  ASSUME EndpointInv, NEW s \in Leased, Lapse(s)
  PROVE  EndpointInv'
<1>1. card' = [card EXCEPT ![s] = NoCard] /\ UNCHANGED <<endpoint, moved, call>>
  BY DEF Lapse, client, history
<1>2. s \in Service /\ s \notin Agent /\ Agent \subseteq Service
  BY SdkClientAssumption DEF Service
<1>3. EndpointTyped'
  BY <1>1, NoCardFacts DEF EndpointInv, EndpointTyped
<1>4. \A a \in Agent : a # s => card'[a] = card[a]
  BY <1>1, <1>2 DEF EndpointInv, EndpointTyped
<1>5. \A c \in Client, a \in Agent : Caching(c, a) => Caching(c, a)'
  BY <1>1 DEF Caching
<1>. QED BY <1>1, <1>2, <1>3, <1>4, <1>5, CardStep

(* One step for each of a call's. *)
LEMMA CallEndpoints ==
  ASSUME RenewerInv, EndpointInv, NEW t \in Thread, CallStep(t)
  PROVE  EndpointInv'
<1>. USE DEF At
<1>1. CallsTyped /\ WellMade(call[t]) /\ WellCarded(call[t])
  BY DEF RenewerInv, EndpointInv, EndpointTyped
<1>2. ASSUME NEW where, Then(t, where), where # "cache", UNCHANGED <<card, endpoint, moved>>,
             call[t].op \notin {"register", "replace"} \/ call[t].at \notin {"own", "cache"}
      PROVE  EndpointInv'
  <2>1. /\ \A u \in Thread : u # t => call'[u] = call[u]
        /\ call'[t].op = call[t].op /\ call'[t].on = call[t].on
        /\ call'[t].at = where /\ call'[t].card = call[t].card
    BY <1>1, <1>2, ThenFacts
  <2>2. \A u \in Thread : WellCarded(call'[u])
    BY <1>1, <1>2, <2>1 DEF EndpointInv, EndpointTyped, WellCarded
  <2>3. \A c \in Client, a \in Agent : Caching(c, a) => Caching(c, a)'
    BY <1>2, <2>1, CachingStays
  <2>. QED BY <1>2, <2>2, <2>3, NoCardMoves
<1>3. ASSUME Return(t), UNCHANGED <<card, endpoint, moved>>,
             call[t].op \notin {"register", "replace"} \/ call[t].at \notin {"own", "cache"}
      PROVE  EndpointInv'
  <2>1. (\A u \in Thread : u # t => call'[u] = call[u]) /\ call'[t] = NoCall
    BY <1>1, <1>3, ReturnFacts
  <2>2. \A u \in Thread : WellCarded(call'[u])
    BY <2>1, NoCardFacts DEF EndpointInv, EndpointTyped
  <2>3. \A c \in Client, a \in Agent : Caching(c, a) => Caching(c, a)'
    BY <1>3, <2>1, CachingStays
  <2>. QED BY <1>3, <2>2, <2>3, NoCardMoves
<1>4. ASSUME NEW r, NEW d, NEW where, Notes(t, r, d, where), where # "cache",
             UNCHANGED <<card, endpoint, moved>>, call[t].at \notin {"own", "cache"}
      PROVE  EndpointInv'
  <2>1. /\ \A u \in Thread : u # t => call'[u] = call[u]
        /\ call'[t].op = call[t].op /\ call'[t].on = call[t].on
        /\ call'[t].at = where /\ call'[t].card = call[t].card
    BY <1>1, <1>4, HolderFacts
  <2>2. \A u \in Thread : WellCarded(call'[u])
    BY <1>1, <1>4, <2>1 DEF EndpointInv, EndpointTyped, WellCarded
  <2>3. \A c \in Client, a \in Agent : Caching(c, a) => Caching(c, a)'
    BY <1>4, <2>1, CachingStays
  <2>. QED BY <1>4, <2>2, <2>3, NoCardMoves
<1>5. CASE Own(t)
  <2>. DEFINE s == call[t].on
              where == IF s \in Agent THEN "cache" ELSE "hold"
  <2>1. /\ call[t].op \in {"register", "replace"} /\ call[t].at = "own"
        /\ UNCHANGED <<card, endpoint, moved>> /\ Then(t, where)
    BY <1>5 DEF Own
  <2>2. where = "cache" <=> s \in Agent
    OBVIOUS
  <2>. HIDE DEF where
  <2>3. /\ \A u \in Thread : u # t => call'[u] = call[u]
        /\ call'[t].op = call[t].op /\ call'[t].by = call[t].by /\ call'[t].on = s
        /\ call'[t].at = where /\ call'[t].card = call[t].card
    BY <1>1, <2>1, ThenFacts
  <2>4. \A u \in Thread : WellCarded(call'[u])
    BY <1>1, <2>2, <2>3 DEF EndpointInv, EndpointTyped, WellCarded
  <2>5. ASSUME NEW c \in Client, NEW a \in Agent, Caching(c, a)
        PROVE  Caching(c, a)'
    <3>1. PICK u \in Thread : /\ call[u].by = c /\ call[u].on = a
                              /\ call[u].op \in {"register", "replace"}
                              /\ call[u].at \in {"own", "cache"}
      BY <2>5 DEF Caching
    <3>2. /\ call'[u].by = c /\ call'[u].on = a /\ call'[u].op \in {"register", "replace"}
          /\ call'[u].at \in {"own", "cache"}
      BY <2>2, <2>3, <3>1
    <3>. QED BY <3>2 DEF Caching
  <2>. QED BY <2>1, <2>4, <2>5, NoCardMoves
<1>6. CASE Release(t)
  BY <1>3, <1>6 DEF Release, client
<1>7. CASE Resolve(t)
  <2>1. call[t].at = "resolve" /\ call[t].op = "replace" /\ UNCHANGED <<card, endpoint, moved>>
    BY <1>7 DEF Resolve, client, history
  <2>2. call[t].by \in Client /\ call[t].on \in Service
    BY <1>1, <2>1 DEF WellMade
  <2>3. WellCarded(call'[t]) /\ \A u \in Thread : u # t => call'[u] = call[u]
    BY <1>1, <1>7, <2>2, ResolveCard, ResolveFacts
  <2>4. \A u \in Thread : WellCarded(call'[u])
    BY <2>3 DEF EndpointInv, EndpointTyped
  <2>5. \A c \in Client, a \in Agent : Caching(c, a) => Caching(c, a)'
    BY <2>1, <2>3, CachingStays
  <2>. QED BY <2>1, <2>4, <2>5, NoCardMoves
<1>8. CASE NotFound(t)
  BY <1>2, <1>8 DEF NotFound, client, history
<1>9. CASE Hold(t)
  <2>1. PICK r \in Renewer :
          call' = [call EXCEPT ![t].renewer = r, ![t].old = held[call[t].by][call[t].on], ![t].at = "stop"]
    BY <1>9 DEF Hold
  <2>2. Notes(t, r, held[call[t].by][call[t].on], "stop")
    BY <2>1 DEF Notes
  <2>3. call[t].at = "hold" /\ UNCHANGED <<card, endpoint, moved>>
    BY <1>9 DEF Hold, history
  <2>. QED BY <1>4, <2>2, <2>3
<1>10. CASE HoldAsync(t) \/ TakeOut(t)
  <2>1. /\ call[t].at \notin {"own", "cache"} /\ UNCHANGED <<card, endpoint, moved>>
        /\ \/ call' = [call EXCEPT ![t].old = held[call[t].by][call[t].on], ![t].at = "cancel"]
           \/ call' = [call EXCEPT ![t].old = held[call[t].by][call[t].on], ![t].at = "stop"]
    BY <1>10 DEF HoldAsync, TakeOut, history
  <2>2. PICK where \in {"cancel", "stop"} :
          Notes(t, call[t].renewer, held[call[t].by][call[t].on], where)
    BY <2>1 DEF Notes
  <2>. QED BY <1>4, <2>1, <2>2
<1>11. CASE StopOld(t)
  BY <1>2, <1>11 DEF StopOld, history
<1>12. CASE Start(t)
  BY <1>3, <1>12 DEF Start, history
<1>13. CASE CancelOld(t) \/ StopTaken(t)
  BY <1>3, <1>13 DEF CancelOld, StopTaken, history
<1>. QED BY <1>5, <1>6, <1>7, <1>8, <1>9, <1>10, <1>11, <1>12, <1>13, SendEndpoints, CacheEndpoints,
            UpdateEndpoints, DeregisterEndpoints, DisownEndpoints DEF CallStep

LEMMA NextEndpoints == RenewerInv /\ EndpointInv /\ [Next]_vars => EndpointInv'
<1>. SUFFICES ASSUME RenewerInv, EndpointInv, [Next]_vars PROVE EndpointInv'
  OBVIOUS
<1>1. ASSUME NEW t \in Thread, NEW c \in Client, NEW s \in Service, NEW e \in Endpoint,
             CallRegister(t, c, s, e)
      PROVE  EndpointInv'
  <2>1. PICK new \in AnyCard : Begin(t, "register", c, s, new)
    BY <1>1 DEF CallRegister, AnyCard
  <2>. QED BY <2>1, BeginEndpoints
<1>2. ASSUME NEW t \in Thread, NEW c \in Client, NEW s \in Agent, NEW kind \in {"blank", "team"},
             NEW e \in Endpoint \cup {Unknown},
             NEW op \in {"replace", "update"}, CallOwned(t, op, c, s, [kind |-> kind, endpoint |-> e])
      PROVE  EndpointInv'
  <2>1. PICK new \in AnyCard : Begin(t, op, c, s, new)
    BY <1>2 DEF CallOwned, AnyCard
  <2>. QED BY <2>1, BeginEndpoints
<1>3. ASSUME NEW t \in Thread, NEW c \in Client, NEW s \in Service,
             CallOwned(t, "deregister", c, s, NoCard) \/ CallShutdown(t, c, s)
      PROVE  EndpointInv'
  <2>1. Begin(t, "deregister", c, s, NoCard) \/ Begin(t, "shutdown", c, s, NoCard)
    BY <1>3 DEF CallOwned, CallShutdown
  <2>. QED BY <2>1, NoCardFacts, BeginEndpoints
<1>4. ASSUME NEW t \in Thread, CallStep(t) PROVE EndpointInv'
  BY <1>4, CallEndpoints
<1>5. ASSUME NEW c \in Client, Restart(c) PROVE EndpointInv'
  BY <1>5, RestartEndpoints
<1>6. ASSUME NEW s \in Leased, Lapse(s) PROVE EndpointInv'
  BY <1>6, LapseEndpoints
<1>7. CASE UNCHANGED <<card, endpoint, moved, call>>
  <2>1. \A c \in Client, a \in Agent : Caching(c, a) => Caching(c, a)'
    BY <1>7 DEF Caching
  <2>. QED BY <1>7, <2>1, NoCardMoves DEF EndpointInv, EndpointTyped
<1>8. ASSUME NEW l \in Leader, NEW s \in Agent, Reserve(l, s) \/ EndReservation(l, s)
      PROVE  UNCHANGED <<card, endpoint, moved, call>>
  BY <1>8 DEF Reserve, EndReservation, client, history
<1>9. UNCHANGED vars => UNCHANGED <<card, endpoint, moved, call>>
  BY DEF vars, client, history
<1>10. Leased \subseteq Service
  BY DEF Service
<1>. QED BY <1>1, <1>2, <1>3, <1>4, <1>5, <1>6, <1>7, <1>8, <1>9, <1>10 DEF Next

(* A card completed from the cache of endpoints has the endpoint that the   *)
(* service has, unless the cache is known to be behind: a process's own      *)
(* update_agent, a lost answer or another process moved the service         *)
(* (replace_agent_card, _resolve_endpoint and _blank_endpoints).            *)
THEOREM SpecEndpointStands == Spec => []EndpointStands
<1>1. Init => EndpointInv
  BY NoCardFacts DEF Init, EndpointInv, EndpointTyped, CacheRight
<1>2. EndpointInv => EndpointStands
  BY DEF EndpointInv, CacheRight, Caching, EndpointStands, Calling
<1>. QED BY <1>1, <1>2, NextEndpoints, SpecRenewerInv, PTL DEF Spec
=============================================================================
