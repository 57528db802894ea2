---------------------------- MODULE Reservation ----------------------------
(***************************************************************************)
(* Reservation leases of RegistryService (register/service.py): one caller *)
(* claims up to n services of a namespace for ttl seconds.  The table of   *)
(* leases is swept lazily, under the service lock, by every operation.     *)
(*                                                                         *)
(* A request runs on a worker of the router's thread pool in two steps:    *)
(* Begin... is the code before `with self._lock` (argument and permission  *)
(* checks, and for three operations the reading of the monotonic clock),   *)
(* Commit... is the critical section.  Any number of steps of the clock    *)
(* and of the other workers may lie between the two.                       *)
(***************************************************************************)
EXTENDS Integers, FiniteSets

CONSTANTS
  Service,       \* service ids; integers, for the code walks them in sorted order
  Principal,     \* callers, and the holder ids they may name
  Admins,        \* the callers whose role is admin
  AuthRequired,  \* does the namespace require authentication?
  Worker,        \* threads of the router's pool (max_workers=2)
  Counts,        \* the values of n a request may carry
  Ttls,          \* the values of ttl_seconds a request may carry
  MaxTime,       \* bound on the clock
  Nothing        \* no holder, no service, no entry

ASSUME ReservationAssumption ==
  /\ Service \subseteq Int
  /\ Admins \subseteq Principal
  /\ AuthRequired \in BOOLEAN
  /\ Counts \subseteq Nat          \* n < 0 is a ValueError
  /\ Ttls \subseteq Nat \ {0}      \* ttl_seconds < 1 is a ValueError
  /\ MaxTime \in Nat
  /\ Nothing \notin Principal
  /\ Nothing \notin Service

VARIABLES
  now,      \* time.monotonic()
  owner,    \* _entries: the owner_id of each registered service, Nothing if absent
  leases,   \* _leases: the holder and expiry of each service's lease
  pending,  \* what each worker runs, with the values it has already read
  promise   \* history: until when each holder was told that it holds a service

reservationVars == <<now, owner, leases, pending, promise>>

Ops == {"idle", "reserve", "extend", "releaseAll", "releaseOne",
        "selfRelease", "isLeased"}

Lease == [holder: Principal \cup {Nothing}, expires: Nat]

Free == [holder |-> Nothing, expires |-> 0]

Call == [op: Ops, holder: Principal \cup {Nothing}, sid: Service \cup {Nothing},
         n: Nat, ttl: Nat, at: Nat]

CallOf(op, holder, sid, n, ttl, at) ==
  [op |-> op, holder |-> holder, sid |-> sid, n |-> n, ttl |-> ttl, at |-> at]

NoCall == CallOf("idle", Nothing, Nothing, 0, 0, 0)

(* _sweep_expired_leases_locked(t): what is left of the table.  A sweep      *)
(* that is one tick early is a mutation the properties must catch, and so   *)
(* are the other definitions below whose names begin with Mutant.          *)
MutantSwept(t) ==
  [s \in Service |-> IF leases[s].expires <= t + 1 THEN Free ELSE leases[s]]

Swept(t) == [s \in Service |-> IF leases[s].expires <= t THEN Free ELSE leases[s]]

(* Those the loop of reserve_services does not pass over.  `visible` stands *)
(* for what this module leaves abstract of an entry: it is in the output    *)
(* cache, it matches the filters, heartbeat finds it healthy.               *)
MutantUnleased(table, visible) == {s \in visible : owner[s] # Nothing}

Unleased(table, visible) ==
  {s \in visible : owner[s] # Nothing /\ table[s] = Free}

MutantHeldBy(table, h) == {s \in Service : leases[s].holder = h}

HeldBy(table, h) == {s \in Service : table[s].holder = h}

(* The new expiry: from the clock as the worker read it. *)
Until(call) == call.at + call.ttl

(* The services reserve_services claims out of the free ones: it walks them *)
(* in order and tests the count only after it has added one.                *)
FirstOf(free, n) ==
  LET before(s) == Cardinality({r \in free : r < s})
  IN  {s \in free : before(s) = 0 \/ before(s) < n}

(* release and extend act for a holder: the caller itself, or an admin. *)
ActsFor(c, h) == AuthRequired /\ c \notin Admins => h = c

(* _assert_owner, which the self-release path skips for an absent entry. *)
OwnsOrAbsent(c, s) ==
  AuthRequired /\ c \notin Admins => owner[s] \in {c, Nothing}

---------------------------------------------------------------------------
ReservationInit ==
  /\ now = 0
  /\ owner = [s \in Service |-> Nothing]
  /\ leases = [s \in Service |-> Free]
  /\ pending = [w \in Worker |-> NoCall]
  /\ promise = [s \in Service |-> [h \in Principal |-> 0]]

(* Time passes between any two steps; MaxTime bounds the instance.  The    *)
(* history forgets the promises that have run out.                        *)
Tick ==
  /\ now < MaxTime
  /\ now' = now + 1
  /\ promise' = [s \in Service |-> [h \in Principal |->
                   IF promise[s][h] > now' THEN promise[s][h] ELSE 0]]
  /\ UNCHANGED <<owner, leases, pending>>

(* register_* replaces the entry, whoever owns it; deregister removes it.   *)
(* Neither touches the leases.                                             *)
RegisterEntry(c, s) ==
  /\ owner' = [owner EXCEPT ![s] = c]
  /\ UNCHANGED <<now, leases, pending, promise>>

DeregisterEntry(c, s) ==
  /\ owner[s] # Nothing
  /\ AuthRequired /\ c \notin Admins => owner[s] = c
  /\ owner' = [owner EXCEPT ![s] = Nothing]
  /\ UNCHANGED <<now, leases, pending, promise>>

Begin(w, call) ==
  /\ pending[w] = NoCall
  /\ pending' = [pending EXCEPT ![w] = call]
  /\ UNCHANGED <<now, owner, leases, promise>>

(* The holder is the caller in a namespace that requires authentication,   *)
(* whatever the body says; else it is what the body says.                  *)
BeginReserve(w, c, h, n, ttl) ==
  /\ AuthRequired => h = c
  /\ Begin(w, CallOf("reserve", h, Nothing, n, ttl, now))

BeginExtend(w, c, h, ttl) ==
  /\ ActsFor(c, h)
  /\ Begin(w, CallOf("extend", h, Nothing, 0, ttl, now))

BeginReleaseAll(w, c, h) ==
  /\ ActsFor(c, h)
  /\ Begin(w, CallOf("releaseAll", h, Nothing, 0, 0, 0))

BeginReleaseOne(w, c, h, s) ==
  /\ ActsFor(c, h)
  /\ Begin(w, CallOf("releaseOne", h, s, 0, 0, 0))

(* The owner check is a critical section of its own. *)
BeginSelfRelease(w, c, s) ==
  /\ OwnsOrAbsent(c, s)
  /\ Begin(w, CallOf("selfRelease", Nothing, s, 0, 0, 0))

BeginIsLeased(w) ==
  Begin(w, CallOf("isLeased", Nothing, Nothing, 0, 0, now))

Finish(w, op) ==
  /\ pending[w].op = op
  /\ pending' = [pending EXCEPT ![w] = NoCall]
  /\ UNCHANGED <<now, owner>>

CommitReserve(w, visible) ==
  LET call == pending[w]
      swept == Swept(call.at)
      claimed == FirstOf(Unleased(swept, visible), call.n)
      until == Until(call)
  IN  /\ Finish(w, "reserve")
      /\ leases' = [s \in Service |->
           IF s \in claimed THEN [holder |-> call.holder, expires |-> until]
                            ELSE swept[s]]
      /\ promise' = [s \in Service |->
           IF s \in claimed THEN [promise[s] EXCEPT ![call.holder] = until]
                            ELSE promise[s]]

(* All the holder's live leases get one new expiry; with none it is a 404,  *)
(* but the sweep has been done.                                            *)
CommitExtend(w) ==
  LET call == pending[w]
      swept == Swept(call.at)
      owned == HeldBy(swept, call.holder)
      until == Until(call)
  IN  /\ Finish(w, "extend")
      /\ leases' = [s \in Service |->
           IF s \in owned THEN [swept[s] EXCEPT !.expires = until]
                          ELSE swept[s]]
      /\ promise' = [s \in Service |->
           IF s \in owned THEN [promise[s] EXCEPT ![call.holder] = until]
                          ELSE promise[s]]

(* Forget the leases of the services in `gone`, after a sweep at the time   *)
(* read inside the critical section.                                       *)
Forget(gone) ==
  /\ leases' = [s \in Service |-> IF s \in gone THEN Free ELSE Swept(now)[s]]
  /\ promise' = [s \in Service |->
       IF s \in gone THEN [promise[s] EXCEPT ![leases[s].holder] = 0]
                     ELSE promise[s]]

CommitReleaseAll(w) ==
  /\ Finish(w, "releaseAll")
  /\ Forget(HeldBy(Swept(now), pending[w].holder))

MutantReleaseOne(w) ==
  /\ Finish(w, "releaseOne")
  /\ Forget({pending[w].sid})

(* A lease of another holder is a 403 and stays. *)
CommitReleaseOne(w) ==
  /\ Finish(w, "releaseOne")
  /\ Forget({pending[w].sid} \cap HeldBy(Swept(now), pending[w].holder))

CommitSelfRelease(w) ==
  /\ Finish(w, "selfRelease")
  /\ Forget({s \in Service : s = pending[w].sid /\ Swept(now)[s] # Free})

CommitIsLeased(w) ==
  /\ Finish(w, "isLeased")
  /\ leases' = Swept(pending[w].at)
  /\ UNCHANGED promise

ReservationNext ==
  \/ Tick
  \/ \E c \in Principal, s \in Service : RegisterEntry(c, s) \/ DeregisterEntry(c, s)
  \/ \E w \in Worker :
       \/ \E c, h \in Principal :
            \/ \E n \in Counts, ttl \in Ttls : BeginReserve(w, c, h, n, ttl)
            \/ \E ttl \in Ttls : BeginExtend(w, c, h, ttl)
            \/ BeginReleaseAll(w, c, h)
            \/ \E s \in Service : BeginReleaseOne(w, c, h, s)
       \/ \E c \in Principal, s \in Service : BeginSelfRelease(w, c, s)
       \/ BeginIsLeased(w)
       \/ \E visible \in SUBSET Service : CommitReserve(w, visible)
       \/ CommitExtend(w)
       \/ CommitReleaseAll(w)
       \/ CommitReleaseOne(w)
       \/ CommitSelfRelease(w)
       \/ CommitIsLeased(w)

ReservationSpec == ReservationInit /\ [][ReservationNext]_reservationVars

---------------------------------------------------------------------------
(* Every variable has its type. *)
ReservationTypeOK ==
  /\ now \in Nat
  /\ owner \in [Service -> Principal \cup {Nothing}]
  /\ leases \in [Service -> Lease]
  /\ pending \in [Worker -> Call]
  /\ promise \in [Service -> [Principal -> Nat]]

(* What a holder was told is true: until the time it was given, and unless *)
(* the lease was released, the table has that holder's lease, whatever     *)
(* stale clock readings the other workers swept or claimed with.           *)
PromiseKept ==
  \A s \in Service, h \in Principal :
    promise[s][h] > now => leases[s] = [holder |-> h, expires |-> promise[s][h]]

(* reserve_services is an "atomic filter-AND-claim": no two holders are at *)
(* any time both entitled to one service.                                  *)
NoDoubleGrant ==
  \A s \in Service, g, h \in Principal :
    promise[s][g] > now /\ promise[s][h] > now => g = h

(* The worker whose critical section the step is. *)
Commits(w, op) == pending[w].op = op /\ pending'[w] = NoCall

(* A live lease is taken from its holder, or shortened, only by a call     *)
(* made for that holder or by the self-release of that service: never by   *)
(* another holder's reserve, extend or release, nor by a sweep.            *)
LeaseChangesForItsHolder ==
  [][\A s \in Service :
       leases[s].expires > now /\ leases'[s] # leases[s] =>
         \E w \in Worker :
           \/ /\ pending[w].holder = leases[s].holder
              /\ \/ Commits(w, "releaseAll")
                 \/ Commits(w, "releaseOne") /\ pending[w].sid = s
                 \/ Commits(w, "extend") /\ leases'[s].holder = leases[s].holder
           \/ Commits(w, "selfRelease") /\ pending[w].sid = s]_reservationVars

(* extend_reservation moves only leases that were live when the call read  *)
(* the clock: a lease lost before the call is not revived by it.           *)
ExtendMovesOnlyLiveLeases ==
  [][\A w \in Worker, s \in Service :
       Commits(w, "extend") /\ leases'[s].expires > leases[s].expires =>
         /\ leases[s].expires > pending[w].at
         /\ leases[s].holder = pending[w].holder]_reservationVars
===========================================================================
