---------------------------- MODULE AccessProofs ----------------------------
(***************************************************************************)
(* For any number of keys, principals, failing writes, workers and requests, *)
(* and any settings:                                                       *)
(* what the authentication store promises of keys, that a revoked one stays *)
(* revoked and an issued one works, through restarts and resets;            *)
(* what a dataset promises, that it has all its files or none and that its   *)
(* settings are what was last answered;                                    *)
(* and what the two promise together, that nobody without a key gets past   *)
(* the flag of a dataset.                                                  *)
(***************************************************************************)
EXTENDS Access, TLAPS

Principals == [PrincipalId -> Principal \cup {NoPrincipal}]
Keys == [KeyId -> ApiKey \cup {NoKey}]
Told == [issued: SUBSET KeyId, revoked: SUBSET KeyId, disabled: SUBSET PrincipalId]
Doubts == {<<"key", k>> : k \in KeyId} \cup {<<"principal", p>> : p \in PrincipalId}

Dead(key) == key = NoKey \/ key.revoked

(* Keys are numbered as they are issued. *)
Fresh ==
  \A k \in KeyId : k > made.keys =>
    keys[k] = NoKey /\ files.keys[k] = NoKey /\ k \notin told.issued \cup told.revoked

(* What was revoked is so in memory and on disk. *)
Gone ==
  \A k \in KeyId : Sure(k) =>
    /\ k \in told.revoked => Dead(keys[k])
    /\ k \in told.revoked \/ keys[k].revoked => Dead(files.keys[k])

(* Without a reset the files are the memory, but for what a failed write   *)
(* was about, and what was issued is in both.                              *)
KeyKept(k) ==
  <<"key", k>> \notin doubtful =>
    /\ files.keys[k] = keys[k]
    /\ k \in told.issued /\ k \notin told.revoked =>
         /\ keys[k] # NoKey /\ ~keys[k].revoked /\ k \in index
         /\ <<"principal", keys[k].of>> \notin doubtful => principals[keys[k].of] # NoPrincipal

PrincipalKept(p) ==
  <<"principal", p>> \notin doubtful =>
    /\ files.principals[p] = principals[p]
    /\ principals[p].disabled => p \in told.disabled

Kept ==
  replaced = "no" => (\A k \in KeyId : KeyKept(k)) /\ (\A p \in PrincipalId : PrincipalKept(p))

(* The files of a reset have an admin with a key, or nothing. *)
Anew ==
  replaced = "yes" =>
    /\ \A k \in KeyId : files.keys[k] # NoKey =>
         ~files.keys[k].revoked /\ files.principals[files.keys[k].of] # NoPrincipal
    /\ \A p \in PrincipalId : ~files.principals[p].disabled

AuthInv == AuthTypeOK /\ Fresh /\ Gone /\ Kept /\ Anew

-----------------------------------------------------------------------------
LEMMA Constructors ==
  /\ NoKey \notin ApiKey /\ ~NoKey.revoked
  /\ NoPrincipal \notin Principal /\ ~NoPrincipal.disabled
  /\ Admin \in Principal /\ ~Admin.disabled
  /\ Nobody \in Principals /\ NoKeys \in Keys
  /\ \A k \in ApiKey : k.of \in PrincipalId /\ k.revoked \in BOOLEAN
  /\ \A p \in PrincipalId : [of |-> p, revoked |-> FALSE] \in ApiKey
<1>1. NoKey \notin ApiKey /\ ~NoKey.revoked
  BY DEF NoKey, ApiKey, PrincipalId
<1>2. NoPrincipal \notin Principal /\ ~NoPrincipal.disabled
  BY DEF NoPrincipal, Principal, Role
<1>3. Admin \in Principal /\ ~Admin.disabled
  BY DEF Admin, Principal, Role
<1>4. Nobody \in Principals /\ NoKeys \in Keys
  BY DEF Nobody, NoKeys, Principals, Keys
<1>5. /\ \A k \in ApiKey : k.of \in PrincipalId /\ k.revoked \in BOOLEAN
      /\ \A p \in PrincipalId : [of |-> p, revoked |-> FALSE] \in ApiKey
  BY DEF ApiKey
<1>. QED BY <1>1, <1>2, <1>3, <1>4, <1>5

LEMMA TypeFacts ==
  ASSUME AuthTypeOK
  PROVE  /\ principals \in Principals /\ keys \in Keys /\ index \subseteq KeyId
         /\ files.principals \in Principals /\ files.keys \in Keys
         /\ files = [principals |-> files.principals, keys |-> files.keys]
         /\ made.principals \in PrincipalId /\ made.keys \in KeyId
         /\ made = [principals |-> made.principals, keys |-> made.keys]
         /\ told \in Told /\ doubtful \subseteq Doubts
         /\ told.issued \subseteq KeyId /\ told.revoked \subseteq KeyId
         /\ told.disabled \subseteq PrincipalId
         /\ loaded \in BOOLEAN /\ failures \in 0 .. MaxFailures
         /\ replaced \in {"no", "yes", "undone"}
BY DEF AuthTypeOK, Principals, Keys, Told, Doubts

(* What Persist does: the write succeeds and the caller is answered, or it *)
(* fails, and keys.json is as it was.                                      *)
LEMMA PersistFacts ==
  ASSUME AuthTypeOK, NEW ps \in Principals, NEW ks \in Keys,
         NEW todo \in {{"keys"}, {"principals"}, {"principals", "keys"}},
         NEW answer \in Told, NEW about \in SUBSET Doubts,
         Persist(ps, ks, todo, answer, about)
  PROVE  /\ principals' = ps /\ keys' = ks
         /\ replaced' \in {"no", "undone"} /\ (replaced' = "no" => replaced = "no")
         /\ failures' \in 0 .. MaxFailures
         /\ \E fp \in Principals, fk \in Keys :
              /\ files' = [principals |-> fp, keys |-> fk]
              /\ fp \in {files.principals, ps}
              /\ \/ /\ told' = answer /\ doubtful' = doubtful
                    /\ "keys" \in todo => fk = ks
                    /\ "keys" \notin todo => fk = files.keys
                    /\ "principals" \in todo => fp = ps
                    /\ "principals" \notin todo => fp = files.principals
                 \/ /\ told' = told /\ doubtful' = doubtful \cup about
                    /\ fk = files.keys
                    /\ "principals" \notin todo => fp = files.principals
<1>1. /\ files.principals \in Principals /\ files.keys \in Keys
      /\ replaced \in {"no", "yes", "undone"} /\ failures \in 0 .. MaxFailures
  BY TypeFacts
<1>2. principals' = ps /\ keys' = ks /\ replaced' = IF replaced = "yes" THEN "undone" ELSE replaced
  BY DEF Persist
<1>3. CASE files' = Written(ps, ks, todo) /\ told' = answer /\ UNCHANGED <<failures, doubtful>>
  <2>. DEFINE fp == IF "principals" \in todo THEN ps ELSE files.principals
              fk == IF "keys" \in todo THEN ks ELSE files.keys
  <2>1. files' = [principals |-> fp, keys |-> fk] /\ fp \in Principals /\ fk \in Keys
    BY <1>1, <1>3 DEF Written
  <2>2. /\ fp \in {files.principals, ps}
        /\ "keys" \in todo => fk = ks
        /\ "keys" \notin todo => fk = files.keys
        /\ "principals" \in todo => fp = ps
        /\ "principals" \notin todo => fp = files.principals
    OBVIOUS
  <2>. HIDE DEF fp, fk
  <2>. QED BY <1>1, <1>2, <1>3, <2>1, <2>2
<1>4. CASE /\ failures < MaxFailures /\ failures' = failures + 1
           /\ \E done \in {{}, todo \ {"keys"}} \ {todo} : files' = Written(ps, ks, done)
           /\ doubtful' = doubtful \cup about
           /\ UNCHANGED told
  <2>1. PICK done \in {{}, todo \ {"keys"}} \ {todo} : files' = Written(ps, ks, done)
    BY <1>4
  <2>. DEFINE fp == IF "principals" \in done THEN ps ELSE files.principals
  <2>2. "keys" \notin done /\ ("principals" \notin todo => "principals" \notin done)
    OBVIOUS
  <2>3. files' = [principals |-> fp, keys |-> files.keys]
    BY <2>1, <2>2 DEF Written
  <2>4. /\ fp \in {files.principals, ps} /\ fp \in Principals
        /\ "principals" \notin todo => fp = files.principals
    BY <1>1, <2>2
  <2>. HIDE DEF fp
  <2>5. failures' \in 0 .. MaxFailures
    BY <1>1, <1>4, AuthStoreAssumption
  <2>. QED BY <1>1, <1>2, <1>4, <2>3, <2>4, <2>5
<1>. QED BY <1>3, <1>4 DEF Persist

-----------------------------------------------------------------------------
(* One step per request of an admin. *)

(* Numbers: the next key is not in use yet. *)
LEMMA NextKey ==
  ASSUME AuthInv, made.keys + 1 \in KeyId
  PROVE  LET k == made.keys + 1
         IN  /\ keys[k] = NoKey /\ files.keys[k] = NoKey
             /\ k \notin told.issued \cup told.revoked
             /\ \A j \in KeyId : j > k => j > made.keys /\ j # k
<1>1. made.keys \in Nat
  BY TypeFacts DEF AuthInv, KeyId
<1>. QED BY <1>1 DEF AuthInv, Fresh, KeyId

(* What holds of a key. *)
KeyInv(j) ==
  /\ j \in told.revoked => Dead(keys[j])
  /\ j \in told.revoked \/ keys[j].revoked => Dead(files.keys[j])
  /\ KeyKept(j)

(* Keys and principals that a request is not about. *)
LEMMA OtherKey ==
  ASSUME AuthInv, replaced = "no", doubtful \subseteq doubtful',
         NEW j \in KeyId, <<"key", j>> \notin doubtful',
         keys'[j] = keys[j], files'.keys[j] \in {keys[j], files.keys[j]},
         j \in index => j \in index',
         j \in told'.revoked <=> j \in told.revoked,
         j \in told'.issued <=> j \in told.issued,
         \A q \in PrincipalId : principals[q] # NoPrincipal => principals'[q] # NoPrincipal
  PROVE  KeyInv(j)'
<1>1. <<"key", j>> \notin doubtful
  OBVIOUS
<1>2. KeyKept(j) /\ files.keys[j] = keys[j]
  BY <1>1 DEF AuthInv, Kept, KeyKept
<1>3. files'.keys[j] = keys'[j]
  BY <1>2
<1>4. keys[j] # NoKey => keys[j].of \in PrincipalId
  BY TypeFacts, Constructors DEF AuthInv, Keys
<1>5. Sure(j)
  BY <1>1 DEF Sure
<1>6. /\ j \in told.revoked => Dead(keys[j])
      /\ j \in told.revoked \/ keys[j].revoked => Dead(files.keys[j])
  BY <1>5 DEF AuthInv, Gone
<1>7. KeyKept(j)'
  BY <1>1, <1>2, <1>3, <1>4 DEF KeyKept
<1>. QED BY <1>2, <1>3, <1>6, <1>7 DEF KeyInv

LEMMA OtherPrincipal ==
  ASSUME AuthInv, replaced = "no", doubtful \subseteq doubtful',
         NEW q \in PrincipalId, <<"principal", q>> \notin doubtful',
         principals'[q] = principals[q],
         files'.principals[q] \in {principals[q], files.principals[q]},
         q \in told'.disabled <=> q \in told.disabled
  PROVE  PrincipalKept(q)'
<1>1. /\ files.principals[q] = principals[q]
      /\ principals[q].disabled => q \in told.disabled
  BY DEF AuthInv, Kept, PrincipalKept
<1>. QED BY <1>1 DEF PrincipalKept

LEMMA RequestInv ==
  ASSUME AuthTypeOK', Fresh', replaced' \in {"no", "undone"},
         replaced' = "no" => /\ \A j \in KeyId : <<"key", j>> \notin doubtful' => KeyInv(j)'
                             /\ \A q \in PrincipalId :
                                  <<"principal", q>> \notin doubtful' => PrincipalKept(q)'
  PROVE  AuthInv'
<1>1. ASSUME replaced' = "no" PROVE Gone' /\ Kept'
  <2>1. Gone'
    BY <1>1 DEF Gone, Sure, KeyInv
  <2>2. Kept'
    BY <1>1 DEF Kept, KeyInv, KeyKept, PrincipalKept
  <2>. QED BY <2>1, <2>2
<1>2. ASSUME replaced' # "no" PROVE Gone' /\ Kept'
  <2>1. replaced' = "undone"
    BY <1>2
  <2>. QED BY <2>1 DEF Gone, Kept, Sure
<1>3. Anew'
  BY DEF Anew
<1>. QED BY <1>1, <1>2, <1>3 DEF AuthInv

LEMMA CreatePrincipalStep ==
  ASSUME AuthInv, NEW role \in Role, NEW scoped \in BOOLEAN, CreatePrincipal(role, scoped)
  PROVE  AuthInv'
<1>. DEFINE p == made.principals + 1
            k == made.keys + 1
            new == [role |-> role, scoped |-> scoped, disabled |-> FALSE]
            key == [of |-> p, revoked |-> FALSE]
            ps == [principals EXCEPT ![p] = new]
            ks == [keys EXCEPT ![k] = key]
            answer == [told EXCEPT !.issued = @ \cup {k}]
            about == {<<"key", k>>, <<"principal", p>>}
<1>1. p \in PrincipalId /\ k \in KeyId
  BY DEF CreatePrincipal
<1>2. /\ new \in Principal /\ ~new.disabled
      /\ key \in ApiKey /\ key.of = p /\ ~key.revoked
      /\ key # NoKey /\ new # NoPrincipal
  <2>1. new \in Principal /\ ~new.disabled
    BY DEF Principal
  <2>2. key \in ApiKey /\ key.of = p /\ ~key.revoked
    BY <1>1 DEF ApiKey
  <2>. QED BY <2>1, <2>2, Constructors
<1>3. /\ ps \in Principals /\ ks \in Keys /\ about \in SUBSET Doubts
  BY <1>1, <1>2, TypeFacts DEF AuthInv, Principals, Keys, Doubts
<1>4. /\ answer \in Told /\ answer.issued = told.issued \cup {k}
      /\ answer.revoked = told.revoked /\ answer.disabled = told.disabled
  BY <1>1, TypeFacts DEF AuthInv, Told
<1>5. /\ Persist(ps, ks, {"principals", "keys"}, answer, about)
      /\ made' = [principals |-> p, keys |-> k] /\ index' = index \cup {k}
      /\ loaded' = loaded
  BY DEF CreatePrincipal
<1>6. /\ keys \in Keys /\ principals \in Principals
      /\ files.keys \in Keys /\ files.principals \in Principals
      /\ index \subseteq KeyId /\ loaded \in BOOLEAN /\ told \in Told /\ doubtful \subseteq Doubts
  BY TypeFacts DEF AuthInv
<1>7. /\ ks[k] = key /\ \A j \in KeyId : j # k => ks[j] = keys[j]
      /\ ps[p] = new /\ \A q \in PrincipalId : q # p => ps[q] = principals[q]
  BY <1>1, <1>6 DEF Keys, Principals
<1>8. /\ keys[k] = NoKey /\ files.keys[k] = NoKey
      /\ k \notin told.issued /\ k \notin told.revoked
      /\ \A j \in KeyId : j > k => j > made.keys /\ j # k
  BY <1>1, NextKey
<1>. HIDE DEF ps, ks, answer, about, new, key, p, k
<1>9. PICK fp \in Principals, fk \in Keys :
        /\ files' = [principals |-> fp, keys |-> fk]
        /\ fp \in {files.principals, ps}
        /\ \/ told' = answer /\ doubtful' = doubtful /\ fk = ks /\ fp = ps
           \/ told' = told /\ doubtful' = doubtful \cup about /\ fk = files.keys
  BY <1>3, <1>4, <1>5, PersistFacts DEF AuthInv
<1>10. /\ principals' = ps /\ keys' = ks
       /\ replaced' \in {"no", "undone"} /\ (replaced' = "no" => replaced = "no")
       /\ failures' \in 0 .. MaxFailures
  BY <1>3, <1>4, <1>5, PersistFacts DEF AuthInv
<1>11. files'.principals = fp /\ files'.keys = fk
  BY <1>9
<1>12. AuthTypeOK'
  BY <1>1, <1>3, <1>4, <1>5, <1>6, <1>9, <1>10
     DEF AuthTypeOK, Principals, Keys, Told, Doubts
<1>13. Fresh'
  <2>. SUFFICES ASSUME NEW j \in KeyId, j > made'.keys
                PROVE  keys'[j] = NoKey /\ files'.keys[j] = NoKey
                       /\ j \notin told'.issued \cup told'.revoked
    BY DEF Fresh
  <2>1. j > k
    BY <1>5
  <2>2. j > made.keys /\ j # k
    BY <1>8, <2>1
  <2>3. keys[j] = NoKey /\ files.keys[j] = NoKey /\ j \notin told.issued \cup told.revoked
    BY <2>2 DEF AuthInv, Fresh
  <2>. QED BY <1>4, <1>7, <1>9, <1>10, <1>11, <2>2, <2>3
<1>14. ASSUME replaced' = "no"
       PROVE  /\ \A j \in KeyId : <<"key", j>> \notin doubtful' => KeyInv(j)'
              /\ \A q \in PrincipalId : <<"principal", q>> \notin doubtful' => PrincipalKept(q)'
  <2>1. replaced = "no" /\ doubtful \subseteq doubtful'
    BY <1>9, <1>10, <1>14
  <2>2. ASSUME NEW j \in KeyId, <<"key", j>> \notin doubtful' PROVE KeyInv(j)'
    <3>1. CASE j = k
      <4>1. told' = answer /\ fk = ks /\ fp = ps
        BY <1>9, <2>2, <3>1 DEF about
      <4>2. /\ keys'[j] = key /\ files'.keys[j] = key /\ j \notin told'.revoked
            /\ j \in index' /\ principals'[p] # NoPrincipal
        BY <1>2, <1>4, <1>5, <1>7, <1>8, <1>10, <1>11, <3>1, <4>1
      <4>. QED BY <1>2, <4>2 DEF KeyKept, KeyInv
    <3>2. CASE j # k
      <4>1. /\ j \in told'.revoked <=> j \in told.revoked
            /\ j \in told'.issued <=> j \in told.issued
        BY <1>4, <1>9, <3>2
      <4>2. keys'[j] = keys[j] /\ (j \in index => j \in index')
        BY <1>5, <1>7, <1>10, <3>2
      <4>3. files'.keys[j] \in {keys[j], files.keys[j]}
        BY <1>7, <1>9, <1>11, <3>2
      <4>4. \A q \in PrincipalId : principals[q] # NoPrincipal => principals'[q] # NoPrincipal
        BY <1>2, <1>7, <1>10
      <4>. QED BY <2>1, <2>2, <4>1, <4>2, <4>3, <4>4, OtherKey
    <3>. QED BY <3>1, <3>2
  <2>3. ASSUME NEW q \in PrincipalId, <<"principal", q>> \notin doubtful'
        PROVE  PrincipalKept(q)'
    <3>1. CASE q = p
      <4>1. fp = ps
        BY <1>9, <2>3, <3>1 DEF about
      <4>. QED BY <1>2, <1>7, <1>10, <1>11, <3>1, <4>1 DEF PrincipalKept
    <3>2. CASE q # p
      <4>1. /\ principals'[q] = principals[q]
            /\ files'.principals[q] \in {principals[q], files.principals[q]}
        BY <1>7, <1>9, <1>10, <1>11, <3>2
      <4>2. told'.disabled = told.disabled
        BY <1>4, <1>9
      <4>. QED BY <2>1, <2>3, <4>1, <4>2, OtherPrincipal
    <3>. QED BY <3>1, <3>2
  <2>. QED BY <2>2, <2>3
<1>. QED BY <1>10, <1>12, <1>13, <1>14, RequestInv

LEMMA CreateKeyStep ==
  ASSUME AuthInv, NEW p \in PrincipalId, CreateKey(p)
  PROVE  AuthInv'
<1>. DEFINE k == made.keys + 1
            key == [of |-> p, revoked |-> FALSE]
            ks == [keys EXCEPT ![k] = key]
            answer == [told EXCEPT !.issued = @ \cup {k}]
            about == {<<"key", k>>}
<1>1. k \in KeyId /\ principals[p] # NoPrincipal
  BY DEF CreateKey
<1>2. /\ key \in ApiKey /\ key.of = p /\ ~key.revoked
      /\ key # NoKey
  BY Constructors DEF ApiKey
<1>3. /\ keys \in Keys /\ principals \in Principals
      /\ files.keys \in Keys /\ files.principals \in Principals
      /\ index \subseteq KeyId /\ loaded \in BOOLEAN /\ told \in Told /\ doubtful \subseteq Doubts
  BY TypeFacts DEF AuthInv
<1>4. ks \in Keys /\ about \in SUBSET Doubts
  BY <1>1, <1>2, <1>3 DEF Keys, Doubts
<1>5. /\ answer \in Told /\ answer.issued = told.issued \cup {k}
      /\ answer.revoked = told.revoked /\ answer.disabled = told.disabled
  BY <1>1, <1>3 DEF Told
<1>6. /\ Persist(principals, ks, {"keys"}, answer, about)
      /\ index' = index \cup {k} /\ loaded' = loaded
  BY DEF CreateKey
<1>7. /\ made' \in [principals: PrincipalId, keys: KeyId] /\ made'.keys = k
  BY <1>1 DEF CreateKey, AuthInv, AuthTypeOK
<1>8. ks[k] = key /\ \A j \in KeyId : j # k => ks[j] = keys[j]
  BY <1>1, <1>3 DEF Keys
<1>9. /\ keys[k] = NoKey /\ files.keys[k] = NoKey
      /\ k \notin told.issued /\ k \notin told.revoked
      /\ \A j \in KeyId : j > k => j > made.keys /\ j # k
  BY <1>1, NextKey
<1>. HIDE DEF ks, answer, about, key, k
<1>10. PICK fp \in Principals, fk \in Keys :
         /\ files' = [principals |-> fp, keys |-> fk]
         /\ fp = files.principals
         /\ \/ told' = answer /\ doubtful' = doubtful /\ fk = ks
            \/ told' = told /\ doubtful' = doubtful \cup about /\ fk = files.keys
  BY <1>3, <1>4, <1>5, <1>6, PersistFacts DEF AuthInv
<1>11. /\ principals' = principals /\ keys' = ks
       /\ replaced' \in {"no", "undone"} /\ (replaced' = "no" => replaced = "no")
       /\ failures' \in 0 .. MaxFailures
  BY <1>3, <1>4, <1>5, <1>6, PersistFacts DEF AuthInv
<1>12. files'.principals = files.principals /\ files'.keys = fk
  BY <1>10
<1>13. AuthTypeOK'
  BY <1>1, <1>3, <1>4, <1>5, <1>6, <1>7, <1>10, <1>11
     DEF AuthTypeOK, Principals, Keys, Told, Doubts
<1>14. Fresh'
  <2>. SUFFICES ASSUME NEW j \in KeyId, j > made'.keys
                PROVE  keys'[j] = NoKey /\ files'.keys[j] = NoKey
                       /\ j \notin told'.issued \cup told'.revoked
    BY DEF Fresh
  <2>1. j > made.keys /\ j # k
    BY <1>7, <1>9
  <2>2. keys[j] = NoKey /\ files.keys[j] = NoKey /\ j \notin told.issued \cup told.revoked
    BY <2>1 DEF AuthInv, Fresh
  <2>. QED BY <1>5, <1>8, <1>10, <1>11, <1>12, <2>1, <2>2
<1>15. ASSUME replaced' = "no"
       PROVE  /\ \A j \in KeyId : <<"key", j>> \notin doubtful' => KeyInv(j)'
              /\ \A q \in PrincipalId : <<"principal", q>> \notin doubtful' => PrincipalKept(q)'
  <2>1. replaced = "no" /\ doubtful \subseteq doubtful'
    BY <1>10, <1>11, <1>15
  <2>2. ASSUME NEW j \in KeyId, <<"key", j>> \notin doubtful' PROVE KeyInv(j)'
    <3>1. CASE j = k
      <4>1. told' = answer /\ fk = ks
        BY <1>10, <2>2, <3>1 DEF about
      <4>2. /\ keys'[j] = key /\ files'.keys[j] = key /\ j \notin told'.revoked
            /\ j \in index' /\ principals'[p] # NoPrincipal
        BY <1>1, <1>2, <1>5, <1>6, <1>8, <1>9, <1>11, <1>12, <3>1, <4>1
      <4>. QED BY <1>2, <4>2 DEF KeyKept, KeyInv
    <3>2. CASE j # k
      <4>1. /\ j \in told'.revoked <=> j \in told.revoked
            /\ j \in told'.issued <=> j \in told.issued
        BY <1>5, <1>10, <3>2
      <4>2. keys'[j] = keys[j] /\ (j \in index => j \in index')
        BY <1>6, <1>8, <1>11, <3>2
      <4>3. files'.keys[j] \in {keys[j], files.keys[j]}
        BY <1>8, <1>10, <1>12, <3>2
      <4>. QED BY <1>11, <2>1, <2>2, <4>1, <4>2, <4>3, OtherKey
    <3>. QED BY <3>1, <3>2
  <2>3. ASSUME NEW q \in PrincipalId, <<"principal", q>> \notin doubtful'
        PROVE  PrincipalKept(q)'
    <3>1. told'.disabled = told.disabled
      BY <1>5, <1>10
    <3>. QED BY <1>11, <1>12, <2>1, <2>3, <3>1, OtherPrincipal
  <2>. QED BY <2>2, <2>3
<1>. QED BY <1>11, <1>13, <1>14, <1>15, RequestInv

LEMMA UpdatePrincipalStep ==
  ASSUME AuthInv, NEW p \in PrincipalId, NEW role \in Role, NEW scoped \in BOOLEAN,
         NEW disabled \in BOOLEAN, UpdatePrincipal(p, role, scoped, disabled)
  PROVE  AuthInv'
<1>. DEFINE new == [role |-> role, scoped |-> scoped, disabled |-> disabled]
            ps == [principals EXCEPT ![p] = new]
            answer == [told EXCEPT !.disabled = IF disabled THEN @ \cup {p} ELSE @ \ {p}]
            about == {<<"principal", p>>}
<1>1. new \in Principal /\ (new.disabled <=> disabled)
  BY DEF Principal
<1>2. new # NoPrincipal
  BY <1>1, Constructors
<1>3. /\ keys \in Keys /\ principals \in Principals
      /\ files.keys \in Keys /\ files.principals \in Principals
      /\ index \subseteq KeyId /\ loaded \in BOOLEAN /\ told \in Told /\ doubtful \subseteq Doubts
  BY TypeFacts DEF AuthInv
<1>4. ps \in Principals /\ about \in SUBSET Doubts
  BY <1>1, <1>3 DEF Principals, Doubts
<1>5. /\ answer \in Told /\ answer.issued = told.issued /\ answer.revoked = told.revoked
      /\ answer.disabled = IF disabled THEN told.disabled \cup {p} ELSE told.disabled \ {p}
  BY <1>3 DEF Told
<1>6. /\ Persist(ps, keys, {"principals"}, answer, about)
      /\ UNCHANGED <<loaded, index, made>>
  BY DEF UpdatePrincipal
<1>7. ps[p] = new /\ \A q \in PrincipalId : q # p => ps[q] = principals[q]
  BY <1>3 DEF Principals
<1>. HIDE DEF ps, answer, about, new
<1>8. PICK fp \in Principals, fk \in Keys :
        /\ files' = [principals |-> fp, keys |-> fk]
        /\ fp \in {files.principals, ps} /\ fk = files.keys
        /\ \/ told' = answer /\ doubtful' = doubtful /\ fp = ps
           \/ told' = told /\ doubtful' = doubtful \cup about
  BY <1>3, <1>4, <1>5, <1>6, PersistFacts DEF AuthInv
<1>9. /\ principals' = ps /\ keys' = keys
      /\ replaced' \in {"no", "undone"} /\ (replaced' = "no" => replaced = "no")
      /\ failures' \in 0 .. MaxFailures
  BY <1>3, <1>4, <1>5, <1>6, PersistFacts DEF AuthInv
<1>10. files'.principals = fp /\ files'.keys = files.keys
  BY <1>8
<1>11. AuthTypeOK'
  BY <1>3, <1>4, <1>5, <1>6, <1>8, <1>9
     DEF AuthInv, AuthTypeOK, Principals, Keys, Told, Doubts
<1>12. told'.issued = told.issued /\ told'.revoked = told.revoked
  BY <1>5, <1>8
<1>13. Fresh'
  BY <1>6, <1>9, <1>10, <1>12 DEF AuthInv, Fresh
<1>14. ASSUME replaced' = "no"
       PROVE  /\ \A j \in KeyId : <<"key", j>> \notin doubtful' => KeyInv(j)'
              /\ \A q \in PrincipalId : <<"principal", q>> \notin doubtful' => PrincipalKept(q)'
  <2>1. replaced = "no" /\ doubtful \subseteq doubtful'
    BY <1>8, <1>9, <1>14
  <2>2. ASSUME NEW j \in KeyId, <<"key", j>> \notin doubtful' PROVE KeyInv(j)'
    <3>1. \A q \in PrincipalId : principals[q] # NoPrincipal => principals'[q] # NoPrincipal
      BY <1>2, <1>7, <1>9
    <3>. QED BY <1>6, <1>9, <1>10, <1>12, <2>1, <2>2, <3>1, OtherKey
  <2>3. ASSUME NEW q \in PrincipalId, <<"principal", q>> \notin doubtful'
        PROVE  PrincipalKept(q)'
    <3>1. CASE q = p
      <4>1. fp = ps /\ told' = answer
        BY <1>8, <2>3, <3>1 DEF about
      <4>. QED BY <1>1, <1>5, <1>7, <1>9, <1>10, <3>1, <4>1 DEF PrincipalKept
    <3>2. CASE q # p
      <4>1. /\ principals'[q] = principals[q]
            /\ files'.principals[q] \in {principals[q], files.principals[q]}
        BY <1>7, <1>8, <1>9, <1>10, <3>2
      <4>2. q \in told'.disabled <=> q \in told.disabled
        BY <1>5, <1>8, <3>2
      <4>. QED BY <2>1, <2>3, <4>1, <4>2, OtherPrincipal
    <3>. QED BY <3>1, <3>2
  <2>. QED BY <2>2, <2>3
<1>. QED BY <1>9, <1>11, <1>13, <1>14, RequestInv

LEMMA RevokeKeyStep ==
  ASSUME AuthInv, NEW k \in KeyId, RevokeKey(k)
  PROVE  AuthInv'
<1>. DEFINE key == [keys[k] EXCEPT !.revoked = TRUE]
            ks == [keys EXCEPT ![k] = key]
            answer == [told EXCEPT !.revoked = @ \cup {k}]
            about == {<<"key", k>>}
<1>1. /\ keys \in Keys /\ principals \in Principals
      /\ files.keys \in Keys /\ files.principals \in Principals
      /\ index \subseteq KeyId /\ loaded \in BOOLEAN /\ told \in Told /\ doubtful \subseteq Doubts
  BY TypeFacts DEF AuthInv
<1>2. keys[k] \in ApiKey
  BY <1>1 DEF RevokeKey, Keys
<1>3. key \in ApiKey /\ key.revoked
  BY <1>2 DEF ApiKey
<1>4. ks \in Keys /\ about \in SUBSET Doubts
  BY <1>1, <1>3 DEF Keys, Doubts
<1>5. /\ answer \in Told /\ answer.revoked = told.revoked \cup {k}
      /\ answer.issued = told.issued /\ answer.disabled = told.disabled
  BY <1>1 DEF Told
<1>6. ks = Revoked(k)
  BY <1>1, <1>2 DEF Revoked, Keys, ApiKey
<1>7. /\ Persist(principals, ks, {"keys"}, answer, about)
      /\ index' = index \ {k} /\ UNCHANGED <<loaded, made>>
  BY <1>6 DEF RevokeKey
<1>8. ks[k] = key /\ \A j \in KeyId : j # k => ks[j] = keys[j]
  BY <1>1 DEF Keys
<1>9. keys[k] # NoKey
  BY DEF RevokeKey
<1>. HIDE DEF ks, answer, about, key
<1>10. PICK fp \in Principals, fk \in Keys :
         /\ files' = [principals |-> fp, keys |-> fk]
         /\ fp = files.principals
         /\ \/ told' = answer /\ doubtful' = doubtful /\ fk = ks
            \/ told' = told /\ doubtful' = doubtful \cup about /\ fk = files.keys
  BY <1>1, <1>4, <1>5, <1>7, PersistFacts DEF AuthInv
<1>11. /\ principals' = principals /\ keys' = ks
       /\ replaced' \in {"no", "undone"} /\ (replaced' = "no" => replaced = "no")
       /\ failures' \in 0 .. MaxFailures
  BY <1>1, <1>4, <1>5, <1>7, PersistFacts DEF AuthInv
<1>12. files'.principals = files.principals /\ files'.keys = fk
  BY <1>10
<1>13. AuthTypeOK'
  BY <1>1, <1>4, <1>5, <1>7, <1>10, <1>11
     DEF AuthInv, AuthTypeOK, Principals, Keys, Told, Doubts
<1>14. Fresh'
  <2>. SUFFICES ASSUME NEW j \in KeyId, j > made.keys
                PROVE  keys'[j] = NoKey /\ files'.keys[j] = NoKey
                       /\ j \notin told'.issued \cup told'.revoked
    BY <1>7 DEF Fresh
  <2>1. keys[j] = NoKey /\ files.keys[j] = NoKey /\ j \notin told.issued \cup told.revoked
    BY DEF AuthInv, Fresh
  <2>2. j # k
    BY <1>9, <2>1
  <2>. QED BY <1>5, <1>8, <1>10, <1>11, <1>12, <2>1, <2>2
<1>15. ASSUME replaced' = "no"
       PROVE  /\ \A j \in KeyId : <<"key", j>> \notin doubtful' => KeyInv(j)'
              /\ \A q \in PrincipalId : <<"principal", q>> \notin doubtful' => PrincipalKept(q)'
  <2>1. replaced = "no" /\ doubtful \subseteq doubtful'
    BY <1>10, <1>11, <1>15
  <2>2. ASSUME NEW j \in KeyId, <<"key", j>> \notin doubtful' PROVE KeyInv(j)'
    <3>1. CASE j = k
      <4>1. told' = answer /\ fk = ks
        BY <1>10, <2>2, <3>1 DEF about
      <4>2. keys'[j] = key /\ files'.keys[j] = key /\ j \in told'.revoked
        BY <1>5, <1>8, <1>11, <1>12, <3>1, <4>1
      <4>. QED BY <1>3, <4>2 DEF KeyKept, KeyInv, Dead
    <3>2. CASE j # k
      <4>1. /\ j \in told'.revoked <=> j \in told.revoked
            /\ j \in told'.issued <=> j \in told.issued
        BY <1>5, <1>10, <3>2
      <4>2. keys'[j] = keys[j] /\ (j \in index => j \in index')
        BY <1>7, <1>8, <1>11, <3>2
      <4>3. files'.keys[j] \in {keys[j], files.keys[j]}
        BY <1>8, <1>10, <1>12, <3>2
      <4>. QED BY <1>11, <2>1, <2>2, <4>1, <4>2, <4>3, OtherKey
    <3>. QED BY <3>1, <3>2
  <2>3. ASSUME NEW q \in PrincipalId, <<"principal", q>> \notin doubtful'
        PROVE  PrincipalKept(q)'
    <3>1. told'.disabled = told.disabled
      BY <1>5, <1>10
    <3>. QED BY <1>11, <1>12, <2>1, <2>3, <3>1, OtherPrincipal
  <2>. QED BY <2>2, <2>3
<1>. QED BY <1>11, <1>13, <1>14, <1>15, RequestInv

LEMMA RevokeAgainStep ==
  ASSUME AuthInv, NEW k \in KeyId, RevokeAgain(k)
  PROVE  AuthInv'
<1>1. /\ told' = [told EXCEPT !.revoked = @ \cup {k}]
      /\ keys[k] # NoKey /\ keys[k].revoked
      /\ UNCHANGED <<loaded, principals, keys, index, files, made, failures, doubtful, replaced>>
  BY DEF RevokeAgain
<1>2. /\ told' \in Told /\ told'.revoked = told.revoked \cup {k}
      /\ told'.issued = told.issued /\ told'.disabled = told.disabled
  BY <1>1, TypeFacts DEF AuthInv, Told
<1>3. AuthTypeOK'
  BY <1>1, <1>2 DEF AuthInv, AuthTypeOK, Told
<1>4. Fresh'
  BY <1>1, <1>2 DEF AuthInv, Fresh
<1>5. Gone'
  BY <1>1, <1>2 DEF AuthInv, Gone, Sure, Dead
<1>6. Kept'
  BY <1>1, <1>2 DEF AuthInv, Kept, KeyKept, PrincipalKept
<1>7. Anew'
  BY <1>1 DEF AuthInv, Anew
<1>. QED BY <1>3, <1>4, <1>5, <1>6, <1>7 DEF AuthInv

-----------------------------------------------------------------------------
(* The command line, and a start of the registry. *)

LEMMA ResetAdminStep ==
  ASSUME AuthInv, ResetAdmin
  PROVE  AuthInv'
<1>. DEFINE p == made.principals + 1
            k == made.keys + 1
            key == [of |-> p, revoked |-> FALSE]
            fp == [Nobody EXCEPT ![p] = Admin]
            fk == [NoKeys EXCEPT ![k] = key]
<1>1. p \in PrincipalId /\ k \in KeyId
  BY DEF ResetAdmin
<1>2. key \in ApiKey /\ key.of = p /\ ~key.revoked
  BY <1>1 DEF ApiKey
<1>3. /\ fp \in Principals /\ fp[p] = Admin /\ \A q \in PrincipalId : q # p => fp[q] = NoPrincipal
      /\ fk \in Keys /\ fk[k] = key /\ \A j \in KeyId : j # k => fk[j] = NoKey
  <2>1. /\ \A q \in PrincipalId : Nobody[q] = NoPrincipal
        /\ \A j \in KeyId : NoKeys[j] = NoKey
    BY DEF Nobody, NoKeys
  <2>2. fp \in Principals /\ fk \in Keys
    BY <1>1, <1>2, Constructors DEF Principals, Keys
  <2>3. /\ fp[p] = Admin /\ \A q \in PrincipalId : q # p => fp[q] = NoPrincipal
    BY <1>1, <2>1, Constructors DEF Principals
  <2>4. /\ fk[k] = key /\ \A j \in KeyId : j # k => fk[j] = NoKey
    BY <1>1, <2>1, Constructors DEF Keys
  <2>. QED BY <2>2, <2>3, <2>4
<1>4. /\ made' = [principals |-> p, keys |-> k]
      /\ files' = [principals |-> fp, keys |-> fk]
      /\ told' = [told EXCEPT !.issued = @ \cup {k}]
      /\ replaced' \in {"yes", "undone"} /\ (replaced' = "yes" => replaced # "undone")
      /\ UNCHANGED <<loaded, principals, keys, index, failures, doubtful>>
  BY TypeFacts DEF ResetAdmin, AuthInv
<1>5. /\ told' \in Told /\ told'.issued = told.issued \cup {k}
      /\ told'.revoked = told.revoked
  BY <1>1, <1>4, TypeFacts DEF AuthInv, Told
<1>6. /\ k \notin told.revoked /\ keys[k] = NoKey
      /\ \A j \in KeyId : j > k => j > made.keys /\ j # k
  BY <1>1, NextKey
<1>. HIDE DEF fp, fk, key, p, k
<1>7. files'.principals = fp /\ files'.keys = fk /\ made'.keys = k
  BY <1>4
<1>8. AuthTypeOK'
  BY <1>1, <1>3, <1>4, <1>5 DEF AuthInv, AuthTypeOK, Principals, Keys, Told
<1>9. Fresh'
  BY <1>3, <1>4, <1>5, <1>6, <1>7 DEF AuthInv, Fresh
<1>10. Gone'
  <2>. SUFFICES ASSUME NEW j \in KeyId, Sure(j)'
                PROVE  /\ j \in told'.revoked => Dead(keys'[j])
                       /\ j \in told'.revoked \/ keys'[j].revoked => Dead(files'.keys[j])
    BY DEF Gone
  <2>1. Sure(j)
    BY <1>4 DEF Sure
  <2>2. j \in told.revoked => Dead(keys[j])
    BY <2>1 DEF AuthInv, Gone
  <2>3. CASE j = k
    BY <1>4, <1>5, <1>6, <2>3, Constructors
  <2>4. CASE j # k
    BY <1>3, <1>4, <1>5, <1>7, <2>2, <2>4 DEF Dead
  <2>. QED BY <2>3, <2>4
<1>11. Kept'
  BY <1>4 DEF Kept
<1>12. Anew'
  <2>1. \A j \in KeyId : fk[j] # NoKey => ~fk[j].revoked /\ fp[fk[j].of] # NoPrincipal
    BY <1>2, <1>3, Constructors
  <2>2. \A q \in PrincipalId : ~fp[q].disabled
    BY <1>3, Constructors
  <2>. QED BY <1>7, <2>1, <2>2 DEF Anew
<1>. QED BY <1>8, <1>9, <1>10, <1>11, <1>12 DEF AuthInv

LEMMA ResetInterruptedStep ==
  ASSUME AuthInv, ResetInterrupted
  PROVE  AuthInv'
<1>1. /\ files' = [principals |-> Nobody, keys |-> NoKeys]
      /\ replaced' \in {"yes", "undone"} /\ (replaced' = "yes" => replaced # "undone")
      /\ failures' = failures + 1 /\ failures < MaxFailures
      /\ UNCHANGED <<loaded, principals, keys, index, made, told, doubtful>>
  BY TypeFacts DEF ResetInterrupted, AuthInv
<1>2. /\ files'.principals = Nobody /\ files'.keys = NoKeys
      /\ \A q \in PrincipalId : Nobody[q] = NoPrincipal
      /\ \A j \in KeyId : NoKeys[j] = NoKey
  BY <1>1 DEF Nobody, NoKeys
<1>3. failures' \in 0 .. MaxFailures
  BY <1>1, TypeFacts, AuthStoreAssumption DEF AuthInv
<1>4. AuthTypeOK'
  BY <1>1, <1>3, Constructors DEF AuthInv, AuthTypeOK, Principals, Keys
<1>5. Fresh'
  BY <1>1, <1>2 DEF AuthInv, Fresh
<1>6. Gone'
  BY <1>1, <1>2 DEF AuthInv, Gone, Sure, Dead
<1>7. Kept'
  BY <1>1 DEF Kept
<1>8. Anew'
  BY <1>2, Constructors DEF Anew
<1>. QED BY <1>4, <1>5, <1>6, <1>7, <1>8 DEF AuthInv

LEMMA LoadStep ==
  ASSUME AuthInv, Load
  PROVE  AuthInv'
<1>. DEFINE lost == {k \in told.issued : files.keys[k] = NoKey}
<1>1. /\ loaded' = (files.principals # Nobody)
      /\ principals' = files.principals /\ keys' = files.keys
      /\ index' = IndexOf(files.keys)
      /\ replaced' \in {"no", "undone"}
      /\ replaced' = "undone" <=> replaced = "undone"
      /\ UNCHANGED <<files, made, failures, doubtful>>
  BY TypeFacts DEF Load, AuthInv
<1>2. /\ told' \in Told /\ told'.issued = told.issued /\ told'.disabled = told.disabled
      /\ told'.revoked = IF replaced = "yes" THEN told.revoked \cup lost ELSE told.revoked
  <2>1. told \in Told /\ lost \subseteq KeyId
    BY TypeFacts DEF AuthInv
  <2>2. CASE replaced = "yes"
    <3>1. told' = [told EXCEPT !.revoked = @ \cup lost]
      BY <2>2 DEF Load
    <3>. QED BY <2>1, <2>2, <3>1 DEF Told
  <2>3. CASE replaced # "yes"
    BY <2>1, <2>3 DEF Load
  <2>. QED BY <2>2, <2>3
<1>3. /\ files.keys \in Keys /\ files.principals \in Principals
      /\ IndexOf(files.keys) \subseteq KeyId /\ loaded' \in BOOLEAN
  BY <1>1, TypeFacts DEF AuthInv, IndexOf
<1>. HIDE DEF lost
<1>4. AuthTypeOK'
  BY <1>1, <1>2, <1>3 DEF AuthInv, AuthTypeOK, Principals, Keys, Told
<1>5. told'.revoked \subseteq told.revoked \cup told.issued
  BY <1>2 DEF lost
<1>6. Fresh'
  BY <1>1, <1>2, <1>5 DEF AuthInv, Fresh
<1>7. Gone'
  <2>. SUFFICES ASSUME NEW j \in KeyId, Sure(j)'
                PROVE  j \in told'.revoked \/ files.keys[j].revoked => Dead(files.keys[j])
    BY <1>1 DEF Gone
  <2>1. Sure(j)
    BY <1>1 DEF Sure
  <2>2. j \in told.revoked => Dead(files.keys[j])
    BY <2>1 DEF AuthInv, Gone
  <2>. QED BY <1>2, <2>2 DEF Dead, lost
<1>8. Kept'
  <2>. SUFFICES ASSUME replaced' = "no"
                PROVE  /\ \A j \in KeyId : KeyKept(j)'
                       /\ \A q \in PrincipalId : PrincipalKept(q)'
    BY DEF Kept
  <2>1. CASE replaced = "no"
    <3>1. ASSUME NEW j \in KeyId, <<"key", j>> \notin doubtful PROVE KeyKept(j)'
      <4>1. KeyKept(j) /\ files.keys[j] = keys[j]
        BY <2>1, <3>1 DEF AuthInv, Kept, KeyKept
      <4>2. \A q \in PrincipalId : <<"principal", q>> \notin doubtful =>
              files.principals[q] = principals[q]
        BY <2>1 DEF AuthInv, Kept, PrincipalKept
      <4>3. keys[j] # NoKey => keys[j].of \in PrincipalId /\ j \in index'
        BY <1>1, <1>3, <4>1, Constructors DEF IndexOf, Keys
      <4>. QED BY <1>1, <1>2, <2>1, <4>1, <4>2, <4>3 DEF KeyKept
    <3>2. ASSUME NEW q \in PrincipalId PROVE PrincipalKept(q)'
      BY <1>1, <1>2, <2>1 DEF AuthInv, Kept, PrincipalKept
    <3>. QED BY <1>1, <3>1, <3>2 DEF KeyKept
  <2>2. CASE replaced = "yes"
    <3>1. /\ \A k \in KeyId : files.keys[k] # NoKey =>
               ~files.keys[k].revoked /\ files.principals[files.keys[k].of] # NoPrincipal
          /\ \A p \in PrincipalId : ~files.principals[p].disabled
      BY <2>2 DEF AuthInv, Anew
    <3>2. ASSUME NEW j \in KeyId PROVE KeyKept(j)'
      <4>1. j \in told'.issued /\ j \notin told'.revoked => files.keys[j] # NoKey
        BY <1>2, <2>2 DEF lost
      <4>2. files.keys[j] # NoKey => j \in index'
        BY <1>1 DEF IndexOf
      <4>. QED BY <1>1, <3>1, <4>1, <4>2 DEF KeyKept
    <3>3. ASSUME NEW q \in PrincipalId PROVE PrincipalKept(q)'
      BY <1>1, <3>1 DEF PrincipalKept
    <3>. QED BY <3>2, <3>3
  <2>. QED BY <1>1, <2>1, <2>2, TypeFacts DEF AuthInv
<1>9. Anew'
  BY <1>1 DEF Anew
<1>. QED BY <1>4, <1>6, <1>7, <1>8, <1>9 DEF AuthInv

-----------------------------------------------------------------------------
LEMMA FirstAuth ==
  ASSUME AuthInit
  PROVE  AuthInv
<1>. DEFINE key == [of |-> 1, revoked |-> FALSE]
<1>1. 1 \in PrincipalId /\ 1 \in KeyId
  BY AuthStoreAssumption DEF PrincipalId, KeyId
<1>2. key \in ApiKey /\ ~key.revoked /\ key.of = 1
  BY <1>1 DEF ApiKey
<1>3. /\ principals \in Principals /\ principals[1] = Admin
      /\ \A q \in PrincipalId : q # 1 => principals[q] = NoPrincipal
  <2>1. \A q \in PrincipalId : Nobody[q] = NoPrincipal
    BY DEF Nobody
  <2>. QED BY <1>1, <2>1, Constructors DEF AuthInit, Principals
<1>4. /\ keys \in Keys /\ keys[1] = key
      /\ \A j \in KeyId : j # 1 => keys[j] = NoKey
  <2>1. \A j \in KeyId : NoKeys[j] = NoKey
    BY DEF NoKeys
  <2>. QED BY <1>1, <1>2, <2>1, Constructors DEF AuthInit, Keys
<1>. HIDE DEF key
<1>5. /\ loaded = TRUE /\ index = {1} /\ failures = 0 /\ doubtful = {} /\ replaced = "no"
      /\ files = [principals |-> principals, keys |-> keys]
      /\ made = [principals |-> 1, keys |-> 1]
      /\ told = [issued |-> {1}, revoked |-> {}, disabled |-> {}]
  BY DEF AuthInit
<1>6. /\ files.principals = principals /\ files.keys = keys /\ made.keys = 1
      /\ told.issued = {1} /\ told.revoked = {} /\ told.disabled = {}
  BY <1>5
<1>7. AuthTypeOK
  BY <1>1, <1>3, <1>4, <1>5, AuthStoreAssumption DEF AuthTypeOK, Principals, Keys
<1>8. Fresh
  BY <1>4, <1>6 DEF Fresh, KeyId
<1>9. \A j \in KeyId : ~keys[j].revoked
  BY <1>2, <1>4, Constructors
<1>10. Gone
  BY <1>6, <1>9 DEF Gone
<1>11. Kept
  <2>1. \A j \in KeyId : KeyKept(j)
    BY <1>1, <1>2, <1>3, <1>4, <1>5, <1>6, <1>9, Constructors DEF KeyKept
  <2>2. \A q \in PrincipalId : PrincipalKept(q)
    BY <1>3, <1>6, Constructors DEF PrincipalKept
  <2>. QED BY <2>1, <2>2 DEF Kept
<1>12. Anew
  BY <1>5 DEF Anew
<1>. QED BY <1>7, <1>8, <1>10, <1>11, <1>12 DEF AuthInv

LEMMA QuietAuth ==
  ASSUME AuthInv, UNCHANGED auth
  PROVE  AuthInv'
<1>1. AuthTypeOK'
  BY DEF AuthInv, AuthTypeOK, auth
<1>2. Fresh' /\ Gone'
  BY DEF AuthInv, Fresh, Gone, Sure, auth
<1>3. Kept' /\ Anew'
  BY DEF AuthInv, Kept, KeyKept, PrincipalKept, Anew, auth
<1>. QED BY <1>1, <1>2, <1>3 DEF AuthInv

(* Only an admin, the command line and a start change the store. *)
LEMMA NextAuth ==
  ASSUME AuthInv, [Next]_vars
  PROVE  AuthInv'
<1>1. CASE AuthRequest
  BY <1>1, CreatePrincipalStep, CreateKeyStep, UpdatePrincipalStep, RevokeKeyStep,
     RevokeAgainStep DEF AuthRequest
<1>2. CASE AuthCommand
  BY <1>2, ResetAdminStep, ResetInterruptedStep DEF AuthCommand
<1>3. CASE Load
  BY <1>3, LoadStep
<1>4. CASE UNCHANGED auth
  BY <1>4, QuietAuth
<1>5. [Next]_vars => AuthRequest \/ AuthCommand \/ Load \/ UNCHANGED auth
  BY DEF Next, vars, Arrive, Admit, AdmitStrict, AdmitRead, Refuse, Manage, Step, Restart
<1>. QED BY <1>1, <1>2, <1>3, <1>4, <1>5

(* In every reachable state the store has its type, what was revoked is so *)
(* in memory and on disk, and without a reset the files are the memory,    *)
(* but for what a failed write was about.                                  *)
THEOREM SpecAuthInv == Spec => []AuthInv
<1>1. Init => AuthInv
  BY FirstAuth DEF Init
<1>. QED BY <1>1, NextAuth, PTL DEF Spec

(* authenticate: a key whose revocation was confirmed is accepted no more, *)
(* in this life of the registry and in the next, but for a failed write of *)
(* the key, and for a reset that the registry has written over.            *)
THEOREM SpecRevocationLasts == Spec => []RevocationLasts
<1>1. AuthInv => RevocationLasts
  <2>. SUFFICES ASSUME AuthInv, NEW k \in told.revoked, Sure(k) PROVE ~Accepts(k)
    BY DEF RevocationLasts
  <2>1. k \in KeyId
    BY TypeFacts DEF AuthInv
  <2>2. Dead(keys[k])
    BY <2>1 DEF AuthInv, Gone
  <2>. QED BY <2>2 DEF Accepts, Dead
<1>. QED BY <1>1, SpecAuthInv, PTL

(* authenticate: a key that was issued and not revoked is accepted, unless *)
(* its principal is disabled, with the same exceptions.                    *)
THEOREM SpecIssuedKeyWorks == Spec => []IssuedKeyWorks
<1>1. AuthInv => IssuedKeyWorks
  <2>. SUFFICES ASSUME AuthInv, replaced = "no", NEW k \in told.issued \ told.revoked,
                       Sure(k), keys[k].of \notin told.disabled,
                       <<"principal", keys[k].of>> \notin doubtful
                PROVE  Accepts(k)
    BY DEF IssuedKeyWorks
  <2>1. k \in KeyId /\ <<"key", k>> \notin doubtful
    BY TypeFacts DEF AuthInv, Sure
  <2>2. /\ keys[k] # NoKey /\ ~keys[k].revoked /\ k \in index
        /\ principals[keys[k].of] # NoPrincipal
    BY <2>1 DEF AuthInv, Kept, KeyKept
  <2>3. keys[k].of \in PrincipalId
    BY <2>1, <2>2, TypeFacts, Constructors DEF AuthInv, Keys
  <2>4. ~principals[keys[k].of].disabled
    BY <2>3 DEF AuthInv, Kept, PrincipalKept
  <2>. QED BY <2>2, <2>4 DEF Accepts
<1>. QED BY <1>1, SpecAuthInv, PTL
-----------------------------------------------------------------------------
(* The dataset: its life, its settings, and the flag a request waits for.   *)

(* Jobs have settings where they need them; the event loop only reads.      *)
JobsInv ==
  \A t \in Thread :
    /\ job[t].kind \in {"read", "set", "register"} => job[t].setting \in Setting
    /\ t = Loop => job[t].kind \in {"none", "read"}

(* What changes the dataset, or a setting, is alone, or has left it unsure. *)
Exclusive ==
  \A t, u \in Thread : t # u /\ Busy(t) /\ Busy(u) =>
    /\ job[t].kind \in {"create", "delete"} => "life" \in clash
    /\ job[t].kind = "set" => job[t].setting \in clash

LifeTakesAll == "life" \in clash => Setting \subseteq clash

(* No setting is written down; nothing is.                                  *)
Blank == cache = None /\ \A s \in Setting : setfile[s] = Absent
Nothing == ~store /\ ~vector /\ ~entries /\ ~saved /\ Blank

(* What each thread relies on, at the place where it is. *)
LifeAt(t) ==
  /\ Busy(t) /\ job[t].at \notin {"start", "got"} => dir
  /\ At(t, {"register"}, "commit") \/ At(t, {"register"}, "save")
       \/ At(t, {"create", "register"}, "formats") => vector
  /\ At(t, {"create"}, "files") \/ At(t, {"create"}, "formats") => Blank
  /\ At(t, {"create"}, "auth") =>
       /\ setfile["register"] = Default /\ cache["register"] = Default
       /\ \A s \in Setting \ {"register"} : setfile[s] = Absent /\ cache[s] = Unset
  /\ At(t, {"delete"}, "remove") => ~store /\ ~entries /\ cache = None

(* A dataset has its files, or a thread is about to write them. *)
LifeInv ==
  "life" \notin clash =>
    /\ ~dir => Nothing
    /\ entries \/ saved => vector
    /\ entries /\ ~saved => \E t \in Thread : At(t, {"register"}, "save")
    /\ vector /\ setfile["register"] = Absent =>
         \E t \in Thread : At(t, {"create", "register"}, "formats")
    /\ \A t \in Thread : LifeAt(t)

(* Thread t has changed setting s, but not yet both its file and its cache. *)
Setter(t, s) == At(t, {"set"}, "keep") /\ job[t].setting = s
Maker(t) == job[t].kind = "create" /\ job[t].at \in {"files", "formats", "auth"}
Changing(t, s) == Setter(t, s) \/ Maker(t) \/ At(t, {"delete"}, "remove")

(* What the file says is in the cache, was answered, and is about to be. *)
Agreed(s) ==
  /\ cache[s] # Unset => cache[s] = Saying(setfile[s])
  /\ said[s] # Unset => said[s] = Saying(setfile[s])
  /\ \A t \in Thread : At(t, {"read", "register"}, "keep") /\ job[t].setting = s =>
       job[t].value = Saying(setfile[s])

SettingAt(s) ==
  /\ (\A t \in Thread : ~Changing(t, s)) => Agreed(s)
  /\ \A t \in Thread : Setter(t, s) => setfile[s] = job[t].value

SettingInv == \A s \in Setting \ clash : SettingAt(s)

DatasetInv == DatasetTypeOK /\ JobsInv /\ Exclusive /\ LifeTakesAll /\ LifeInv /\ SettingInv

(* A request waits for the flag to be read; if it is due, the flag is up.    *)
FlagInv ==
  /\ request # NoRequest =>
       /\ request \in Request
       /\ request.kind \in {"read", "set", "register"} => request.setting \in Setting
       /\ job[Loop].kind = "read" /\ job[Loop].setting = "auth"
       /\ request.due /\ "auth" \notin clash =>
            /\ said["auth"] = Special /\ ~Working({"set", "create", "delete"})
            /\ job[Loop].at \in {"keep", "got"} => job[Loop].value = Special
  /\ caller \in [Pool -> PrincipalId \cup {Anonymous}] /\ due \subseteq Pool

AccessInv == AuthInv /\ DatasetInv /\ FlagInv /\ NobodySlipsIn
-----------------------------------------------------------------------------
(* Jobs, and how an action moves one on. *)
Places == {"start", "keep", "got", "files", "formats", "auth", "remove", "commit", "save"}
Jobs == [Thread -> Job \cup {NoJob}]

LEMMA JobFacts ==
  /\ NoJob \notin Job /\ NoJob.kind = "none" /\ NoJob.at = "start"
  /\ \A j \in Job : /\ j.kind \in Kind /\ j.at \in Places /\ j.value \in Value
                    /\ j.setting \in Setting \cup {"none"} /\ j.kind # "none"
  /\ \A k \in Kind, s \in Setting \cup {"none"}, v \in Value :
       [kind |-> k, at |-> "start", setting |-> s, value |-> v] \in Job
<1>1. NoJob \notin Job /\ NoJob.kind = "none" /\ NoJob.at = "start"
  BY DEF NoJob, Job, Kind
<1>2. \A j \in Job : /\ j.kind \in Kind /\ j.at \in Places /\ j.value \in Value
                     /\ j.setting \in Setting \cup {"none"} /\ j.kind # "none"
  BY DEF Job, Places, Kind
<1>3. \A k \in Kind, s \in Setting \cup {"none"}, v \in Value :
        [kind |-> k, at |-> "start", setting |-> s, value |-> v] \in Job
  BY DEF Job
<1>. QED BY <1>1, <1>2, <1>3

(* Thread t is at place w with value v, for the same job, or has none. *)
Elsewhere(t) == \A u \in Thread : u # t => job'[u] = job[u]
Moved(t, w, v) ==
  /\ job' \in Jobs /\ Elsewhere(t)
  /\ job'[t] # NoJob /\ job'[t].kind = job[t].kind /\ job'[t].setting = job[t].setting
  /\ job'[t].at = w /\ job'[t].value = v
Freed(t) == job' \in Jobs /\ Elsewhere(t) /\ job'[t] = NoJob

LEMMA Moving ==
  ASSUME DatasetTypeOK, NEW t \in Thread, job[t].kind \in Kind
  PROVE  /\ job[t] \in Job /\ job[t].value \in Value /\ Busy(t)
         /\ \A w \in Places : Goto(t, w) => Moved(t, w, job[t].value)
         /\ \A w \in Places, v \in Value :
              job' = [job EXCEPT ![t].at = w, ![t].value = v] => Moved(t, w, v)
         /\ Done(t) => Freed(t)
<1>1. job \in Jobs
  BY DEF DatasetTypeOK, Jobs
<1>2. job[t] \in Job /\ Busy(t)
  BY <1>1, JobFacts DEF Jobs, Kind, Busy
<1>3. job[t].value \in Value
  BY <1>2, JobFacts
<1>4. ASSUME NEW w \in Places, Goto(t, w) PROVE Moved(t, w, job[t].value)
  <2>. DEFINE j == [job[t] EXCEPT !.at = w]
  <2>1. /\ j \in Job /\ j.kind = job[t].kind /\ j.setting = job[t].setting
        /\ j.at = w /\ j.value = job[t].value
    BY <1>2 DEF Job, Places
  <2>2. job' \in Jobs /\ Elsewhere(t) /\ job'[t] = j
    BY <1>1, <1>4, <2>1 DEF Goto, Jobs, Elsewhere
  <2>. HIDE DEF j
  <2>. QED BY <2>1, <2>2, JobFacts DEF Moved
<1>5. ASSUME NEW w \in Places, NEW v \in Value,
             job' = [job EXCEPT ![t].at = w, ![t].value = v]
      PROVE  Moved(t, w, v)
  <2>. DEFINE j == [[job[t] EXCEPT !.at = w] EXCEPT !.value = v]
  <2>1. j \in Job /\ j.kind = job[t].kind /\ j.setting = job[t].setting /\ j.at = w /\ j.value = v
    BY <1>2 DEF Job, Places
  <2>2. job' \in Jobs /\ Elsewhere(t) /\ job'[t] = j
    BY <1>1, <1>5, <2>1 DEF Jobs, Elsewhere
  <2>. HIDE DEF j
  <2>. QED BY <2>1, <2>2, JobFacts DEF Moved
<1>6. Done(t) => Freed(t)
  BY <1>1 DEF Done, Jobs, Freed, Elsewhere
<1>. QED BY <1>2, <1>3, <1>4, <1>5, <1>6

(* A thread that starts or changes the dataset is alone. *)
LEMMA Alone ==
  ASSUME DatasetInv, NEW t \in Thread, NEW u \in Thread, u # t, Busy(t)
  PROVE  /\ job[t].kind \in {"create", "delete"} /\ "life" \notin clash => job[u] = NoJob
         /\ job[u].kind \in {"create", "delete"} => "life" \in clash
         /\ job[t].kind = "set" /\ job[t].setting \notin clash => job[u] = NoJob
         /\ job[u].kind = "set" => job[u].setting \in clash
<1>1. /\ Busy(u) /\ job[t].kind \in {"create", "delete"} => "life" \in clash
      /\ Busy(u) /\ job[u].kind \in {"create", "delete"} => "life" \in clash
      /\ Busy(u) /\ job[t].kind = "set" => job[t].setting \in clash
      /\ Busy(u) /\ job[u].kind = "set" => job[u].setting \in clash
  BY DEF DatasetInv, Exclusive
<1>2. job[u].kind # "none" => Busy(u)
  BY JobFacts DEF Busy
<1>. QED BY <1>1, <1>2 DEF Busy

(* Jobs go on as they began. *)
LEMMA JobsGoOn ==
  ASSUME DatasetInv, NEW t \in Thread, Busy(t), clash \subseteq clash',
         "life" \in clash' => "life" \in clash \/ Setting \subseteq clash',
         Freed(t) \/ \E w \in Places, v \in Value : Moved(t, w, v)
  PROVE  JobsInv' /\ Exclusive' /\ LifeTakesAll'
<1>1. /\ Elsewhere(t)
      /\ \/ job'[t] = NoJob
         \/ job'[t] # NoJob /\ job'[t].kind = job[t].kind /\ job'[t].setting = job[t].setting
  BY DEF Freed, Moved
<1>2. JobsInv'
  BY <1>1, JobFacts DEF Elsewhere, DatasetInv, JobsInv
<1>3. Exclusive'
  <2>. SUFFICES ASSUME NEW a \in Thread, NEW b \in Thread, a # b, job'[a] # NoJob, job'[b] # NoJob
                PROVE  /\ job'[a].kind \in {"create", "delete"} => "life" \in clash'
                       /\ job'[a].kind = "set" => job'[a].setting \in clash'
    BY DEF Exclusive, Busy
  <2>1. /\ job[a] # NoJob /\ job[b] # NoJob
        /\ job'[a].kind = job[a].kind /\ job'[a].setting = job[a].setting
    BY <1>1 DEF Elsewhere, Busy
  <2>. QED BY <2>1 DEF DatasetInv, Exclusive, Busy
<1>4. LifeTakesAll'
  BY DEF DatasetInv, LifeTakesAll
<1>. QED BY <1>2, <1>3, <1>4
-----------------------------------------------------------------------------
(* A setting that an action leaves alone. *)
LEMMA SettingKept ==
  ASSUME DatasetInv, NEW t \in Thread, Elsewhere(t), NEW s \in Setting \ clash,
         setfile'[s] = setfile[s], cache'[s] = cache[s], said'[s] = said[s],
         Changing(t, s) => Changing(t, s)',
         ~Setter(t, s)',
         At(t, {"read", "register"}, "keep")' /\ job'[t].setting = s
           /\ (\A u \in Thread : ~Changing(u, s)) => job'[t].value = Saying(setfile[s])
  PROVE  SettingAt(s)'
<1>0. SettingAt(s)
  BY DEF DatasetInv, SettingInv
<1>1. \A u \in Thread : Setter(u, s)' => Setter(u, s) /\ job'[u] = job[u]
  BY DEF Setter, At, Elsewhere
<1>2. \A u \in Thread : Setter(u, s)' => setfile'[s] = job'[u].value
  BY <1>0, <1>1 DEF SettingAt
<1>3. ASSUME \A u \in Thread : ~Changing(u, s)' PROVE Agreed(s)'
  <2>1. \A u \in Thread : ~Changing(u, s)
    BY <1>3 DEF Changing, Setter, Maker, At, Elsewhere
  <2>2. Agreed(s)
    BY <1>0, <2>1 DEF SettingAt
  <2>3. \A u \in Thread : At(u, {"read", "register"}, "keep")' /\ job'[u].setting = s =>
          job'[u].value = Saying(setfile[s])
    BY <2>1, <2>2 DEF Agreed, At, Elsewhere
  <2>. QED BY <2>2, <2>3 DEF Agreed, Saying
<1>. QED BY <1>2, <1>3 DEF SettingAt

(* A job that only looks, or is refused. *)
LEMMA Aside ==
  ASSUME DatasetInv, NEW t \in Thread, job[t].kind \in Kind, job[t].at \in {"start", "got"},
         UNCHANGED <<dir, store, vector, setfile, cache, entries, saved, said, clash>>,
         Freed(t) \/ \E v \in Value : Moved(t, "got", v)
  PROVE  DatasetInv'
<1>1. /\ job' \in Jobs /\ Elsewhere(t) /\ Busy(t)
      /\ job'[t] = NoJob \/ (job'[t].at = "got" /\ job'[t].kind = job[t].kind)
  BY Moving DEF Freed, Moved, DatasetInv
<1>2. DatasetTypeOK'
  BY <1>1 DEF DatasetInv, DatasetTypeOK, Jobs
<1>3. JobsInv' /\ Exclusive' /\ LifeTakesAll'
  BY <1>1, JobsGoOn DEF Places
<1>4. LifeInv'
  <2>. SUFFICES ASSUME "life" \notin clash PROVE LifeInv'
    BY DEF LifeInv
  <2>1. \A u \in Thread : LifeAt(u)'
    BY <1>1, JobFacts DEF DatasetInv, LifeInv, LifeAt, At, Busy, Elsewhere, Blank
  <2>2. ASSUME NEW u \in Thread, NEW ks, NEW w \in {"save", "formats"}, At(u, ks, w)
        PROVE  At(u, ks, w)'
    BY <1>1, <2>2 DEF At, Elsewhere
  <2>3. /\ (\E u \in Thread : At(u, {"register"}, "save")) =>
             \E u \in Thread : At(u, {"register"}, "save")'
        /\ (\E u \in Thread : At(u, {"create", "register"}, "formats")) =>
             \E u \in Thread : At(u, {"create", "register"}, "formats")'
    BY <2>2
  <2>. QED BY <2>1, <2>3 DEF DatasetInv, LifeInv, Nothing, Blank
<1>5. SettingInv'
  <2>. SUFFICES ASSUME NEW s \in Setting \ clash PROVE SettingAt(s)'
    BY DEF SettingInv
  <2>1. ~Changing(t, s) /\ ~Setter(t, s)'
    BY <1>1, JobFacts DEF Changing, Setter, Maker, At
  <2>2. ~At(t, {"read", "register"}, "keep")'
    BY <1>1, JobFacts DEF At
  <2>. QED BY <1>1, <2>1, <2>2, SettingKept
<1>. QED BY <1>2, <1>3, <1>4, <1>5 DEF DatasetInv

(* In every action below the life of the dataset is followed only as long as *)
(* it is sure; then who creates or deletes it is alone.                    *)
LEMMA LifeFacts ==
  ASSUME DatasetInv, "life" \notin clash
  PROVE  /\ ~dir => Nothing
         /\ entries \/ saved => vector
         /\ entries /\ ~saved => \E u \in Thread : At(u, {"register"}, "save")
         /\ vector /\ setfile["register"] = Absent =>
              \E u \in Thread : At(u, {"create", "register"}, "formats")
         /\ \A u \in Thread : LifeAt(u)
         /\ ~Broken
BY DEF DatasetInv, LifeInv, Nothing, Broken

(* What others rely on still holds while t acts. *)
LEMMA LifeOfOthers ==
  ASSUME DatasetInv, "life" \notin clash, NEW t \in Thread, Busy(t), Elsewhere(t),
         job[t].kind \in {"create", "delete"} \/ (dir' = TRUE /\ vector' = vector)
           \/ (dir' = TRUE /\ vector' = TRUE)
  PROVE  \A u \in Thread : u # t => LifeAt(u)'
<1>. SUFFICES ASSUME NEW u \in Thread, u # t PROVE LifeAt(u)'
  OBVIOUS
<1>1. job'[u] = job[u] /\ job[u].kind \notin {"create", "delete"} /\ LifeAt(u)
  BY Alone, LifeFacts DEF Elsewhere
<1>2. CASE job[t].kind \in {"create", "delete"}
  BY <1>1, <1>2, Alone, JobFacts DEF LifeAt, At, Busy
<1>3. CASE job[t].kind \notin {"create", "delete"}
  BY <1>1, <1>3 DEF LifeAt, At, Busy
<1>. QED BY <1>2, <1>3

LEMMA ReadFileStep ==
  ASSUME DatasetInv, NEW t \in Thread, ReadFile(t)
  PROVE  DatasetInv'
<1>. DEFINE v == Saying(setfile[job[t].setting])
<1>1. /\ job[t].kind \in {"read", "register"} /\ job[t].kind \in Kind /\ job[t].at = "start"
      /\ v \in Value
  BY DEF ReadFile, At, Kind, Saying, Value
<1>2. Busy(t) /\ Moved(t, "keep", v)
  BY <1>1, Moving DEF ReadFile, DatasetInv, Places
<1>3. /\ job' \in Jobs /\ Elsewhere(t) /\ job'[t].at = "keep" /\ job'[t].value = v
      /\ job'[t].kind = job[t].kind /\ job'[t].setting = job[t].setting
  BY <1>2 DEF Moved
<1>4. /\ UNCHANGED <<vector, setfile, saved, cache, entries, said, clash>>
      /\ dir' \in BOOLEAN /\ store' \in BOOLEAN
      /\ ~Broken => dir' = TRUE /\ store' = TRUE
  BY DEF ReadFile, Quietly, Opened, DatasetInv, DatasetTypeOK
<1>5. DatasetTypeOK'
  BY <1>3, <1>4 DEF DatasetInv, DatasetTypeOK, Jobs
<1>6. JobsInv' /\ Exclusive' /\ LifeTakesAll'
  BY <1>1, <1>2, <1>4, JobsGoOn DEF Places
<1>7. LifeInv'
  <2>. SUFFICES ASSUME "life" \notin clash PROVE LifeInv'
    BY <1>4 DEF LifeInv
  <2>1. dir' = TRUE
    BY <1>4, LifeFacts
  <2>2. \A u \in Thread : u # t => LifeAt(u)'
    BY <1>2, <1>3, <1>4, <2>1, LifeOfOthers
  <2>3. LifeAt(t)'
    BY <1>1, <1>3, <2>1 DEF LifeAt, At, Busy
  <2>4. ASSUME NEW u \in Thread, NEW ks, NEW w \in {"save", "formats"}, At(u, ks, w)
        PROVE  At(u, ks, w)'
    BY <1>1, <1>3, <2>4 DEF At, Elsewhere
  <2>. QED BY <1>4, <2>1, <2>2, <2>3, <2>4, LifeFacts DEF LifeInv
<1>8. SettingInv'
  <2>. SUFFICES ASSUME NEW s \in Setting \ clash PROVE SettingAt(s)'
    BY <1>4 DEF SettingInv
  <2>. QED BY <1>1, <1>3, <1>4, SettingKept DEF Changing, Setter, Maker, At
<1>. QED BY <1>5, <1>6, <1>7, <1>8 DEF DatasetInv

LEMMA KeepStep ==
  ASSUME DatasetInv, NEW t \in Thread, Keep(t)
  PROVE  DatasetInv'
<1>1. /\ job[t].kind \in {"read", "register"} /\ job[t].kind \in Kind /\ job[t].at = "keep"
      /\ job[t].setting \in Setting
  BY DEF Keep, At, Kind, DatasetInv, JobsInv
<1>2. Busy(t) /\ Moved(t, "got", job[t].value) /\ job[t].value \in Value
  BY <1>1, Moving DEF Keep, DatasetInv, Places
<1>3. /\ job' \in Jobs /\ Elsewhere(t) /\ job'[t].at = "got"
      /\ job'[t].kind = job[t].kind /\ job'[t].setting = job[t].setting
  BY <1>2 DEF Moved
<1>4. /\ UNCHANGED <<dir, store, vector, setfile, saved, entries, said, clash>>
      /\ cache' \in [Setting -> Value \cup {Unset}] /\ cache'[job[t].setting] = job[t].value
      /\ \A s \in Setting : s # job[t].setting => cache'[s] = cache[s]
  BY <1>1, <1>2 DEF Keep, Quietly, disk, DatasetInv, DatasetTypeOK
<1>5. DatasetTypeOK'
  BY <1>3, <1>4 DEF DatasetInv, DatasetTypeOK, Jobs
<1>6. JobsInv' /\ Exclusive' /\ LifeTakesAll'
  BY <1>1, <1>2, <1>4, JobsGoOn DEF Places
<1>7. LifeInv'
  <2>. SUFFICES ASSUME "life" \notin clash PROVE LifeInv'
    BY <1>4 DEF LifeInv
  <2>1. dir' = TRUE
    BY <1>1, <1>2, <1>4, LifeFacts DEF LifeAt, DatasetInv, DatasetTypeOK
  <2>2. \A u \in Thread : u # t => LifeAt(u)'
    BY <1>2, <1>3, <1>4, <2>1, LifeOfOthers
  <2>3. LifeAt(t)'
    BY <1>1, <1>3, <2>1 DEF LifeAt, At, Busy
  <2>4. ASSUME NEW u \in Thread, NEW ks, NEW w \in {"save", "formats"}, At(u, ks, w)
        PROVE  At(u, ks, w)'
    BY <1>1, <1>3, <2>4 DEF At, Elsewhere
  <2>. QED BY <1>4, <2>1, <2>2, <2>3, <2>4, LifeFacts DEF LifeInv
<1>8. SettingInv'
  <2>. SUFFICES ASSUME NEW s \in Setting \ clash PROVE SettingAt(s)'
    BY <1>4 DEF SettingInv
  <2>1. \A u \in Thread : /\ Setter(u, s)' <=> Setter(u, s)
                          /\ Changing(u, s)' <=> Changing(u, s)
                          /\ Setter(u, s) => job'[u] = job[u]
    BY <1>1, <1>3 DEF Changing, Setter, Maker, At, Elsewhere
  <2>2. \A u \in Thread : Setter(u, s)' => setfile'[s] = job'[u].value
    BY <1>4, <2>1 DEF DatasetInv, SettingInv, SettingAt
  <2>3. ASSUME \A u \in Thread : ~Changing(u, s)' PROVE Agreed(s)'
    <3>1. Agreed(s)
      BY <2>1, <2>3 DEF DatasetInv, SettingInv, SettingAt
    <3>2. cache'[s] # Unset => cache'[s] = Saying(setfile'[s])
      BY <1>1, <1>4, <3>1 DEF Agreed, At, Keep
    <3>3. \A u \in Thread : At(u, {"read", "register"}, "keep")' =>
            At(u, {"read", "register"}, "keep") /\ job'[u] = job[u]
      BY <1>3 DEF At, Elsewhere
    <3>. QED BY <1>4, <3>1, <3>2, <3>3 DEF Agreed, Saying
  <2>. QED BY <2>2, <2>3 DEF SettingAt
<1>. QED BY <1>5, <1>6, <1>7, <1>8 DEF DatasetInv

LEMMA SetFileStep ==
  ASSUME DatasetInv, NEW t \in Thread, SetFile(t)
  PROVE  DatasetInv'
<1>1. /\ job[t].kind = "set" /\ job[t].kind \in Kind /\ job[t].at = "start"
      /\ job[t].setting \in Setting
  BY DEF SetFile, At, Kind, DatasetInv, JobsInv
<1>2. Busy(t) /\ Moved(t, "keep", job[t].value) /\ job[t].value \in Value
  BY <1>1, Moving DEF SetFile, DatasetInv, Places
<1>3. /\ job' \in Jobs /\ Elsewhere(t) /\ job'[t].at = "keep" /\ job'[t].value = job[t].value
      /\ job'[t].kind = job[t].kind /\ job'[t].setting = job[t].setting
  BY <1>2 DEF Moved
<1>4. /\ UNCHANGED <<vector, cache, saved, entries, said, clash>> /\ dir' = TRUE /\ store' = TRUE
      /\ setfile' \in [Setting -> Value \cup {Absent}] /\ setfile'[job[t].setting] = job[t].value
      /\ \A s \in Setting : s # job[t].setting => setfile'[s] = setfile[s]
  BY <1>1, <1>2 DEF SetFile, Opened, Quietly, DatasetInv, DatasetTypeOK
<1>5. DatasetTypeOK'
  BY <1>3, <1>4 DEF DatasetInv, DatasetTypeOK, Jobs
<1>6. JobsInv' /\ Exclusive' /\ LifeTakesAll'
  BY <1>1, <1>2, <1>4, JobsGoOn DEF Places
<1>7. LifeInv'
  <2>. SUFFICES ASSUME "life" \notin clash PROVE LifeInv'
    BY <1>4 DEF LifeInv
  <2>1. \A u \in Thread : u # t => LifeAt(u)'
    BY <1>2, <1>3, <1>4, LifeOfOthers
  <2>2. LifeAt(t)'
    BY <1>1, <1>3, <1>4 DEF LifeAt, At, Busy
  <2>3. ASSUME NEW u \in Thread, NEW ks, NEW w \in {"save", "formats"}, At(u, ks, w)
        PROVE  At(u, ks, w)'
    BY <1>1, <1>3, <2>3 DEF At, Elsewhere
  <2>4. setfile'["register"] = Absent => setfile["register"] = Absent
    BY <1>2, <1>4, DatasetsAssumption DEF Value, Absent, Default, Special
  <2>. QED BY <1>4, <2>1, <2>2, <2>3, <2>4, LifeFacts DEF LifeInv
<1>8. SettingInv'
  <2>. SUFFICES ASSUME NEW s \in Setting \ clash PROVE SettingAt(s)'
    BY <1>4 DEF SettingInv
  <2>1. CASE s = job[t].setting
    <3>1. Changing(t, s)' /\ Setter(t, s)'
      BY <1>1, <1>3, <2>1 DEF Changing, Setter, At
    <3>2. \A u \in Thread : u # t => ~Setter(u, s)'
      BY <1>1, <1>2, <1>3, <2>1, Alone, JobFacts DEF Setter, At, Elsewhere
    <3>. QED BY <1>3, <1>4, <2>1, <3>1, <3>2 DEF SettingAt
  <2>2. CASE s # job[t].setting
    BY <1>1, <1>3, <1>4, <2>2, SettingKept DEF Changing, Setter, Maker, At
  <2>. QED BY <2>1, <2>2
<1>. QED BY <1>5, <1>6, <1>7, <1>8 DEF DatasetInv

LEMMA SetCacheStep ==
  ASSUME DatasetInv, NEW t \in Thread, SetCache(t)
  PROVE  DatasetInv'
<1>1. /\ job[t].kind = "set" /\ job[t].kind \in Kind /\ job[t].at = "keep"
      /\ job[t].setting \in Setting
  BY DEF SetCache, At, Kind, DatasetInv, JobsInv
<1>2. Busy(t) /\ Freed(t) /\ job[t].value \in Value
  BY <1>1, Moving DEF SetCache, DatasetInv
<1>3. job' \in Jobs /\ Elsewhere(t) /\ job'[t] = NoJob /\ job'[t].kind = "none"
  BY <1>2, JobFacts DEF Freed
<1>4. /\ UNCHANGED <<dir, store, vector, setfile, saved, entries, clash>>
      /\ cache' \in [Setting -> Value \cup {Unset}] /\ said' \in [Setting -> Value \cup {Unset}]
      /\ cache'[job[t].setting] = job[t].value /\ said'[job[t].setting] = job[t].value
      /\ \A s \in Setting : s # job[t].setting => cache'[s] = cache[s] /\ said'[s] = said[s]
  BY <1>1, <1>2 DEF SetCache, Cached, disk, DatasetInv, DatasetTypeOK
<1>5. DatasetTypeOK'
  BY <1>3, <1>4 DEF DatasetInv, DatasetTypeOK, Jobs
<1>6. JobsInv' /\ Exclusive' /\ LifeTakesAll'
  BY <1>1, <1>2, <1>4, JobsGoOn DEF Places
<1>7. LifeInv'
  <2>. SUFFICES ASSUME "life" \notin clash PROVE LifeInv'
    BY <1>4 DEF LifeInv
  <2>1. dir' = TRUE
    BY <1>1, <1>2, <1>4, LifeFacts DEF LifeAt, DatasetInv, DatasetTypeOK
  <2>2. \A u \in Thread : u # t => LifeAt(u)'
    BY <1>2, <1>3, <1>4, <2>1, LifeOfOthers
  <2>3. LifeAt(t)'
    BY <1>3 DEF LifeAt, At, Busy
  <2>4. ASSUME NEW u \in Thread, NEW ks, NEW w \in {"save", "formats"}, At(u, ks, w)
        PROVE  At(u, ks, w)'
    BY <1>1, <1>3, <2>4 DEF At, Elsewhere
  <2>. QED BY <1>4, <2>1, <2>2, <2>3, <2>4, LifeFacts DEF LifeInv
<1>8. SettingInv'
  <2>. SUFFICES ASSUME NEW s \in Setting \ clash PROVE SettingAt(s)'
    BY <1>4 DEF SettingInv
  <2>1. CASE s = job[t].setting
    <3>1. \A u \in Thread : job'[u].kind = "none"
      BY <1>1, <1>2, <1>3, <2>1, Alone, JobFacts DEF Elsewhere
    <3>2. setfile[s] = job[t].value /\ Saying(setfile[s]) = job[t].value
      BY <1>1, <1>2, <2>1 DEF DatasetInv, SettingInv, SettingAt, Setter, At, Saying, Value
    <3>. QED BY <1>4, <2>1, <3>1, <3>2 DEF SettingAt, Agreed, At, Setter, Saying
  <2>2. CASE s # job[t].setting
    BY <1>1, <1>3, <1>4, <2>2, SettingKept DEF Changing, Setter, Maker, At
  <2>. QED BY <2>1, <2>2
<1>. QED BY <1>5, <1>6, <1>7, <1>8 DEF DatasetInv

LEMMA CreateStep ==
  ASSUME DatasetInv, NEW t \in Thread, Create(t)
  PROVE  DatasetInv'
<1>1. job[t].kind = "create" /\ job[t].kind \in Kind /\ job[t].at = "start" /\ ~dir
  BY DEF Create, At, Kind
<1>2. Busy(t) /\ Moved(t, "files", job[t].value) /\ job[t].value \in Value
  BY <1>1, Moving DEF Create, DatasetInv, Places
<1>3. /\ job' \in Jobs /\ Elsewhere(t) /\ job'[t].at = "files" /\ job'[t].kind = "create"
  BY <1>1, <1>2 DEF Moved
<1>4. UNCHANGED <<store, vector, setfile, cache, saved, entries, said, clash>> /\ dir' = TRUE
  BY DEF Create, Quietly
<1>5. DatasetTypeOK'
  BY <1>3, <1>4 DEF DatasetInv, DatasetTypeOK, Jobs
<1>6. JobsInv' /\ Exclusive' /\ LifeTakesAll'
  BY <1>1, <1>2, <1>4, JobsGoOn DEF Places
<1>7. LifeInv'
  <2>. SUFFICES ASSUME "life" \notin clash PROVE LifeInv'
    BY <1>4 DEF LifeInv
  <2>1. \A u \in Thread : u # t => LifeAt(u)'
    BY <1>1, <1>2, <1>3, LifeOfOthers
  <2>2. Nothing
    BY <1>1, LifeFacts
  <2>3. LifeAt(t)'
    BY <1>3, <1>4, <2>2 DEF LifeAt, At, Busy, Nothing, Blank
  <2>. QED BY <1>4, <2>1, <2>2, <2>3 DEF LifeInv, Nothing
<1>8. SettingInv'
  <2>. SUFFICES ASSUME NEW s \in Setting \ clash PROVE SettingAt(s)'
    BY <1>4 DEF SettingInv
  <2>. QED BY <1>1, <1>3, <1>4, SettingKept DEF Changing, Setter, Maker, At
<1>. QED BY <1>5, <1>6, <1>7, <1>8 DEF DatasetInv

LEMMA InitVectorStep ==
  ASSUME DatasetInv, NEW t \in Thread, InitVector(t)
  PROVE  DatasetInv'
<1>1. job[t].kind \in {"create", "register"} /\ job[t].kind \in Kind /\ job[t].at = "files"
  BY DEF InitVector, At, Kind
<1>2. Busy(t) /\ Moved(t, "formats", job[t].value) /\ job[t].value \in Value
  BY <1>1, Moving DEF InitVector, DatasetInv, Places
<1>3. /\ job' \in Jobs /\ Elsewhere(t) /\ job'[t].at = "formats" /\ job'[t].kind = job[t].kind
  BY <1>2 DEF Moved
<1>4. /\ UNCHANGED <<setfile, cache, saved, entries, said, clash>>
      /\ dir' = TRUE /\ store' = TRUE /\ vector' = TRUE
  BY DEF InitVector, Opened, Quietly
<1>5. DatasetTypeOK'
  BY <1>3, <1>4 DEF DatasetInv, DatasetTypeOK, Jobs
<1>6. JobsInv' /\ Exclusive' /\ LifeTakesAll'
  BY <1>1, <1>2, <1>4, JobsGoOn DEF Places
<1>7. LifeInv'
  <2>. SUFFICES ASSUME "life" \notin clash PROVE LifeInv'
    BY <1>4 DEF LifeInv
  <2>1. \A u \in Thread : u # t => LifeAt(u)'
    BY <1>2, <1>3, <1>4, LifeOfOthers
  <2>2. LifeAt(t)'
    BY <1>1, <1>3, <1>4, LifeFacts DEF LifeAt, At, Busy, Blank
  <2>3. ASSUME NEW u \in Thread, At(u, {"register"}, "save") PROVE At(u, {"register"}, "save")'
    BY <1>1, <1>3, <2>3 DEF At, Elsewhere
  <2>4. At(t, {"create", "register"}, "formats")'
    BY <1>1, <1>3 DEF At
  <2>. QED BY <1>4, <2>1, <2>2, <2>3, <2>4, LifeFacts DEF LifeInv
<1>8. SettingInv'
  <2>. SUFFICES ASSUME NEW s \in Setting \ clash PROVE SettingAt(s)'
    BY <1>4 DEF SettingInv
  <2>. QED BY <1>1, <1>3, <1>4, SettingKept DEF Changing, Setter, Maker, At
<1>. QED BY <1>5, <1>6, <1>7, <1>8 DEF DatasetInv

LEMMA InitFormatsStep ==
  ASSUME DatasetInv, NEW t \in Thread, InitFormats(t)
  PROVE  DatasetInv'
<1>. DEFINE w == IF job[t].kind = "create" THEN "auth" ELSE "commit"
<1>1. job[t].kind \in {"create", "register"} /\ job[t].kind \in Kind /\ job[t].at = "formats"
  BY DEF InitFormats, At, Kind
<1>2. Busy(t) /\ Moved(t, w, job[t].value) /\ job[t].value \in Value /\ w \in Places
  BY <1>1, Moving DEF InitFormats, DatasetInv, Places
<1>3. /\ job' \in Jobs /\ Elsewhere(t) /\ job'[t].kind = job[t].kind
      /\ job[t].kind = "create" => job'[t].at = "auth"
      /\ job[t].kind = "register" => job'[t].at = "commit"
  BY <1>2 DEF Moved
<1>4. /\ UNCHANGED <<vector, saved, entries, said, clash>>
      /\ dir' \in BOOLEAN /\ store' \in BOOLEAN
      /\ ~Broken /\ dir => dir' = TRUE
      /\ setfile' \in [Setting -> Value \cup {Absent}] /\ cache' \in [Setting -> Value \cup {Unset}]
      /\ \A s \in Setting \ {"register"} : setfile'[s] = setfile[s] /\ cache'[s] = cache[s]
      /\ setfile["register"] = Absent =>
           setfile'["register"] = Default /\ cache'["register"] = Default
      /\ setfile["register"] # Absent =>
           setfile'["register"] = setfile["register"] /\ cache'["register"] = cache["register"]
      /\ setfile'["register"] # Absent
  <2>1. "register" \in Setting /\ Default \in Value /\ Default # Absent
    BY DatasetsAssumption DEF Value, Default, Absent
  <2>2. /\ UNCHANGED <<vector, saved, entries, said, clash>>
        /\ {dir, store} \subseteq BOOLEAN
        /\ setfile \in [Setting -> Value \cup {Absent}] /\ cache \in [Setting -> Value \cup {Unset}]
    BY DEF InitFormats, Quietly, DatasetInv, DatasetTypeOK
  <2>3. CASE setfile["register"] = Absent
    BY <2>1, <2>2, <2>3 DEF InitFormats, Opened, Cached
  <2>4. CASE setfile["register"] # Absent
    BY <2>1, <2>2, <2>4 DEF InitFormats
  <2>. QED BY <2>3, <2>4
<1>5. DatasetTypeOK'
  BY <1>3, <1>4 DEF DatasetInv, DatasetTypeOK, Jobs
<1>6. JobsInv' /\ Exclusive' /\ LifeTakesAll'
  BY <1>1, <1>2, <1>4, JobsGoOn
<1>7. LifeInv'
  <2>. SUFFICES ASSUME "life" \notin clash PROVE LifeInv'
    BY <1>4 DEF LifeInv
  <2>1. dir' = TRUE /\ vector' = TRUE /\ LifeAt(t)
    BY <1>1, <1>2, <1>4, LifeFacts DEF LifeAt, At, DatasetInv, DatasetTypeOK
  <2>2. \A u \in Thread : u # t => LifeAt(u)'
    BY <1>2, <1>3, <2>1, LifeOfOthers
  <2>3. LifeAt(t)'
    <3>1. CASE job[t].kind = "register"
      BY <1>3, <2>1, <3>1 DEF LifeAt, At, Busy
    <3>2. CASE job[t].kind = "create"
      <4>1. Blank
        BY <1>1, <2>1, <3>2 DEF LifeAt, At
      <4>2. \A s \in Setting : setfile[s] = Absent /\ cache[s] = Unset
        BY <4>1 DEF Blank, None
      <4>. QED BY <1>3, <1>4, <2>1, <3>2, <4>2, DatasetsAssumption DEF LifeAt, At, Busy
    <3>. QED BY <1>1, <3>1, <3>2
  <2>4. ASSUME NEW u \in Thread, At(u, {"register"}, "save") PROVE At(u, {"register"}, "save")'
    BY <1>1, <1>3, <2>4 DEF At, Elsewhere
  <2>. QED BY <1>4, <2>1, <2>2, <2>3, <2>4, LifeFacts DEF LifeInv
<1>8. SettingInv'
  <2>. SUFFICES ASSUME NEW s \in Setting \ clash PROVE SettingAt(s)'
    BY <1>4 DEF SettingInv
  <2>1. CASE setfile'[s] = setfile[s] /\ cache'[s] = cache[s]
    BY <1>1, <1>3, <1>4, <2>1, SettingKept DEF Changing, Setter, Maker, At
  <2>2. CASE setfile'[s] # setfile[s] \/ cache'[s] # cache[s]
    <3>1. /\ s = "register" /\ setfile[s] = Absent
          /\ setfile'[s] = Default /\ cache'[s] = Default
      BY <1>4, <2>2
    <3>2. \A u \in Thread : ~Setter(u, s)' /\ (Changing(u, s) => Changing(u, s)')
      BY <1>1, <1>2, <1>3, Alone DEF Changing, Setter, Maker, At, Elsewhere
    <3>3. \A u \in Thread : At(u, {"read", "register"}, "keep")' =>
            At(u, {"read", "register"}, "keep") /\ job'[u] = job[u]
      BY <1>1, <1>3 DEF At, Elsewhere
    <3>4. Saying(setfile[s]) = Default /\ Saying(setfile'[s]) = Default
      BY <3>1 DEF Saying, Absent, Special, Default
    <3>5. ASSUME \A u \in Thread : ~Changing(u, s)' PROVE Agreed(s)'
      <4>1. Agreed(s)
        BY <3>2, <3>5 DEF DatasetInv, SettingInv, SettingAt
      <4>2. said'[s] # Unset => said'[s] = Default
        BY <1>4, <3>4, <4>1 DEF Agreed
      <4>3. \A u \in Thread : At(u, {"read", "register"}, "keep")' /\ job'[u].setting = s =>
              job'[u].value = Default
        BY <3>3, <3>4, <4>1 DEF Agreed
      <4>. QED BY <3>1, <3>4, <4>2, <4>3 DEF Agreed, Saying
    <3>. QED BY <3>2, <3>5 DEF SettingAt
  <2>. QED BY <2>1, <2>2
<1>. QED BY <1>5, <1>6, <1>7, <1>8 DEF DatasetInv

LEMMA InitAuthStep ==
  ASSUME DatasetInv, NEW t \in Thread, InitAuth(t)
  PROVE  DatasetInv'
<1>. DEFINE wanted == "auth" \in Setting /\ job[t].value = Special
<1>1. job[t].kind = "create" /\ job[t].kind \in Kind /\ job[t].at = "auth"
  BY DEF InitAuth, At, Kind
<1>2. Busy(t) /\ Freed(t) /\ job[t].value \in Value
  BY <1>1, Moving DEF InitAuth, DatasetInv
<1>3. job' \in Jobs /\ Elsewhere(t) /\ job'[t] = NoJob /\ job'[t].kind = "none"
  BY <1>2, JobFacts DEF Freed
<1>4. /\ UNCHANGED <<vector, saved, entries, clash>>
      /\ dir' \in BOOLEAN /\ store' \in BOOLEAN
      /\ dir => dir' = TRUE
      /\ setfile' \in [Setting -> Value \cup {Absent}] /\ cache' \in [Setting -> Value \cup {Unset}]
      /\ said' \in [Setting -> Value \cup {Unset}]
      /\ \A s \in Setting : said'[s] = IF s = "auth" /\ wanted THEN Special ELSE Default
      /\ \A s \in Setting :
           IF s = "auth" /\ wanted /\ setfile["auth"] = Absent
           THEN setfile'[s] = Special /\ cache'[s] = Special
           ELSE setfile'[s] = setfile[s] /\ cache'[s] = cache[s]
  <2>1. /\ UNCHANGED <<vector, saved, entries, clash>>
        /\ {dir, store} \subseteq BOOLEAN
        /\ setfile \in [Setting -> Value \cup {Absent}] /\ cache \in [Setting -> Value \cup {Unset}]
        /\ said' = [s \in Setting |-> IF s = "auth" /\ wanted THEN Special ELSE Default]
        /\ Special \in Value /\ Default \in Value
    BY DEF InitAuth, DatasetInv, DatasetTypeOK, Value
  <2>2. /\ said' \in [Setting -> Value \cup {Unset}]
        /\ \A s \in Setting : said'[s] = IF s = "auth" /\ wanted THEN Special ELSE Default
    BY <2>1
  <2>3. CASE wanted /\ setfile["auth"] = Absent
    BY <2>1, <2>2, <2>3 DEF InitAuth, Opened, Cached
  <2>4. CASE ~(wanted /\ setfile["auth"] = Absent)
    BY <2>1, <2>2, <2>4 DEF InitAuth
  <2>. QED BY <2>3, <2>4
<1>5. DatasetTypeOK'
  BY <1>3, <1>4 DEF DatasetInv, DatasetTypeOK, Jobs
<1>6. JobsInv' /\ Exclusive' /\ LifeTakesAll'
  BY <1>1, <1>2, <1>4, JobsGoOn
<1>7. ASSUME "life" \notin clash
      PROVE  /\ dir /\ LifeAt(t) /\ \A u \in Thread : job'[u] = NoJob
             /\ \A u \in Thread : u # t => job[u] = NoJob
  BY <1>1, <1>2, <1>3, <1>7, Alone, LifeFacts DEF LifeAt, Elsewhere
<1>8. LifeInv'
  <2>. SUFFICES ASSUME "life" \notin clash PROVE LifeInv'
    BY <1>4 DEF LifeInv
  <2>1. \A u \in Thread : LifeAt(u)'
    BY <1>7, JobFacts DEF LifeAt, At, Busy
  <2>2. dir' = TRUE /\ setfile'["register"] # Absent
    BY <1>1, <1>4, <1>7, DatasetsAssumption DEF LifeAt, At, Default, Absent
  <2>3. ~\E u \in Thread : At(u, {"register"}, "save")
    BY <1>1, <1>7, JobFacts DEF At
  <2>. QED BY <1>4, <2>1, <2>2, <2>3, LifeFacts DEF LifeInv
<1>9. SettingInv'
  <2>. SUFFICES ASSUME NEW s \in Setting \ clash PROVE SettingAt(s)'
    BY <1>4 DEF SettingInv
  <2>1. "life" \notin clash
    BY DEF DatasetInv, LifeTakesAll
  <2>2. /\ setfile["register"] = Default /\ cache["register"] = Default
        /\ s # "register" => setfile[s] = Absent /\ cache[s] = Unset
    BY <1>1, <1>7, <2>1 DEF LifeAt, At
  <2>3. \A u \in Thread : job'[u].kind = "none"
    BY <1>7, <2>1, JobFacts
  <2>4. /\ cache'[s] # Unset => cache'[s] = Saying(setfile'[s])
        /\ said'[s] = Saying(setfile'[s])
    BY <1>4, <2>2 DEF Saying, Default, Special, Absent
  <2>. QED BY <2>3, <2>4 DEF SettingAt, Agreed, Setter, At, Saying
<1>. QED BY <1>5, <1>6, <1>8, <1>9 DEF DatasetInv

LEMMA DeleteStep ==
  ASSUME DatasetInv, NEW t \in Thread, Delete(t)
  PROVE  DatasetInv'
<1>1. job[t].kind = "delete" /\ job[t].kind \in Kind /\ job[t].at = "start" /\ dir
  BY DEF Delete, At, Kind
<1>2. Busy(t) /\ Moved(t, "remove", job[t].value) /\ job[t].value \in Value
  BY <1>1, Moving DEF Delete, DatasetInv, Places
<1>3. /\ job' \in Jobs /\ Elsewhere(t) /\ job'[t].at = "remove" /\ job'[t].kind = "delete"
  BY <1>1, <1>2 DEF Moved
<1>4. /\ UNCHANGED <<dir, vector, setfile, saved, said, clash>>
      /\ store' = FALSE /\ entries' = FALSE /\ cache' = None
      /\ cache' \in [Setting -> Value \cup {Unset}]
  BY DEF Delete, disk, Quietly, Forgotten, None
<1>5. DatasetTypeOK'
  BY <1>3, <1>4 DEF DatasetInv, DatasetTypeOK, Jobs
<1>6. JobsInv' /\ Exclusive' /\ LifeTakesAll'
  BY <1>1, <1>2, <1>4, JobsGoOn DEF Places
<1>7. LifeInv'
  <2>. SUFFICES ASSUME "life" \notin clash PROVE LifeInv'
    BY <1>4 DEF LifeInv
  <2>1. \A u \in Thread : u # t => LifeAt(u)'
    BY <1>1, <1>2, <1>3, LifeOfOthers
  <2>2. LifeAt(t)'
    BY <1>1, <1>3, <1>4 DEF LifeAt, At, Busy, None
  <2>3. ~\E u \in Thread : At(u, {"create", "register"}, "formats")
    BY <1>1, <1>2, Alone, JobFacts DEF At
  <2>. QED BY <1>1, <1>4, <2>1, <2>2, <2>3, LifeFacts DEF LifeInv
<1>8. SettingInv'
  <2>. SUFFICES ASSUME NEW s \in Setting \ clash PROVE SettingAt(s)'
    BY <1>4 DEF SettingInv
  <2>1. Changing(t, s)' /\ ~Setter(t, s)'
    BY <1>3 DEF Changing, Setter, At
  <2>2. \A u \in Thread : Setter(u, s)' => Setter(u, s) /\ job'[u] = job[u]
    BY <1>3, <2>1 DEF Setter, At, Elsewhere
  <2>. QED BY <1>4, <2>1, <2>2 DEF DatasetInv, SettingInv, SettingAt
<1>. QED BY <1>5, <1>6, <1>7, <1>8 DEF DatasetInv

LEMMA RemoveFilesStep ==
  ASSUME DatasetInv, NEW t \in Thread, RemoveFiles(t)
  PROVE  DatasetInv'
<1>1. job[t].kind = "delete" /\ job[t].kind \in Kind /\ job[t].at = "remove"
  BY DEF RemoveFiles, At, Kind
<1>2. Busy(t) /\ Freed(t)
  BY <1>1, Moving DEF RemoveFiles, DatasetInv
<1>3. job' \in Jobs /\ Elsewhere(t) /\ job'[t] = NoJob
  BY <1>2 DEF Freed
<1>4. /\ UNCHANGED <<store, cache, entries, clash>>
      /\ dir' = FALSE /\ vector' = FALSE /\ saved' = FALSE
      /\ setfile' \in [Setting -> Value \cup {Absent}] /\ said' \in [Setting -> Value \cup {Unset}]
      /\ \A s \in Setting : setfile'[s] = Absent /\ said'[s] = Unset
  BY DEF RemoveFiles, None
<1>5. DatasetTypeOK'
  BY <1>3, <1>4 DEF DatasetInv, DatasetTypeOK, Jobs
<1>6. JobsInv' /\ Exclusive' /\ LifeTakesAll'
  BY <1>1, <1>2, <1>4, JobsGoOn
<1>7. ASSUME "life" \notin clash
      PROVE  ~store /\ ~entries /\ cache = None /\ \A u \in Thread : job'[u] = NoJob
  BY <1>1, <1>2, <1>3, <1>7, Alone, LifeFacts DEF LifeAt, At, Elsewhere
<1>8. LifeInv'
  BY <1>4, <1>7, JobFacts DEF LifeInv, LifeAt, At, Busy, Nothing, Blank, None
<1>9. SettingInv'
  <2>. SUFFICES ASSUME NEW s \in Setting \ clash PROVE SettingAt(s)'
    BY <1>4 DEF SettingInv
  <2>1. "life" \notin clash
    BY DEF DatasetInv, LifeTakesAll
  <2>2. \A u \in Thread : job'[u].kind = "none"
    BY <1>7, <2>1, JobFacts
  <2>3. cache'[s] = Unset /\ said'[s] = Unset
    BY <1>4, <1>7, <2>1 DEF None
  <2>. QED BY <2>2, <2>3 DEF SettingAt, Agreed, Setter, At
<1>. QED BY <1>5, <1>6, <1>8, <1>9 DEF DatasetInv

LEMMA EnsureStep ==
  ASSUME DatasetInv, NEW t \in Thread, Ensure(t)
  PROVE  DatasetInv'
<1>. DEFINE w == IF vector THEN "commit" ELSE "files"
<1>1. job[t].kind = "register" /\ job[t].kind \in Kind /\ job[t].at = "got"
  BY DEF Ensure, At, Kind
<1>2. Busy(t) /\ Moved(t, w, job[t].value) /\ job[t].value \in Value /\ w \in Places
  BY <1>1, Moving DEF Ensure, Initialised, DatasetInv, Places
<1>3. /\ job' \in Jobs /\ Elsewhere(t) /\ job'[t].kind = "register" /\ job'[t].at = w
  BY <1>1, <1>2 DEF Moved
<1>4. /\ UNCHANGED <<store, vector, setfile, cache, saved, entries, said, clash>>
      /\ dir' = (dir \/ ~vector) /\ dir' \in BOOLEAN
  BY DEF Ensure, Initialised, Quietly
<1>5. DatasetTypeOK'
  BY <1>3, <1>4 DEF DatasetInv, DatasetTypeOK, Jobs
<1>6. JobsInv' /\ Exclusive' /\ LifeTakesAll'
  BY <1>1, <1>2, <1>4, JobsGoOn
<1>7. LifeInv'
  <2>. SUFFICES ASSUME "life" \notin clash PROVE LifeInv'
    BY <1>4 DEF LifeInv
  <2>1. dir' = TRUE
    BY <1>4, LifeFacts DEF Nothing
  <2>2. \A u \in Thread : u # t => LifeAt(u)'
    BY <1>2, <1>3, <1>4, <2>1, LifeOfOthers
  <2>3. LifeAt(t)'
    BY <1>3, <1>4, <2>1 DEF LifeAt, At, Busy
  <2>4. ASSUME NEW u \in Thread, NEW ks, NEW x \in {"save", "formats"}, At(u, ks, x)
        PROVE  At(u, ks, x)'
    BY <1>1, <1>3, <2>4 DEF At, Elsewhere
  <2>. QED BY <1>4, <2>1, <2>2, <2>3, <2>4, LifeFacts DEF LifeInv
<1>8. SettingInv'
  <2>. SUFFICES ASSUME NEW s \in Setting \ clash PROVE SettingAt(s)'
    BY <1>4 DEF SettingInv
  <2>. QED BY <1>1, <1>3, <1>4, SettingKept DEF Changing, Setter, Maker, At
<1>. QED BY <1>5, <1>6, <1>7, <1>8 DEF DatasetInv

LEMMA CommitStep ==
  ASSUME DatasetInv, NEW t \in Thread, Commit(t)
  PROVE  DatasetInv'
<1>1. job[t].kind = "register" /\ job[t].kind \in Kind /\ job[t].at = "commit"
  BY DEF Commit, At, Kind
<1>2. Busy(t) /\ Moved(t, "save", job[t].value) /\ job[t].value \in Value
  BY <1>1, Moving DEF Commit, DatasetInv, Places
<1>3. /\ job' \in Jobs /\ Elsewhere(t) /\ job'[t].kind = "register" /\ job'[t].at = "save"
  BY <1>1, <1>2 DEF Moved
<1>4. UNCHANGED <<dir, store, vector, setfile, cache, saved, said, clash>> /\ entries' = TRUE
  BY DEF Commit, disk, Quietly
<1>5. DatasetTypeOK'
  BY <1>3, <1>4 DEF DatasetInv, DatasetTypeOK, Jobs
<1>6. JobsInv' /\ Exclusive' /\ LifeTakesAll'
  BY <1>1, <1>2, <1>4, JobsGoOn DEF Places
<1>7. LifeInv'
  <2>. SUFFICES ASSUME "life" \notin clash PROVE LifeInv'
    BY <1>4 DEF LifeInv
  <2>1. dir' = TRUE /\ vector' = TRUE
    BY <1>1, <1>2, <1>4, LifeFacts DEF LifeAt, At, DatasetInv, DatasetTypeOK
  <2>2. \A u \in Thread : u # t => LifeAt(u)'
    BY <1>2, <1>3, <2>1, LifeOfOthers
  <2>3. LifeAt(t)'
    BY <1>3, <2>1 DEF LifeAt, At, Busy
  <2>4. ASSUME NEW u \in Thread, At(u, {"create", "register"}, "formats")
        PROVE  At(u, {"create", "register"}, "formats")'
    BY <1>1, <1>3, <2>4 DEF At, Elsewhere
  <2>5. At(t, {"register"}, "save")'
    BY <1>3 DEF At
  <2>. QED BY <1>4, <2>1, <2>2, <2>3, <2>4, <2>5, LifeFacts DEF LifeInv
<1>8. SettingInv'
  <2>. SUFFICES ASSUME NEW s \in Setting \ clash PROVE SettingAt(s)'
    BY <1>4 DEF SettingInv
  <2>. QED BY <1>1, <1>3, <1>4, SettingKept DEF Changing, Setter, Maker, At
<1>. QED BY <1>5, <1>6, <1>7, <1>8 DEF DatasetInv

LEMMA SaveStep ==
  ASSUME DatasetInv, NEW t \in Thread, Save(t)
  PROVE  DatasetInv'
<1>1. job[t].kind = "register" /\ job[t].kind \in Kind /\ job[t].at = "save"
  BY DEF Save, At, Kind
<1>2. Busy(t) /\ Freed(t)
  BY <1>1, Moving DEF Save, DatasetInv
<1>3. job' \in Jobs /\ Elsewhere(t) /\ job'[t] = NoJob /\ job'[t].kind = "none"
  BY <1>2, JobFacts DEF Freed
<1>4. /\ UNCHANGED <<vector, setfile, cache, entries, said, clash>>
      /\ dir' = TRUE /\ store' = TRUE /\ saved' = TRUE
  BY DEF Save, Opened, Quietly
<1>5. DatasetTypeOK'
  BY <1>3, <1>4 DEF DatasetInv, DatasetTypeOK, Jobs
<1>6. JobsInv' /\ Exclusive' /\ LifeTakesAll'
  BY <1>1, <1>2, <1>4, JobsGoOn
<1>7. LifeInv'
  <2>. SUFFICES ASSUME "life" \notin clash PROVE LifeInv'
    BY <1>4 DEF LifeInv
  <2>1. vector' = TRUE
    BY <1>1, <1>2, <1>4, LifeFacts DEF LifeAt, At, DatasetInv, DatasetTypeOK
  <2>2. \A u \in Thread : u # t => LifeAt(u)'
    BY <1>2, <1>3, <1>4, <2>1, LifeOfOthers
  <2>3. LifeAt(t)'
    BY <1>3 DEF LifeAt, At, Busy
  <2>4. ASSUME NEW u \in Thread, At(u, {"create", "register"}, "formats")
        PROVE  At(u, {"create", "register"}, "formats")'
    BY <1>1, <1>3, <2>4 DEF At, Elsewhere
  <2>. QED BY <1>4, <2>1, <2>2, <2>3, <2>4, LifeFacts DEF LifeInv
<1>8. SettingInv'
  <2>. SUFFICES ASSUME NEW s \in Setting \ clash PROVE SettingAt(s)'
    BY <1>4 DEF SettingInv
  <2>. QED BY <1>1, <1>3, <1>4, SettingKept DEF Changing, Setter, Maker, At
<1>. QED BY <1>5, <1>6, <1>7, <1>8 DEF DatasetInv

LEMMA FailStep ==
  ASSUME DatasetInv, NEW t \in Thread, Fail(t)
  PROVE  DatasetInv'
<1>1. job[t].kind \in Kind
  BY DEF Fail, At, Kind
<1>2. Busy(t) /\ Freed(t)
  BY <1>1, Moving DEF Fail, BreaksOff, DatasetInv
<1>3. /\ UNCHANGED <<dir, store, vector, setfile, cache, entries, saved, said>>
      /\ clash' = clash \cup Setting \cup {"life"}
  BY DEF Fail, BreaksOff
<1>4. DatasetTypeOK'
  BY <1>2, <1>3 DEF Freed, DatasetInv, DatasetTypeOK, Jobs
<1>5. JobsInv' /\ Exclusive' /\ LifeTakesAll'
  BY <1>2, <1>3, JobsGoOn
<1>6. LifeInv' /\ SettingInv'
  BY <1>3 DEF LifeInv, SettingInv
<1>. QED BY <1>4, <1>5, <1>6 DEF DatasetInv

LEMMA AsideStep ==
  ASSUME DatasetInv, NEW t \in Thread,
         \/ ReadCached(t) \/ ReadAbsent(t) \/ Answer(t) \/ SetRefused(t)
         \/ CreateRefused(t) \/ DeleteRefused(t) \/ RegisterRefused(t)
  PROVE  DatasetInv'
<1>1. /\ job[t].kind \in Kind /\ job[t].at \in {"start", "got"}
      /\ UNCHANGED <<dir, store, vector, setfile, cache, entries, saved, said, clash>>
  BY DEF ReadCached, ReadAbsent, Answer, SetRefused, CreateRefused, DeleteRefused,
         RegisterRefused, At, Kind, Quietly, disk
<1>2. CASE ReadCached(t)
  <2>1. cache[job[t].setting] \in Value
    BY <1>2 DEF ReadCached, At, DatasetInv, DatasetTypeOK, JobsInv
  <2>. QED BY <1>1, <1>2, <2>1, Moving, Aside DEF ReadCached, DatasetInv, Places
<1>3. CASE ReadAbsent(t)
  <2>1. Default \in Value
    BY DEF Value
  <2>. QED BY <1>1, <1>3, <2>1, Moving, Aside DEF ReadAbsent, DatasetInv, Places
<1>4. CASE Done(t)
  BY <1>1, <1>4, Moving, Aside DEF DatasetInv
<1>. QED BY <1>2, <1>3, <1>4
     DEF Answer, SetRefused, CreateRefused, DeleteRefused, RegisterRefused

LEMMA DatasetSteps ==
  ASSUME DatasetInv, NEW t \in Thread, DatasetStep(t) \/ Answer(t)
  PROVE  DatasetInv'
BY AsideStep, ReadFileStep, KeepStep, SetFileStep, SetCacheStep, CreateStep, InitVectorStep,
   InitFormatsStep, InitAuthStep, DeleteStep, RemoveFilesStep, EnsureStep, CommitStep,
   SaveStep, FailStep DEF DatasetStep
-----------------------------------------------------------------------------
(* Jobs that begin, and those they overlap: who changes the dataset, or a  *)
(* setting, is noted.                                                      *)
Noted(j, C) ==
  /\ j.kind \in {"create", "delete"} => "life" \in C
  /\ j.kind = "set" => j.setting \in C

LEMMA UnsureFacts ==
  ASSUME NEW j, NEW i
  PROVE  /\ Unsure(j, i) \subseteq Setting \cup {"life"}
         /\ "life" \in Unsure(j, i) => Setting \subseteq Unsure(j, i)
         /\ i # NoJob /\ (j.kind = "set" => j.setting \in Setting)
              /\ (i.kind = "set" => i.setting \in Setting) =>
              Noted(j, Unsure(j, i)) /\ Noted(i, Unsure(j, i))
<1>1. "life" \notin Setting
  BY DatasetsAssumption
<1>2. CASE i = NoJob
  BY <1>2 DEF Unsure
<1>3. CASE i # NoJob /\ {j.kind, i.kind} \cap {"create", "delete"} # {}
  BY <1>3 DEF Unsure, Noted
<1>4. CASE i # NoJob /\ {j.kind, i.kind} \cap {"create", "delete"} = {}
  <2>1. Unsure(j, i) = {s \in Setting : "set" \in {j.kind, i.kind} /\ s \in {j.setting, i.setting}}
    BY <1>4 DEF Unsure
  <2>. QED BY <1>1, <1>4, <2>1 DEF Noted
<1>. QED BY <1>2, <1>3, <1>4

Overlapping(j, T) == clash' = clash \cup UNION {Unsure(j, job[i]) : i \in T}

LEMMA UnsureOf ==
  ASSUME DatasetInv, NEW j, NEW T, T \subseteq Thread, j.kind = "set" => j.setting \in Setting,
         Overlapping(j, T)
  PROVE  /\ clash \subseteq clash' /\ clash' \subseteq Setting \cup {"life"}
         /\ "life" \in clash' => "life" \in clash \/ Setting \subseteq clash'
         /\ \A i \in T : job[i] # NoJob => Noted(j, clash') /\ Noted(job[i], clash')
<1>. USE DEF Overlapping
<1>1. \A i \in T : Unsure(j, job[i]) \subseteq clash'
  OBVIOUS
<1>2. clash' \subseteq Setting \cup {"life"}
  BY UnsureFacts DEF DatasetInv, DatasetTypeOK
<1>3. "life" \in clash' => "life" \in clash \/ Setting \subseteq clash'
  <2>. SUFFICES ASSUME NEW i \in T, "life" \in Unsure(j, job[i]) PROVE Setting \subseteq clash'
    OBVIOUS
  <2>. QED BY <1>1, UnsureFacts
<1>4. ASSUME NEW i \in T, job[i] # NoJob PROVE Noted(j, clash') /\ Noted(job[i], clash')
  <2>1. job[i].kind = "set" => job[i].setting \in Setting
    BY DEF DatasetInv, JobsInv
  <2>2. Noted(j, Unsure(j, job[i])) /\ Noted(job[i], Unsure(j, job[i]))
    BY <1>4, <2>1, UnsureFacts
  <2>. QED BY <1>1, <2>2 DEF Noted
<1>. QED BY <1>2, <1>3, <1>4

(* Thread t begins job j; it, or the event loop, has just done with a read. *)
LEMMA BeginStep ==
  ASSUME DatasetInv, NEW t \in Thread, NEW j \in Job, j.at = "start",
         j.kind \in {"read", "set", "register"} => j.setting \in Setting,
         t = Loop => j.kind = "read",
         job' \in Jobs, job'[t] = j,
         job[t] = NoJob \/ (job[t].kind = "read" /\ job[t].at = "got"),
         \A u \in Thread : u # t => \/ job'[u] = job[u]
                                    \/ job'[u] = NoJob /\ job[u].kind = "read" /\ job[u].at = "got",
         clash \subseteq clash', clash' \subseteq Setting \cup {"life"},
         "life" \in clash' => "life" \in clash \/ Setting \subseteq clash',
         \A u \in Thread : u # t /\ job'[u] # NoJob => Noted(j, clash') /\ Noted(job[u], clash'),
         UNCHANGED <<dir, store, vector, setfile, cache, entries, saved, said>>
  PROVE  DatasetInv'
<1>1. j # NoJob /\ \A u \in Thread : u # t => job'[u] = job[u] \/ job'[u].kind = "none"
  BY JobFacts
<1>2. DatasetTypeOK'
  BY DEF DatasetInv, DatasetTypeOK, Jobs
<1>3. JobsInv'
  BY <1>1 DEF DatasetInv, JobsInv
<1>4. Exclusive'
  <2>. SUFFICES ASSUME NEW a \in Thread, NEW b \in Thread, a # b, job'[a] # NoJob, job'[b] # NoJob
                PROVE  /\ job'[a].kind \in {"create", "delete"} => "life" \in clash'
                       /\ job'[a].kind = "set" => job'[a].setting \in clash'
    BY DEF Exclusive, Busy
  <2>1. CASE a = t
    BY <2>1 DEF Noted
  <2>2. CASE b = t
    BY <2>2 DEF Noted
  <2>3. CASE a # t /\ b # t
    <3>1. job[a] # NoJob /\ job[b] # NoJob /\ job'[a] = job[a]
      BY <2>3
    <3>. QED BY <3>1 DEF DatasetInv, Exclusive, Busy
  <2>. QED BY <2>1, <2>2, <2>3
<1>5. LifeTakesAll'
  BY DEF DatasetInv, LifeTakesAll
<1>6. LifeInv'
  <2>. SUFFICES ASSUME "life" \notin clash PROVE LifeInv'
    BY DEF LifeInv
  <2>1. \A u \in Thread : LifeAt(u)'
    BY <1>1, JobFacts, LifeFacts DEF LifeAt, At, Busy, Blank
  <2>2. ASSUME NEW u \in Thread, NEW ks, NEW w \in {"save", "formats"}, At(u, ks, w)
        PROVE  At(u, ks, w)'
    BY <2>2, JobFacts DEF At
  <2>3. /\ (\E u \in Thread : At(u, {"register"}, "save")) =>
             \E u \in Thread : At(u, {"register"}, "save")'
        /\ (\E u \in Thread : At(u, {"create", "register"}, "formats")) =>
             \E u \in Thread : At(u, {"create", "register"}, "formats")'
    BY <2>2
  <2>. QED BY <2>1, <2>3, LifeFacts DEF LifeInv, Nothing, Blank
<1>7. SettingInv'
  <2>. SUFFICES ASSUME NEW s \in Setting \ clash PROVE SettingAt(s)'
    BY DEF SettingInv
  <2>1. \A u \in Thread : /\ Setter(u, s)' => Setter(u, s) /\ job'[u] = job[u]
                          /\ Changing(u, s) => Changing(u, s)'
                          /\ At(u, {"read", "register"}, "keep")' =>
                               At(u, {"read", "register"}, "keep") /\ job'[u] = job[u]
    BY <1>1, JobFacts DEF Changing, Setter, Maker, At
  <2>2. SettingAt(s)
    BY DEF DatasetInv, SettingInv
  <2>. QED BY <2>1, <2>2 DEF SettingAt, Agreed, Saying
<1>. QED BY <1>2, <1>3, <1>4, <1>5, <1>6, <1>7 DEF DatasetInv

LEMMA BeginFacts ==
  ASSUME DatasetInv, NEW t \in Thread, NEW kind \in Kind, NEW s \in Setting \cup {"none"},
         NEW v \in Value, Begin(t, kind, s, v)
  PROVE  LET j == [kind |-> kind, at |-> "start", setting |-> s, value |-> v]
         IN  /\ j \in Job /\ job[t] = NoJob
             /\ job' \in Jobs /\ Elsewhere(t) /\ job'[t] = j
             /\ clash' = clash \cup UNION {Unsure(j, job[i]) : i \in Thread}
             /\ UNCHANGED <<dir, store, vector, setfile, cache, entries, saved, said>>
<1>. DEFINE j == [kind |-> kind, at |-> "start", setting |-> s, value |-> v]
<1>1. j \in Job
  BY JobFacts
<1>2. /\ job[t] = NoJob /\ job' = [job EXCEPT ![t] = j]
      /\ clash' = clash \cup UNION {Unsure(j, job[i]) : i \in Thread}
      /\ UNCHANGED <<dir, store, vector, setfile, cache, entries, saved, said>>
  BY DEF Begin, Busy
<1>. HIDE DEF j
<1>3. job' \in Jobs /\ Elsewhere(t) /\ job'[t] = j
  BY <1>1, <1>2 DEF DatasetInv, DatasetTypeOK, Jobs, Elsewhere
<1>. QED BY <1>1, <1>2, <1>3 DEF j

LEMMA Beginning ==
  ASSUME DatasetInv, NEW t \in Thread, NEW kind \in Kind, NEW s \in Setting \cup {"none"},
         NEW v \in Value, Begin(t, kind, s, v),
         kind \in {"read", "set", "register"} => s \in Setting,
         t = Loop => kind = "read"
  PROVE  DatasetInv' /\ clash \subseteq clash'
<1>. DEFINE j == [kind |-> kind, at |-> "start", setting |-> s, value |-> v]
<1>1. /\ j \in Job /\ job[t] = NoJob
      /\ job' \in Jobs /\ Elsewhere(t) /\ job'[t] = j
      /\ clash' = clash \cup UNION {Unsure(j, job[i]) : i \in Thread}
      /\ UNCHANGED <<dir, store, vector, setfile, cache, entries, saved, said>>
  BY BeginFacts
<1>2. j.at = "start" /\ j.kind = kind /\ j.setting = s
  OBVIOUS
<1>. HIDE DEF j
<1>3. /\ clash \subseteq clash' /\ clash' \subseteq Setting \cup {"life"}
      /\ "life" \in clash' => "life" \in clash \/ Setting \subseteq clash'
      /\ \A i \in Thread : job[i] # NoJob => Noted(j, clash') /\ Noted(job[i], clash')
  <2>1. (j.kind = "set" => j.setting \in Setting) /\ Overlapping(j, Thread)
    BY <1>1, <1>2 DEF Overlapping
  <2>. QED BY <2>1, UnsureOf
<1>. QED BY <1>1, <1>2, <1>3, BeginStep DEF Elsewhere, Noted

LEMMA DatasetRestartStep ==
  ASSUME DatasetInv, DatasetRestart
  PROVE  DatasetInv'
<1>. DEFINE found == saved \/ setfile["register"] # Absent
            refused == setfile["register"] = Special
<1>1. /\ store' = found /\ entries' = (saved /\ ~refused)
      /\ saved' \in {saved, saved /\ ~refused}
      /\ cache' = IF saved THEN [None EXCEPT !["register"] = Saying(setfile["register"])] ELSE None
      /\ \A t \in Thread : job'[t] = NoJob /\ job'[t].kind = "none"
      /\ job' \in Jobs
      /\ clash' = IF \E t \in Thread : Busy(t) /\ job[t].kind # "read"
                  THEN Setting \cup {"life"} ELSE clash
      /\ UNCHANGED <<dir, vector, setfile, said>>
  BY JobFacts DEF DatasetRestart, Jobs
<1>2. /\ cache' \in [Setting -> Value \cup {Unset}]
      /\ \A s \in Setting : cache'[s] \in {Unset, Saying(setfile[s])}
      /\ ~saved => cache' = None
  BY <1>1, DatasetsAssumption DEF None, Saying, Value
<1>3. store' \in BOOLEAN /\ entries' \in BOOLEAN /\ saved' \in BOOLEAN
      /\ (entries' => saved') /\ (saved' => saved)
  <2>1. saved \in BOOLEAN
    BY DEF DatasetInv, DatasetTypeOK
  <2>. QED BY <1>1, <2>1
<1>4. DatasetTypeOK'
  BY <1>1, <1>2, <1>3 DEF DatasetInv, DatasetTypeOK, Jobs
<1>5. JobsInv' /\ Exclusive'
  BY <1>1 DEF JobsInv, Exclusive, Busy
<1>6. LifeTakesAll'
  BY <1>1 DEF DatasetInv, LifeTakesAll
<1>7. ASSUME ~\E t \in Thread : Busy(t) /\ job[t].kind # "read"
      PROVE  /\ clash' = clash
             /\ \A u \in Thread : job[u].kind \in {"none", "read"}
  BY <1>1, <1>7, JobFacts DEF Busy
<1>8. LifeInv'
  <2>. SUFFICES ASSUME "life" \notin clash' PROVE LifeInv'
    BY DEF LifeInv
  <2>1. "life" \notin clash /\ \A u \in Thread : job[u].kind \in {"none", "read"}
    BY <1>1, <1>7
  <2>2. \A u \in Thread : LifeAt(u)'
    BY <1>1 DEF LifeAt, At, Busy
  <2>3. /\ ~\E u \in Thread : At(u, {"register"}, "save")
        /\ ~\E u \in Thread : At(u, {"create", "register"}, "formats")
    BY <2>1 DEF At
  <2>4. ~dir => ~saved /\ Blank /\ ~vector
    BY <2>1, LifeFacts DEF Nothing
  <2>5. ~dir' => Nothing'
    <3>1. ~dir => setfile["register"] = Absent
      BY <2>4, DatasetsAssumption DEF Blank
    <3>. QED BY <1>1, <1>2, <1>3, <2>4, <3>1 DEF Nothing, Blank, None
  <2>. QED BY <1>1, <1>3, <2>1, <2>2, <2>3, <2>5, LifeFacts DEF LifeInv
<1>9. SettingInv'
  <2>. SUFFICES ASSUME NEW s \in Setting \ clash' PROVE SettingAt(s)'
    BY DEF SettingInv
  <2>1. s \notin clash /\ \A u \in Thread : job[u].kind \in {"none", "read"}
    BY <1>1, <1>7
  <2>2. Agreed(s)
    BY <2>1 DEF DatasetInv, SettingInv, SettingAt, Changing, Setter, Maker, At
  <2>. QED BY <1>1, <1>2, <2>2 DEF SettingAt, Agreed, Setter, At, Saying
<1>. QED BY <1>4, <1>5, <1>6, <1>8, <1>9 DEF DatasetInv

LEMMA FirstDataset ==
  ASSUME DatasetInit
  PROVE  DatasetInv
<1>1. /\ dir = FALSE /\ store = FALSE /\ vector = FALSE /\ entries = FALSE /\ saved = FALSE
      /\ setfile \in [Setting -> Value \cup {Absent}] /\ cache \in [Setting -> Value \cup {Unset}]
      /\ said \in [Setting -> Value \cup {Unset}] /\ cache = None /\ clash = {}
      /\ \A s \in Setting : setfile[s] = Absent /\ cache[s] = Unset /\ said[s] = Unset
      /\ job \in Jobs /\ \A t \in Thread : job[t] = NoJob /\ job[t].kind = "none"
  BY JobFacts DEF DatasetInit, None, Jobs
<1>2. DatasetTypeOK
  BY <1>1 DEF DatasetTypeOK, Jobs
<1>3. JobsInv /\ Exclusive /\ LifeTakesAll
  BY <1>1 DEF JobsInv, Exclusive, LifeTakesAll, Busy
<1>4. LifeInv
  BY <1>1 DEF LifeInv, LifeAt, At, Busy, Nothing, Blank
<1>5. SettingInv
  BY <1>1 DEF SettingInv, SettingAt, Agreed, Setter, At
<1>. QED BY <1>2, <1>3, <1>4, <1>5 DEF DatasetInv
-----------------------------------------------------------------------------
(* The flag, from a request's arrival until it is admitted or refused. *)

LEMMA StepMoves ==
  ASSUME DatasetInv, NEW t \in Thread, DatasetStep(t) \/ Answer(t)
  PROVE  /\ Elsewhere(t)
         /\ \A u \in Thread : /\ job'[u].kind \in {"none", job[u].kind}
                              /\ job[u] = NoJob => job'[u] = NoJob
         /\ job[t].kind = "read" /\ job[t].at # "got" =>
              job'[t].kind = "read" /\ job'[t].setting = job[t].setting
<1>1. job[t].kind \in Kind
  BY DEF DatasetStep, ReadCached, ReadAbsent, ReadFile, Keep, Answer, SetRefused, SetFile, SetCache,
         CreateRefused, Create, InitVector, InitFormats, InitAuth, DeleteRefused, Delete,
         RemoveFiles, RegisterRefused, Ensure, Commit, Save, Fail, At, Kind
<1>2. \/ ReadCached(t) \/ ReadAbsent(t) \/ ReadFile(t)
      \/ Keep(t) \/ SetFile(t) \/ Create(t) \/ InitVector(t) \/ InitFormats(t) \/ Delete(t)
      \/ Ensure(t) \/ Commit(t)
      \/ Done(t) /\ (job[t].kind = "read" => job[t].at = "got")
  BY DEF DatasetStep, Answer, SetRefused, SetCache, CreateRefused, InitAuth, DeleteRefused,
         RemoveFiles, RegisterRefused, Save, Fail, BreaksOff, At
<1>3. CASE \E w \in Places, v \in Value : Moved(t, w, v)
  BY <1>1, <1>3, JobFacts DEF Moved, Elsewhere, Kind
<1>4. CASE Done(t) /\ (job[t].kind = "read" => job[t].at = "got")
  <2>1. Freed(t)
    BY <1>1, <1>4, Moving DEF DatasetInv
  <2>. QED BY <1>4, <2>1, JobFacts DEF Freed, Elsewhere
<1>5. CASE ReadCached(t)
  <2>1. cache[job[t].setting] \in Value
    BY <1>5 DEF ReadCached, At, DatasetInv, DatasetTypeOK, JobsInv
  <2>2. Moved(t, "got", cache[job[t].setting])
    BY <1>1, <1>5, <2>1, Moving DEF ReadCached, DatasetInv, Places
  <2>. QED BY <1>3, <2>1, <2>2 DEF Places
<1>6. CASE ReadAbsent(t) \/ ReadFile(t)
  <2>1. \A c : Saying(c) \in Value
    BY DEF Saying, Value
  <2>2. \E w \in Places, v \in Value : job' = [job EXCEPT ![t].at = w, ![t].value = v]
    BY <1>6, <2>1 DEF ReadAbsent, ReadFile, Places, Value
  <2>. QED BY <1>1, <1>3, <2>2, Moving DEF DatasetInv
<1>7. CASE \E w \in Places : Goto(t, w)
  BY <1>1, <1>3, <1>7, Moving DEF DatasetInv
<1>. QED BY <1>2, <1>4, <1>5, <1>6, <1>7
     DEF Keep, SetFile, Create, InitVector, InitFormats, Delete, Ensure, Commit, Initialised, Places

(* While nobody changes the flag, what was answered is what is read. *)
LEMMA FlagRead ==
  ASSUME DatasetInv, "auth" \notin clash, said["auth"] = Special,
         ~Working({"set", "create", "delete"})
  PROVE  /\ Saying(setfile["auth"]) = Special
         /\ cache["auth"] \in {Unset, Special}
         /\ dir
<1>1. "auth" \in Setting \ clash
  BY AccessAssumption
<1>2. \A t \in Thread : ~Changing(t, "auth")
  BY DEF Working, Changing, Setter, Maker, At
<1>3. Agreed("auth")
  BY <1>1, <1>2 DEF DatasetInv, SettingInv, SettingAt
<1>4. Saying(setfile["auth"]) = Special /\ cache["auth"] \in {Unset, Special}
  BY <1>3 DEF Agreed, Special, Unset
<1>5. setfile["auth"] # Absent
  BY <1>4 DEF Saying, Special, Default, Absent
<1>6. "life" \notin clash
  BY <1>1 DEF DatasetInv, LifeTakesAll
<1>. QED BY <1>1, <1>4, <1>5, <1>6, LifeFacts DEF Nothing, Blank

LEMMA FlagOfStep ==
  ASSUME DatasetInv, FlagInv, NEW t \in Thread, Step(t)
  PROVE  FlagInv'
<1>1. /\ DatasetStep(t) \/ Answer(t)
      /\ UNCHANGED <<request, caller, due>>
      /\ ~(t = Loop /\ request # NoRequest /\ job[t].at = "got")
  BY DEF Step
<1>2. /\ Elsewhere(t)
      /\ \A u \in Thread : job'[u].kind \in {"none", job[u].kind}
      /\ job[t].kind = "read" /\ job[t].at # "got" =>
           job'[t].kind = "read" /\ job'[t].setting = job[t].setting
  BY <1>1, StepMoves
<1>3. Loop \in Thread
  BY DEF Thread
<1>4. clash \subseteq clash'
  BY <1>1 DEF DatasetStep, ReadCached, ReadAbsent, ReadFile, Keep, Answer, SetRefused, SetFile,
         SetCache, CreateRefused, Create, InitVector, InitFormats, InitAuth, DeleteRefused, Delete,
         RemoveFiles, RegisterRefused, Ensure, Commit, Save, Fail, BreaksOff, Quietly
<1>5. ASSUME request # NoRequest
      PROVE  job'[Loop].kind = "read" /\ job'[Loop].setting = "auth"
  BY <1>1, <1>2, <1>3, <1>5 DEF FlagInv, Elsewhere
<1>6. ASSUME request # NoRequest, request.due, "auth" \notin clash'
      PROVE  /\ said'["auth"] = Special /\ ~Working({"set", "create", "delete"})'
             /\ job'[Loop].at \in {"keep", "got"} => job'[Loop].value = Special
  <2>1. /\ "auth" \notin clash /\ said["auth"] = Special
        /\ ~Working({"set", "create", "delete"})
        /\ job[Loop].kind = "read" /\ job[Loop].setting = "auth"
        /\ job[Loop].at \in {"keep", "got"} => job[Loop].value = Special
    BY <1>4, <1>6 DEF FlagInv
  <2>2. ~Working({"set", "create", "delete"})'
    BY <1>2, <2>1 DEF Working
  <2>3. said' = said
    BY <1>1, <2>1 DEF Working, DatasetStep, ReadCached, ReadAbsent, ReadFile, Keep, Answer,
         SetRefused, SetFile, SetCache, CreateRefused, Create, InitVector, InitFormats, InitAuth,
         DeleteRefused, Delete, RemoveFiles, RegisterRefused, Ensure, Commit, Save, Fail, BreaksOff,
         Quietly, At
  <2>4. CASE t # Loop
    BY <1>2, <1>3, <2>1, <2>2, <2>3, <2>4 DEF Elsewhere
  <2>5. CASE t = Loop
    <3>1. /\ Saying(setfile["auth"]) = Special
          /\ cache["auth"] \in {Unset, Special}
          /\ dir
      BY <2>1, FlagRead
    <3>2. ReadCached(Loop) \/ ReadFile(Loop) \/ Keep(Loop)
      BY <1>1, <1>6, <2>1, <2>5, <3>1 DEF DatasetStep, ReadAbsent, Answer, SetRefused, SetFile,
         SetCache, CreateRefused, Create, InitVector, InitFormats, InitAuth, DeleteRefused, Delete,
         RemoveFiles, RegisterRefused, Ensure, Commit, Save, Fail, At
    <3>3. job[Loop].kind \in Kind /\ Special \in Value
      BY <2>1 DEF Kind, Value
    <3>4. CASE ReadCached(Loop)
      <4>1. job' = [job EXCEPT ![Loop].at = "got", ![Loop].value = Special]
        BY <2>1, <3>1, <3>4 DEF ReadCached
      <4>. QED BY <1>3, <2>2, <2>1, <2>3, <3>3, <4>1, Moving DEF DatasetInv, Moved, Places
    <3>5. CASE ReadFile(Loop)
      <4>1. job' = [job EXCEPT ![Loop].at = "keep", ![Loop].value = Special]
        BY <2>1, <3>1, <3>5 DEF ReadFile
      <4>. QED BY <1>3, <2>2, <2>1, <2>3, <3>3, <4>1, Moving DEF DatasetInv, Moved, Places
    <3>6. CASE Keep(Loop)
      <4>1. Goto(Loop, "got") /\ job[Loop].value = Special
        BY <2>1, <3>6 DEF Keep, At
      <4>. QED BY <1>3, <2>2, <2>1, <2>3, <3>3, <4>1, Moving DEF DatasetInv, Moved, Places
    <3>. QED BY <3>2, <3>4, <3>5, <3>6
  <2>. QED BY <2>4, <2>5
<1>. QED BY <1>1, <1>5, <1>6 DEF FlagInv

-----------------------------------------------------------------------------
(* Requests, and as whom they are admitted. *)

(* A key that is accepted is somebody's; one that was not issued is nobody's. *)
LEMMA KeyOwner ==
  ASSUME AuthInv
  PROVE  /\ \A k \in KeyId : keys[k].of \in PrincipalId \cup {Anonymous}
         /\ \A k : Accepts(k) => k \in KeyId /\ keys[k].of \in PrincipalId
         /\ Anonymous \notin PrincipalId
         /\ told.issued \subseteq KeyId
<1>1. keys \in Keys /\ index \subseteq KeyId /\ told.issued \subseteq KeyId
  BY TypeFacts DEF AuthInv
<1>2. \A k \in KeyId : keys[k] = NoKey \/ keys[k].of \in PrincipalId
  BY <1>1, Constructors DEF Keys
<1>3. NoKey.of = Anonymous /\ Anonymous \notin PrincipalId
  BY DEF NoKey, Anonymous, PrincipalId
<1>4. \A k \in KeyId : keys[k].of \in PrincipalId \cup {Anonymous}
  BY <1>2, <1>3
<1>. QED BY <1>1, <1>2, <1>3, <1>4 DEF Accepts

LEMMA AskedFacts ==
  \A q \in Asked : /\ q.kind \in Kind /\ q.setting \in Setting \cup {"none"} /\ q.value \in Value
                   /\ q.kind \in {"read", "set", "register"} => q.setting \in Setting
BY DatasetsAssumption DEF Asked, Kind, Value

LEMMA RequestFacts ==
  ASSUME FlagInv, request # NoRequest
  PROVE  /\ request.kind \in Kind /\ request.setting \in Setting \cup {"none"}
         /\ request.value \in Value /\ request.key \in KeyId \cup {Anonymous}
         /\ request.kind \in {"read", "set", "register"} => request.setting \in Setting
BY DEF FlagInv, Request

LEMMA ArriveStep ==
  ASSUME DatasetInv, FlagInv, NobodySlipsIn,
         NEW q \in Asked, NEW k \in KeyId \cup {Anonymous}, Arrive(q, k)
  PROVE  DatasetInv' /\ FlagInv' /\ NobodySlipsIn'
<1>. DEFINE j == [kind |-> "read", at |-> "start", setting |-> "auth", value |-> Default]
            r == [kind |-> q.kind, setting |-> q.setting, value |-> q.value, key |-> k,
                  due |-> FlagIsUp]
<1>1. /\ Begin(Loop, "read", "auth", Default) /\ request' = r
      /\ UNCHANGED <<caller, due>>
  BY DEF Arrive
<1>2. /\ Loop \in Thread /\ "read" \in Kind /\ "auth" \in Setting /\ Default \in Value
      /\ Loop \notin Pool
  BY AccessAssumption, DatasetsAssumption DEF Thread, Kind, Value
<1>3. DatasetInv' /\ clash \subseteq clash'
  BY <1>1, <1>2, Beginning
<1>4. /\ job[Loop] = NoJob /\ Elsewhere(Loop) /\ job'[Loop] = j /\ said' = said
  BY <1>1, <1>2, BeginFacts
<1>5. j.kind = "read" /\ j.setting = "auth" /\ j.at = "start"
  OBVIOUS
<1>6. r \in Request /\ (r.kind \in {"read", "set", "register"} => r.setting \in Setting)
  <2>1. FlagIsUp \in BOOLEAN
    BY DEF FlagIsUp, Working
  <2>. QED BY <2>1, AskedFacts DEF Request
<1>7. r.due => FlagIsUp
  OBVIOUS
<1>. HIDE DEF j, r
<1>8. FlagInv'
  <2>1. ASSUME r.due PROVE said'["auth"] = Special /\ ~Working({"set", "create", "delete"})'
    BY <1>4, <1>5, <1>7, <2>1 DEF FlagIsUp, Working, Elsewhere
  <2>. QED BY <1>1, <1>4, <1>5, <1>6, <2>1 DEF FlagInv
<1>9. NobodySlipsIn'
  <2>1. \A w \in due : w \in Thread /\ w # Loop
    BY <1>2 DEF FlagInv, Thread
  <2>. QED BY <1>1, <1>4, <2>1 DEF NobodySlipsIn, Busy, Elsewhere
<1>. QED BY <1>3, <1>8, <1>9

LEMMA AdmitStep ==
  ASSUME AuthInv, DatasetInv, FlagInv, NobodySlipsIn, NEW w \in Pool, Admit(w)
  PROVE  DatasetInv' /\ FlagInv' /\ NobodySlipsIn'
<1>. DEFINE k == request.key
            j == [kind |-> request.kind, at |-> "start", setting |-> request.setting,
                  value |-> request.value]
<1>1. /\ request # NoRequest /\ request.kind # "read"
      /\ job[Loop].kind = "read" /\ job[Loop].at = "got"
      /\ Open \/ May(request.kind, k)
      /\ job[w] = NoJob
      /\ job' = [job EXCEPT ![Loop] = NoJob, ![w] = j]
      /\ clash' = clash \cup UNION {Unsure(j, job[i]) : i \in Thread \ {Loop}}
      /\ caller' = [caller EXCEPT ![w] = IF Open THEN Anonymous ELSE keys[k].of]
      /\ due' = IF request.due /\ loaded /\ "auth" \notin clash THEN due \cup {w} ELSE due \ {w}
      /\ request' = NoRequest
      /\ UNCHANGED <<dir, store, vector, setfile, cache, entries, saved, said>>
  BY DEF Admit, At, Busy
<1>2. w \in Thread /\ Loop \in Thread /\ w # Loop
  BY DatasetsAssumption DEF Thread
<1>3. /\ request.kind \in Kind /\ request.setting \in Setting \cup {"none"}
      /\ request.value \in Value /\ k \in KeyId \cup {Anonymous}
      /\ request.kind \in {"read", "set", "register"} => request.setting \in Setting
  BY <1>1, RequestFacts
<1>4. j \in Job /\ j.at = "start" /\ j.kind = request.kind /\ j.setting = request.setting
  BY <1>3, JobFacts
<1>. HIDE DEF j, k
<1>5. /\ job' \in Jobs /\ job'[w] = j /\ job'[Loop] = NoJob
      /\ \A u \in Thread : u # w /\ u # Loop => job'[u] = job[u]
  BY <1>1, <1>2, <1>4 DEF DatasetInv, DatasetTypeOK, Jobs
<1>6. DatasetInv'
  <2>1. /\ clash \subseteq clash' /\ clash' \subseteq Setting \cup {"life"}
        /\ "life" \in clash' => "life" \in clash \/ Setting \subseteq clash'
        /\ \A i \in Thread \ {Loop} :
             job[i] # NoJob => Noted(j, clash') /\ Noted(job[i], clash')
    <3>1. /\ (j.kind = "set" => j.setting \in Setting) /\ Thread \ {Loop} \subseteq Thread
          /\ Overlapping(j, Thread \ {Loop})
      BY <1>1, <1>3, <1>4 DEF Overlapping
    <3>. QED BY <3>1, UnsureOf
  <2>2. \A u \in Thread : u # w => \/ job'[u] = job[u]
                                   \/ job'[u] = NoJob /\ job[u].kind = "read" /\ job[u].at = "got"
    BY <1>1, <1>5
  <2>3. \A u \in Thread : u # w /\ job'[u] # NoJob => Noted(j, clash') /\ Noted(job[u], clash')
    BY <1>5, <2>1
  <2>. QED BY <1>1, <1>2, <1>3, <1>4, <1>5, <2>1, <2>2, <2>3, BeginStep
<1>7. ASSUME ~Open PROVE keys[k].of \in PrincipalId
  BY <1>1, <1>7, KeyOwner DEF May, IsAdmin, InScope
<1>8. FlagInv'
  <2>1. due' \subseteq Pool /\ caller \in [Pool -> PrincipalId \cup {Anonymous}]
    BY <1>1 DEF FlagInv
  <2>2. (IF Open THEN Anonymous ELSE keys[k].of) \in PrincipalId \cup {Anonymous}
    BY <1>7
  <2>3. caller' \in [Pool -> PrincipalId \cup {Anonymous}]
    BY <1>1, <2>1, <2>2
  <2>. QED BY <1>1, <2>1, <2>3 DEF FlagInv
<1>9. NobodySlipsIn'
  <2>. SUFFICES ASSUME NEW x \in due', Busy(x)' PROVE caller'[x] # Anonymous
    BY DEF NobodySlipsIn
  <2>0. caller \in [Pool -> PrincipalId \cup {Anonymous}] /\ due \subseteq Pool
    BY DEF FlagInv
  <2>1. CASE x = w
    <3>1. request.due /\ loaded /\ "auth" \notin clash
      BY <1>1, <2>1
    <3>2. ~Open
      BY <1>1, <3>1 DEF FlagInv, Open, Special, Default
    <3>3. caller'[w] = keys[k].of
      BY <1>1, <2>0, <3>2
    <3>. QED BY <1>7, <2>1, <3>2, <3>3, KeyOwner
  <2>2. CASE x # w
    <3>1. x \in due /\ x \in Pool /\ x \in Thread /\ x # Loop
      BY <1>1, <2>0, <2>2, DatasetsAssumption DEF Thread
    <3>2. Busy(x) /\ caller'[x] = caller[x]
      BY <1>1, <1>5, <2>0, <2>2, <3>1 DEF Busy
    <3>. QED BY <3>1, <3>2 DEF NobodySlipsIn
  <2>. QED BY <2>1, <2>2
<1>. QED BY <1>6, <1>8, <1>9

LEMMA AdmitReadStep ==
  ASSUME DatasetInv, FlagInv, NobodySlipsIn, AdmitRead
  PROVE  DatasetInv' /\ FlagInv' /\ NobodySlipsIn'
<1>. DEFINE j == [kind |-> "read", at |-> "start", setting |-> request.setting, value |-> Default]
<1>1. /\ request.kind = "read" /\ request' = NoRequest
      /\ job[Loop].kind = "read" /\ job[Loop].at = "got"
      /\ job' = [job EXCEPT ![Loop] = j]
      /\ UNCHANGED <<dir, store, vector, setfile, cache, entries, saved, said, clash, caller, due>>
  BY DEF AdmitRead, At
<1>2. Loop \in Thread /\ Loop \notin Pool /\ "read" \in Kind /\ Default \in Value
  BY DatasetsAssumption DEF Thread, Kind, Value
<1>3. request # NoRequest
  BY <1>1 DEF NoRequest
<1>4. j \in Job /\ j.at = "start" /\ j.kind = "read" /\ j.setting = request.setting
  BY <1>1, <1>2, <1>3, RequestFacts, JobFacts
<1>5. request.setting \in Setting
  BY <1>1, <1>3, RequestFacts
<1>. HIDE DEF j
<1>6. job' \in Jobs /\ job'[Loop] = j /\ Elsewhere(Loop)
  BY <1>1, <1>2, <1>4 DEF DatasetInv, DatasetTypeOK, Jobs, Elsewhere
<1>7. DatasetInv'
  <2>1. clash \subseteq Setting \cup {"life"}
    BY DEF DatasetInv, DatasetTypeOK
  <2>2. ASSUME NEW u \in Thread, u # Loop, job'[u] # NoJob
        PROVE  Noted(j, clash) /\ Noted(job[u], clash)
    <3>1. Busy(u) /\ Busy(Loop)
      BY <1>1, <1>6, <2>2, JobFacts DEF Busy, Elsewhere
    <3>. QED BY <1>2, <1>4, <2>2, <3>1 DEF DatasetInv, Exclusive, Noted
  <2>. QED BY <1>1, <1>2, <1>4, <1>5, <1>6, <2>1, <2>2, BeginStep DEF Elsewhere
<1>8. FlagInv'
  BY <1>1 DEF FlagInv
<1>9. NobodySlipsIn'
  BY <1>1, <1>2, <1>6 DEF NobodySlipsIn, Busy, Elsewhere, FlagInv, Thread
<1>. QED BY <1>7, <1>8, <1>9

LEMMA RefuseStep ==
  ASSUME DatasetInv, FlagInv, NobodySlipsIn, Refuse
  PROVE  DatasetInv' /\ FlagInv' /\ NobodySlipsIn'
<1>1. /\ job[Loop].kind = "read" /\ job[Loop].at = "got" /\ Done(Loop) /\ request' = NoRequest
      /\ UNCHANGED <<dir, store, vector, setfile, cache, entries, saved, said, clash, caller, due>>
  BY DEF Refuse, At
<1>2. Loop \in Thread /\ Loop \notin Pool /\ job[Loop].kind \in Kind
  BY <1>1, DatasetsAssumption DEF Thread, Kind
<1>3. Freed(Loop)
  BY <1>1, <1>2, Moving DEF DatasetInv
<1>4. DatasetInv'
  BY <1>1, <1>2, <1>3, Aside
<1>5. FlagInv'
  BY <1>1 DEF FlagInv
<1>6. NobodySlipsIn'
  BY <1>1, <1>2, <1>3 DEF NobodySlipsIn, Busy, Freed, Elsewhere, FlagInv, Thread
<1>. QED BY <1>4, <1>5, <1>6

LEMMA AdmitStrictStep ==
  ASSUME AuthInv, DatasetInv, FlagInv, NobodySlipsIn,
         NEW w \in Pool, NEW kind \in {"set", "create"}, NEW v \in Value, NEW k \in KeyId \cup {Anonymous}, AdmitStrict(w, kind, v, k)
  PROVE  DatasetInv' /\ FlagInv' /\ NobodySlipsIn'
<1>. DEFINE j == [kind |-> kind, at |-> "start", setting |-> "auth", value |-> v]
<1>1. /\ Begin(w, kind, "auth", v)
      /\ caller' = [caller EXCEPT ![w] = IF k = Anonymous THEN Anonymous ELSE keys[k].of]
      /\ due' = due \ {w} /\ request' = request
  BY DEF AdmitStrict
<1>2. w \in Thread /\ Loop \in Thread /\ w # Loop /\ kind \in Kind /\ "auth" \in Setting
  BY DatasetsAssumption, AccessAssumption DEF Thread, Kind
<1>3. DatasetInv' /\ clash \subseteq clash'
  BY <1>1, <1>2, Beginning
<1>4. /\ job[w] = NoJob /\ Elsewhere(w) /\ job'[w] = j /\ said' = said
      /\ clash' = clash \cup UNION {Unsure(j, job[i]) : i \in Thread}
  BY <1>1, <1>2, BeginFacts
<1>5. j.kind = kind /\ j.setting = "auth"
  OBVIOUS
<1>. HIDE DEF j
<1>6. ASSUME request # NoRequest PROVE "auth" \in clash'
  <2>1. job[Loop] # NoJob
    BY <1>6, JobFacts DEF FlagInv
  <2>2. Unsure(j, job[Loop]) \subseteq clash'
    BY <1>2, <1>4
  <2>. QED BY <1>2, <1>5, <2>1, <2>2 DEF Unsure
<1>7. caller' \in [Pool -> PrincipalId \cup {Anonymous}] /\ due' \subseteq Pool
  BY <1>1, KeyOwner DEF FlagInv
<1>8. FlagInv'
  BY <1>1, <1>2, <1>4, <1>6, <1>7 DEF FlagInv, Elsewhere
<1>9. NobodySlipsIn'
  <2>. SUFFICES ASSUME NEW x \in due', Busy(x)' PROVE caller'[x] # Anonymous
    BY DEF NobodySlipsIn
  <2>1. x \in due /\ x # w /\ x \in Pool /\ x \in Thread
    BY <1>1, <1>7 DEF Thread
  <2>2. Busy(x) /\ caller'[x] = caller[x]
    BY <1>1, <1>4, <2>1 DEF FlagInv, Busy, Elsewhere
  <2>. QED BY <2>1, <2>2 DEF NobodySlipsIn
<1>. QED BY <1>3, <1>8, <1>9

LEMMA StepStep ==
  ASSUME DatasetInv, FlagInv, NobodySlipsIn, NEW t \in Thread, Step(t)
  PROVE  DatasetInv' /\ FlagInv' /\ NobodySlipsIn'
<1>1. DatasetStep(t) \/ Answer(t)
  BY DEF Step
<1>2. DatasetInv'
  BY <1>1, DatasetSteps
<1>3. FlagInv'
  BY FlagOfStep
<1>4. NobodySlipsIn'
  <2>1. \A u \in Thread : job[u] = NoJob => job'[u] = NoJob
    BY <1>1, StepMoves
  <2>2. UNCHANGED <<caller, due>>
    BY DEF Step
  <2>. QED BY <2>1, <2>2 DEF NobodySlipsIn, Busy, FlagInv, Thread
<1>. QED BY <1>2, <1>3, <1>4

LEMMA RestartStep ==
  ASSUME DatasetInv, FlagInv, Restart
  PROVE  DatasetInv' /\ FlagInv' /\ NobodySlipsIn'
<1>1. /\ DatasetRestart /\ request' = NoRequest /\ due' = {}
      /\ caller' = [w \in Pool |-> Anonymous]
  BY DEF Restart
<1>2. DatasetInv'
  BY <1>1, DatasetRestartStep
<1>. QED BY <1>1, <1>2 DEF FlagInv, NobodySlipsIn

LEMMA QuietAccess ==
  ASSUME DatasetInv, FlagInv, NobodySlipsIn, UNCHANGED <<dataset, request, caller, due>>
  PROVE  DatasetInv' /\ FlagInv' /\ NobodySlipsIn'
<1>1. DatasetTypeOK' /\ JobsInv' /\ Exclusive' /\ LifeTakesAll'
  BY DEF dataset, DatasetInv, DatasetTypeOK, JobsInv, Exclusive, Busy, LifeTakesAll
<1>2. LifeInv'
  BY DEF dataset, DatasetInv, LifeInv, LifeAt, Nothing, Blank, At, Busy
<1>3. SettingInv'
  BY DEF dataset, DatasetInv, SettingInv, SettingAt, Agreed, Changing, Setter, Maker, At, Saying
<1>4. FlagInv' /\ NobodySlipsIn'
  BY DEF dataset, FlagInv, NobodySlipsIn, Working, Busy
<1>. QED BY <1>1, <1>2, <1>3, <1>4 DEF DatasetInv

LEMMA NextAccess ==
  ASSUME AccessInv, [Next]_vars
  PROVE  AccessInv'
<1>. USE DEF AccessInv
<1>1. AuthInv'
  BY NextAuth
<1>2. CASE \E q \in Asked, k \in KeyId \cup {Anonymous} : Arrive(q, k)
  BY <1>1, <1>2, ArriveStep
<1>3. CASE \E w \in Pool : Admit(w)
  BY <1>1, <1>3, AdmitStep
<1>4. CASE \E w \in Pool, kind \in {"set", "create"}, v \in Value, k \in KeyId \cup {Anonymous} :
             AdmitStrict(w, kind, v, k)
  BY <1>1, <1>4, AdmitStrictStep
<1>5. CASE AdmitRead \/ Refuse
  BY <1>1, <1>5, AdmitReadStep, RefuseStep
<1>6. CASE \E t \in Thread : Step(t)
  BY <1>1, <1>6, StepStep
<1>7. CASE Restart
  BY <1>1, <1>7, RestartStep
<1>8. CASE UNCHANGED <<dataset, request, caller, due>>
  BY <1>1, <1>8, QuietAccess
<1>. QED BY <1>2, <1>3, <1>4, <1>5, <1>6, <1>7, <1>8 DEF Next, Manage, vars

(* In every reachable state the store is as above; a dataset has its files  *)
(* or a thread is about to write them; file, cache and answers of a setting *)
(* agree but while one thread, alone, changes it; and a request that must    *)
(* have a key waits for a flag that is up.                                 *)
THEOREM SpecAccessInv == Spec => []AccessInv
<1>1. Init => AccessInv
  <2>. SUFFICES ASSUME Init PROVE AccessInv
    OBVIOUS
  <2>1. AuthInv /\ DatasetInv
    BY FirstAuth, FirstDataset DEF Init
  <2>2. FlagInv /\ NobodySlipsIn
    BY DEF Init, FlagInv, NobodySlipsIn
  <2>. QED BY <2>1, <2>2 DEF AccessInv
<1>. QED BY <1>1, NextAccess, PTL DEF Spec

(* set_auth_config, set_lease_config, set_register_config: what a setting   *)
(* was last answered to be is what the next request reads, through later    *)
(* operations and restarts, unless operations on it overlapped.            *)
THEOREM SpecSettingHolds == Spec => []SettingHolds
<1>1. AccessInv => SettingHolds
  <2>. SUFFICES ASSUME DatasetInv, NEW s \in Setting \ clash, said[s] # Unset,
                       ~Working({"set", "create", "delete"})
                PROVE  Effective(s) = said[s]
    BY DEF AccessInv, SettingHolds
  <2>1. \A t \in Thread : ~Changing(t, s)
    BY DEF Working, Changing, Setter, Maker, At
  <2>2. Agreed(s)
    BY <2>1 DEF DatasetInv, SettingInv, SettingAt
  <2>. QED BY <2>2 DEF Agreed, Effective
<1>. QED BY <1>1, SpecAccessInv, PTL

(* create_dataset, _init_dataset_files, delete_dataset: a dataset with       *)
(* services has the files that make it valid, and of one that was deleted    *)
(* nothing is left, unless one of them overlapped another operation.       *)
THEOREM SpecWholeOrGone == Spec => []WholeOrGone
<1>1. AccessInv => WholeOrGone
  <2>. SUFFICES ASSUME DatasetInv, "life" \notin clash,
                       ~Working({"create", "delete", "register"})
                PROVE  /\ entries => dir /\ vector /\ setfile["register"] # Absent /\ saved
                       /\ ~dir => /\ ~store /\ ~vector /\ ~entries /\ cache = None
                                  /\ setfile = [s \in Setting |-> Absent]
    BY DEF AccessInv, WholeOrGone
  <2>1. ~\E t \in Thread : At(t, {"register"}, "save") \/ At(t, {"create", "register"}, "formats")
    BY DEF Working, At
  <2>2. ~dir => Nothing
    BY LifeFacts
  <2>3. entries => dir /\ vector /\ setfile["register"] # Absent /\ saved
    BY <2>1, <2>2, LifeFacts DEF Nothing
  <2>4. Blank => setfile = [s \in Setting |-> Absent] /\ cache = None
    BY DEF Blank, DatasetInv, DatasetTypeOK
  <2>. QED BY <2>2, <2>3, <2>4 DEF Nothing
<1>. QED BY <1>1, SpecAccessInv, PTL

(* authorize: once the flag of a dataset was answered to be up, no operation *)
(* is begun on behalf of a caller without a key, for any number of workers,  *)
(* keys and settings, unless operations on the flag or the dataset overlapped. *)
THEOREM SpecNobodySlipsIn == Spec => []NobodySlipsIn
<1>1. AccessInv => NobodySlipsIn
  BY DEF AccessInv
<1>. QED BY <1>1, SpecAccessInv, PTL
=============================================================================
