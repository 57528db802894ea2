----------------------------- MODULE AuthStore -----------------------------
(***************************************************************************)
(* AuthStore: principals, their keys, and the two files they are kept in.  *)
(*                                                                         *)
(* Handlers change the store one at a time; each changes the memory first  *)
(* and then writes one file or two, and a write may fail.  The command      *)
(* line (auth reset-admin) is a process of its own that replaces the files; *)
(* the registry knows of it when it starts again.                          *)
(***************************************************************************)
EXTENDS Naturals

CONSTANTS
  MaxPrincipals,  \* bound: of principals ever created
  MaxKeys,        \* bound: of keys ever issued
  MaxFailures     \* bound: of writes that fail

ASSUME AuthStoreAssumption ==
  MaxPrincipals \in Nat \ {0} /\ MaxKeys \in Nat \ {0} /\ MaxFailures \in Nat

(* The definitions whose names begin with Mutant are plausible mistakes,    *)
(* which the properties must catch.                                        *)

PrincipalId == 1 .. MaxPrincipals   \* in the order of their creation
KeyId == 1 .. MaxKeys
Role == {"admin", "provider"}

(* A principal's namespaces: whether they have the dataset of the model.   *)
Principal == [role: Role, scoped: BOOLEAN, disabled: BOOLEAN]
NoPrincipal == [role |-> "none", scoped |-> FALSE, disabled |-> FALSE]
ApiKey == [of: PrincipalId, revoked: BOOLEAN]
NoKey == [of |-> 0, revoked |-> FALSE]

Nobody == [p \in PrincipalId |-> NoPrincipal]
NoKeys == [k \in KeyId |-> NoKey]

VARIABLES
  loaded,      \* the registry has a store: auth had been initialised when it started
  principals,  \* _principals
  keys,        \* _keys
  index,       \* _keys_by_hash: the keys a token leads to
  files,       \* principals.json and keys.json
  made,        \* principals and keys ever created
  failures,    \* writes that have failed
  told,        \* history: what callers were answered
  doubtful,    \* history: keys and principals a failed write was about
  replaced     \* history: whether the files are those of a reset of which the registry
               \* does not know, and whether it wrote them over

auth == <<loaded, principals, keys, index, files, made, failures, told, doubtful, replaced>>

Admin == [role |-> "admin", scoped |-> FALSE, disabled |-> FALSE]

MutantAccepts(k) ==
  /\ k \in index /\ keys[k] # NoKey
  /\ principals[keys[k].of] # NoPrincipal /\ ~principals[keys[k].of].disabled

(* authenticate: the token of key k is accepted. *)
Accepts(k) ==
  /\ k \in index /\ keys[k] # NoKey /\ ~keys[k].revoked
  /\ principals[keys[k].of] # NoPrincipal /\ ~principals[keys[k].of].disabled

(* What _load_from_disk leads tokens to: every key, revoked ones included,  *)
(* which authenticate then refuses.                                        *)
IndexOf(ks) == {k \in KeyId : ks[k] # NoKey}

---------------------------------------------------------------------------
(* bootstrap: the first admin and its key. *)
AuthInit ==
  /\ loaded = TRUE
  /\ principals = [Nobody EXCEPT ![1] = Admin]
  /\ keys = [NoKeys EXCEPT ![1] = [of |-> 1, revoked |-> FALSE]]
  /\ index = {1}
  /\ files = [principals |-> principals, keys |-> keys]
  /\ made = [principals |-> 1, keys |-> 1]
  /\ failures = 0
  /\ told = [issued |-> {1}, revoked |-> {}, disabled |-> {}]
  /\ doubtful = {}
  /\ replaced = "no"

MutantWritten(ps, ks, done) ==
  [principals |-> ps, keys |-> IF "principals" \in done THEN files.keys ELSE ks]

(* The files when those of done have been written. *)
Written(ps, ks, done) ==
  [principals |-> IF "principals" \in done THEN ps ELSE files.principals,
   keys |-> IF "keys" \in done THEN ks ELSE files.keys]

(* The store becomes ps and ks, and the files are written in their order.   *)
(* All are, and the caller is answered; or one fails: the memory stays as   *)
(* it was changed, and the caller is told of an error.                     *)
Persist(ps, ks, todo, answer, about) ==
  /\ principals' = ps
  /\ keys' = ks
  /\ replaced' = IF replaced = "yes" THEN "undone" ELSE replaced
  /\ \/ /\ files' = Written(ps, ks, todo)
        /\ told' = answer
        /\ UNCHANGED <<failures, doubtful>>
     \/ /\ failures < MaxFailures /\ failures' = failures + 1
        /\ \E done \in {{}, todo \ {"keys"}} \ {todo} : files' = Written(ps, ks, done)
        /\ doubtful' = doubtful \cup about
        /\ UNCHANGED told

(* create_principal: with its first key. *)
CreatePrincipal(role, scoped) ==
  LET p == made.principals + 1
      k == made.keys + 1
  IN  /\ loaded /\ p \in PrincipalId /\ k \in KeyId
      /\ role = "admin" => ~scoped
      /\ made' = [principals |-> p, keys |-> k]
      /\ index' = index \cup {k}
      /\ Persist([principals EXCEPT ![p] = [role |-> role, scoped |-> scoped, disabled |-> FALSE]],
                 [keys EXCEPT ![k] = [of |-> p, revoked |-> FALSE]],
                 {"principals", "keys"}, [told EXCEPT !.issued = @ \cup {k}],
                 {<<"key", k>>, <<"principal", p>>})
      /\ UNCHANGED loaded

(* create_key *)
CreateKey(p) ==
  LET k == made.keys + 1
  IN  /\ loaded /\ principals[p] # NoPrincipal /\ k \in KeyId
      /\ made' = [made EXCEPT !.keys = k]
      /\ index' = index \cup {k}
      /\ Persist(principals, [keys EXCEPT ![k] = [of |-> p, revoked |-> FALSE]], {"keys"},
                 [told EXCEPT !.issued = @ \cup {k}], {<<"key", k>>})
      /\ UNCHANGED loaded

(* update_principal: role and namespaces, or disabled. *)
UpdatePrincipal(p, role, scoped, disabled) ==
  LET new == [role |-> role, scoped |-> scoped, disabled |-> disabled]
  IN  /\ loaded /\ principals[p] # NoPrincipal
      /\ role = "admin" => ~scoped
      /\ new # principals[p]
      /\ Persist([principals EXCEPT ![p] = new], keys, {"principals"},
                 [told EXCEPT !.disabled = IF disabled THEN @ \cup {p} ELSE @ \ {p}],
                 {<<"principal", p>>})
      /\ UNCHANGED <<loaded, index, made>>

Revoked(k) == [keys EXCEPT ![k].revoked = TRUE]

RevokeKey(k) ==
  /\ loaded /\ keys[k] # NoKey /\ ~keys[k].revoked
  /\ index' = index \ {k}
  /\ Persist(principals, Revoked(k), {"keys"}, [told EXCEPT !.revoked = @ \cup {k}],
             {<<"key", k>>})
  /\ UNCHANGED <<loaded, made>>

(* A key that is revoked is not revoked again, and not written again.      *)
RevokeAgain(k) ==
  /\ loaded /\ keys[k] # NoKey /\ keys[k].revoked
  /\ told' = [told EXCEPT !.revoked = @ \cup {k}]
  /\ told' # told
  /\ UNCHANGED <<loaded, principals, keys, index, files, made, failures, doubtful, replaced>>

---------------------------------------------------------------------------
(* auth reset-admin: the files are removed and made anew. *)
ResetAdmin ==
  LET p == made.principals + 1
      k == made.keys + 1
  IN  /\ p \in PrincipalId /\ k \in KeyId
      /\ made' = [principals |-> p, keys |-> k]
      /\ files' = [principals |-> [Nobody EXCEPT ![p] = Admin],
                   keys |-> [NoKeys EXCEPT ![k] = [of |-> p, revoked |-> FALSE]]]
      /\ told' = [told EXCEPT !.issued = @ \cup {k}]
      /\ replaced' = IF replaced = "undone" THEN replaced ELSE "yes"
      /\ UNCHANGED <<loaded, principals, keys, index, failures, doubtful>>

(* ... or the process ends between the two. *)
ResetInterrupted ==
  /\ failures < MaxFailures /\ failures' = failures + 1
  /\ files' = [principals |-> Nobody, keys |-> NoKeys]
  /\ replaced' = IF replaced = "undone" THEN replaced ELSE "yes"
  /\ UNCHANGED <<loaded, principals, keys, index, made, told, doubtful>>

(* load_or_none: no principals.json, no authentication. *)
Load ==
  /\ loaded' = (files.principals # Nobody)
  /\ principals' = files.principals
  /\ keys' = files.keys
  /\ index' = IndexOf(files.keys)
  /\ replaced' = IF replaced = "yes" THEN "no" ELSE replaced
  /\ told' = IF replaced = "yes"
             THEN [told EXCEPT !.revoked = @ \cup {k \in told.issued : files.keys[k] = NoKey}]
             ELSE told
  /\ UNCHANGED <<files, made, failures, doubtful>>

(* What an admin may ask, *)
AuthRequest ==
  \/ \E role \in Role, scoped \in BOOLEAN : CreatePrincipal(role, scoped)
  \/ \E p \in PrincipalId :
       \/ CreateKey(p)
       \/ \E role \in Role, scoped, disabled \in BOOLEAN :
            UpdatePrincipal(p, role, scoped, disabled)
  \/ \E k \in KeyId : RevokeKey(k) \/ RevokeAgain(k)

(* and the command line. *)
AuthCommand == ResetAdmin \/ ResetInterrupted
---------------------------------------------------------------------------
(* Every variable has its type. *)
AuthTypeOK ==
  /\ loaded \in BOOLEAN
  /\ principals \in [PrincipalId -> Principal \cup {NoPrincipal}]
  /\ keys \in [KeyId -> ApiKey \cup {NoKey}]
  /\ index \subseteq KeyId
  /\ files \in [principals: [PrincipalId -> Principal \cup {NoPrincipal}],
                keys: [KeyId -> ApiKey \cup {NoKey}]]
  /\ made \in [principals: PrincipalId, keys: KeyId]
  /\ failures \in 0 .. MaxFailures
  /\ told \in [issued: SUBSET KeyId, revoked: SUBSET KeyId, disabled: SUBSET PrincipalId]
  /\ doubtful \subseteq {<<"key", k>> : k \in KeyId} \cup {<<"principal", p>> : p \in PrincipalId}
  /\ replaced \in {"no", "yes", "undone"}

Sure(k) ==
  /\ replaced # "undone"
  /\ <<"key", k>> \notin doubtful

(* A key whose revocation was confirmed is accepted no more, in this life of *)
(* the registry and in the next; and so are, from its next start on, the    *)
(* keys from before a reset.  But for a failed write of the key itself, and  *)
(* for a reset that the registry has written over.                         *)
RevocationLasts ==
  loaded => \A k \in told.revoked : Sure(k) => ~Accepts(k)

(* A key that was issued and not revoked is accepted, unless its principal   *)
(* is disabled, with the same exceptions.                                  *)
IssuedKeyWorks ==
  replaced = "no" /\ loaded =>
    \A k \in told.issued \ told.revoked :
      Sure(k) /\ keys[k].of \notin told.disabled /\ <<"principal", keys[k].of>> \notin doubtful
        => Accepts(k)
=============================================================================
