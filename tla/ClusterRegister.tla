--------------------------- MODULE ClusterRegister ---------------------------
(***************************************************************************)
(* What the cluster promises of its records: the origin of a record alone   *)
(* writes it, each write has a newer version than every earlier one, and    *)
(* the copy of any other node is some write of the origin, goes from a      *)
(* write to a newer one only, or is forgotten: when the origin is evicted,  *)
(* when the copy's node restarts, when a deletion is old enough.            *)
(***************************************************************************)
EXTENDS Naturals

CONSTANTS
  Key,       \* records
  Node,      \* those that hold copies
  Version,   \* numbers: the versions a write may have
  NoCopy

VARIABLES
  published,  \* of each record, the writes of its origin
  copy        \* of each node and record, what the node holds

Write == [version: Version, tombstone: BOOLEAN]

Newer(w, x) == x = NoCopy \/ w.version > x.version

Init ==
  /\ published = [k \in Key |-> {}]
  /\ copy = [n \in Node |-> [k \in Key |-> NoCopy]]

Publish(k, w) ==
  /\ \A x \in published[k] : Newer(w, x)
  /\ published'[k] = published[k] \cup {w}

Learn(n, k, w) ==
  /\ w \in published[k]
  /\ Newer(w, copy[n][k])
  /\ copy'[n][k] = w

Forget(n, k) == copy'[n][k] = NoCopy

(* A step is a step of each record: a node that reconciles learns several. *)
Writes(k) == published'[k] = published[k] \/ \E w \in Write : Publish(k, w)

Moves(n, k) ==
  copy'[n][k] = copy[n][k] \/ Forget(n, k) \/ \E w \in Write : Learn(n, k, w)

Next == \A k \in Key : Writes(k) /\ \A n \in Node : Moves(n, k)

Spec == Init /\ [][Next]_<<published, copy>>
=============================================================================
