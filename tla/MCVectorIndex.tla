--------------------------- MODULE MCVectorIndex ---------------------------
(* Instances of VectorIndex for TLC. *)
EXTENDS VectorIndex, TLC

Symmetry == Permutations(Id) \cup Permutations(Text) \cup Permutations(Sync)
=============================================================================
