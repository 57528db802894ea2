---------------------------- MODULE MCSdkClient ----------------------------
(* SdkClient, for TLC. *)
EXTENDS SdkClient, TLC

Symmetry == Permutations(Leader) \cup Permutations(Endpoint)
            \cup Permutations(Thread) \cup Permutations(Renewer)
=============================================================================
