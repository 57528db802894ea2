----------------------- MODULE MCClusterReplication -----------------------
(* Instances of ClusterReplication for TLC. *)
EXTENDS ClusterReplication

CONSTANTS a, b, c, s1, v1, v2
=============================================================================
