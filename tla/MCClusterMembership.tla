------------------------ MODULE MCClusterMembership ------------------------
(* Instances of ClusterMembership for TLC. *)
EXTENDS ClusterMembership

NoneOrAll == {{}, Node}
InSync == [n \in Node |-> 0]
=============================================================================
