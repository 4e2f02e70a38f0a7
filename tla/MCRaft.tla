------------------------------- MODULE MCRaft --------------------------------
(* Instance of RaftReplicator for TLC. *)
EXTENDS RaftReplicator, TLC

CONSTANTS n1, n2, n3, n4, n5

NodeSymmetry == Permutations(Nodes)
=============================================================================
