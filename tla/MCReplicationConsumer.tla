----------------------- MODULE MCReplicationConsumer -----------------------
(* The instances TLC checks: shards of one collection, created on n1. *)
EXTENDS ReplicationConsumer, TLC

CONSTANTS n1, n2, n3, s1, s2, c1

MCCollectionOf == [s \in Shards |-> c1]
MCInitialReplicas == [s \in Shards |-> {n1}]

Symmetry == Permutations(Nodes \ {n1})
=============================================================================
