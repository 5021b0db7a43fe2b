------------------------- MODULE MCReplicationStore -------------------------
(* The instance TLC checks: one shard, created on n1 and n2. *)
EXTENDS ReplicationStore, TLC

CONSTANTS n1, n2, n3, s1, c1

MCCollectionOf == [s \in Shards |-> c1]
MCInitialReplicas == [s \in Shards |-> {n1, n2}]

Symmetry == Permutations({n1, n2})
=============================================================================
