------------------------ MODULE MCDistributedTasks ------------------------
(* Instances of DistributedTasks for TLC: two nodes. *)
EXTENDS DistributedTasks, TLC

CONSTANTS n1, n2, t1

MCTwoNodes == {n1, n2}
Symmetry == Permutations(MCTwoNodes)

=============================================================================
