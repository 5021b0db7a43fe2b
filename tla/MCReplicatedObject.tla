------------------------- MODULE MCReplicatedObject -------------------------
(* Instances of ReplicatedObject for TLC: two or three replicas. *)
EXTENDS ReplicatedObject, TLC

CONSTANTS n1, n2, n3, x, y

MCTwo == {n1, n2}
MCThree == {n1, n2, n3}
MCNone == {}
MCAll == {"NoAutomatedResolution", "DeleteOnConflict", "TimeBasedResolution"}
MCResolving == {"DeleteOnConflict", "TimeBasedResolution"}
MCUnresolved == {"NoAutomatedResolution", "DeleteOnConflict"}
MCTimeBased == {"TimeBasedResolution"}

Symmetry == Permutations(Replicas) \cup Permutations(Values)

=============================================================================
