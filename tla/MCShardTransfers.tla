-------------------------- MODULE MCShardTransfers --------------------------
(***************************************************************************)
(* Small instances of ShardTransfers.                                      *)
(***************************************************************************)
EXTENDS ShardTransfers

CONSTANTS k1, k2, c1, c2

OneClass == <<k1>>
TwoClasses == <<k1, k2>>
OneCopier == {c1}
TwoCopiers == {c1, c2}
CopiesOfFirst == [c \in Copiers |-> k1]
=============================================================================
