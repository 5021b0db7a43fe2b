--------------------------- MODULE ReplicaMovement ---------------------------
(***************************************************************************)
(* What the movement of replicas promises, whoever carries it out: the     *)
(* stages of an operation follow one another, a replica is added for an    *)
(* operation that is FINALIZING, and one is dropped only after a MOVE from *)
(* it was DEHYDRATING, and never below the replication factor.  There are  *)
(* no messages, workers, views or failures here: ReplicationConsumer is    *)
(* shown to implement this module.                                         *)
(***************************************************************************)
EXTENDS Naturals, FiniteSets

CONSTANTS
  Shards,
  Factor,      \* the replication factor
  Initial      \* the nodes each shard was created on

VARIABLES
  ops,         \* the present operations: source, target, shard, type and stage
  holders,     \* the nodes that hold each shard
  departing    \* replicas that somebody may still drop, after a MOVE from them was DEHYDRATING

movementVars == <<ops, holders, departing>>

Stages == {"REGISTERED", "HYDRATING", "FINALIZING", "DEHYDRATING", "READY", "CANCELLED"}

\* The stages an operation goes through, from each of which it can be cancelled.
Edges(type) ==
  {<<"REGISTERED", "HYDRATING">>, <<"HYDRATING", "FINALIZING">>}
  \cup (IF type = "COPY" THEN {<<"FINALIZING", "READY">>}
        ELSE {<<"FINALIZING", "DEHYDRATING">>, <<"DEHYDRATING", "READY">>})
  \cup ((Stages \ {"CANCELLED"}) \X {"CANCELLED"})

Dehydrating ==
  {<<ops[i].source, ops[i].shard>> : i \in {j \in DOMAIN ops : ops[j].stage = "DEHYDRATING"}}

\* A user registers an operation between a node that holds the shard and one that does not.
Register(i) ==
  /\ i \notin DOMAIN ops
  /\ DOMAIN ops' = DOMAIN ops \cup {i}
  /\ \A j \in DOMAIN ops : ops'[j] = ops[j]
  /\ ops'[i].stage = "REGISTERED"
  /\ ops'[i].source \in holders[ops'[i].shard]
  /\ ops'[i].target \notin holders[ops'[i].shard]
  /\ UNCHANGED holders

Advance(i, stage) ==
  /\ i \in DOMAIN ops
  /\ <<ops[i].stage, stage>> \in Edges(ops[i].type)
  /\ ops' = [ops EXCEPT ![i].stage = stage]
  /\ UNCHANGED holders

\* Operations are removed, at the end or by force, in whatever stage they are.
Forget(I) ==
  /\ ops' = [i \in DOMAIN ops \ I |-> ops[i]]
  /\ UNCHANGED holders

Place(i) ==
  /\ i \in DOMAIN ops
  /\ ops[i].stage = "FINALIZING"
  /\ holders[ops[i].shard] # {}
  /\ holders' = [holders EXCEPT ![ops[i].shard] = @ \cup {ops[i].target}]
  /\ UNCHANGED ops

Drop(node, s) ==
  /\ <<node, s>> \in departing
  /\ Cardinality(holders[s]) > Factor
  /\ holders' = [holders EXCEPT ![s] = @ \ {node}]
  /\ UNCHANGED ops

\* Collections and tenants are deleted, with the shards they have.
DeleteShards(S) ==
  /\ holders' = [s \in Shards |-> IF s \in S THEN {} ELSE holders[s]]
  /\ UNCHANGED ops

MovementInit ==
  /\ DOMAIN ops = {}
  /\ holders = Initial
  /\ departing = {}

MovementNext ==
  /\ \/ \E i \in DOMAIN ops' : Register(i)
     \/ \E i \in DOMAIN ops, stage \in Stages : Advance(i, stage)
     \/ \E I \in SUBSET DOMAIN ops : Forget(I)
     \/ \E i \in DOMAIN ops : Place(i)
     \/ \E r \in departing : Drop(r[1], r[2])
     \/ \E S \in SUBSET Shards : DeleteShards(S)
     \/ UNCHANGED <<ops, holders>>
  /\ departing' \subseteq departing \cup Dehydrating'

MovementSpec == MovementInit /\ [][MovementNext]_movementVars
=============================================================================
