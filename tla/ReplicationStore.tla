-------------------------- MODULE ReplicationStore --------------------------
(***************************************************************************)
(* The raft commands that concern replica movement, as Store.Apply         *)
(* dispatches them: the replication manager (cluster/replication/          *)
(* manager.go, validate.go), the schema manager (cluster/schema/           *)
(* manager.go) and the sharding state (usecases/sharding/state.go).        *)
(*                                                                         *)
(* The state is the one of a node that has applied every command.  A shard *)
(* that is not in the sharding state has no replicas: one that is there    *)
(* always has some (ReplicaFloor).  What schemaOnly leaves out when a node *)
(* replays its log is not modelled here.                                   *)
(***************************************************************************)
EXTENDS ShardReplicationFSM

CONSTANTS
  ReplicationFactor,   \* of every collection
  InitialReplicas,     \* the nodes each shard was created on
  UserCommands         \* bound: what users do besides registering operations

ASSUME StoreAssumption ==
  /\ ReplicationFactor \in Nat \ {0}
  /\ UserCommands \subseteq {"cancel", "delete", "deleteAll", "forceDelete",
                             "deleteClass", "deleteTenants"}
  /\ InitialReplicas \in [Shards -> SUBSET Nodes]
  /\ \A s \in Shards : IsFiniteSet(InitialReplicas[s])
                       /\ Cardinality(InitialReplicas[s]) >= ReplicationFactor

VARIABLE replicas      \* sharding state: the nodes that hold each shard

storeVars == <<fsmVars, replicas>>

ShardExists(s) == replicas[s] # {}

----------------------------------------------------------------------------
(* Commands of users *)

\* Manager.Replicate: the source must hold the shard and the target must not.
ReplicateReplica(op) ==
  /\ op.source # op.target
  /\ op.source \in replicas[op.shard]
  /\ op.target \notin replicas[op.shard]
  /\ Replicate(op)
  /\ UNCHANGED replicas

UserCancels(id) == CancelReplication(id) /\ UNCHANGED replicas
UserDeletes(id) == DeleteReplication(id) /\ UNCHANGED replicas
UserDeletesAll == DeleteAllReplications /\ UNCHANGED replicas

UserForceDeletes ==
  /\ \/ \E id \in Ids : ForceDeleteByUuid(id)
     \/ \E c \in Collections : ForceDeleteByCollection(c)
     \/ \E s \in Shards : ForceDeleteByCollectionAndShard(s)
     \/ \E n \in Nodes : ForceDeleteByTargetNode(n)
     \/ ForceDeleteAll
  /\ UNCHANGED replicas

DeleteClass(c) ==
  /\ replicas' = [s \in Shards |-> IF CollectionOf[s] = c THEN {} ELSE replicas[s]]
  /\ DeleteReplicationsByCollection(c)

DeleteTenants(tenants) ==
  /\ replicas' = [s \in Shards |-> IF s \in tenants THEN {} ELSE replicas[s]]
  /\ DeleteReplicationsByTenants(tenants)

----------------------------------------------------------------------------
(* Commands of the worker of an operation.  Each has an outcome: "ok", or the *)
(* error that the apply returns, in which case the state may still change.    *)

\* Seeded bug: a late worker revives a cancelled operation.
UpdateReplicateOpState_Late(id, state, outcome) ==
  IF id \in Ids
  THEN /\ outcome = "ok"
       /\ ChangeStatus({id}, LAMBDA s : ChangeState(s, state))
       /\ UNCHANGED replicas
  ELSE /\ outcome = "error"
       /\ UNCHANGED storeVars

UpdateReplicateOpState(id, state, outcome) ==
  IF id \in Ids /\ StateOf(id) # "CANCELLED"
  THEN /\ outcome = "ok"
       /\ UpdateReplicationOpStatus(id, state)
       /\ UNCHANGED replicas
  ELSE /\ outcome = "error"
       /\ UNCHANGED storeVars

\* When the errors of a state have reached their maximum the operation is
\* cancelled, unless it cannot be cancelled any more.
ManagerRegisterError(id) ==
  /\ \/ RegisterError(id)
     \/ /\ id \in Ids
        /\ statusById[id].errors >= MaxErrors
        /\ CancelReplication(id)
     \/ /\ id \in Ids => statusById[id].errors >= MaxErrors /\ statusById[id].unCancellable
        /\ UNCHANGED fsmVars
  /\ UNCHANGED replicas

\* Seeded bug: the operation is not made UnCancellable.
ReplicationAddReplicaToShard_Unmarked(id, op, outcome) ==
  /\ UNCHANGED fsmVars
  /\ IF ~ShardExists(op.shard) \/ id \notin Ids
     THEN outcome = "error" /\ UNCHANGED replicas
     ELSE IF op.target \in replicas[op.shard]
     THEN outcome = "exists" /\ UNCHANGED replicas
     ELSE /\ outcome = "ok"
          /\ replicas' = [replicas EXCEPT ![op.shard] = @ \cup {op.target}]

\* The operation becomes UnCancellable first; the replica is then added or
\* refused, and a refusal does not undo the first half.
ReplicationAddReplicaToShard(id, op, outcome) ==
  IF id \notin Ids
  THEN outcome = "error" /\ UNCHANGED storeVars
  ELSE /\ SetUnCancellable(id)
       /\ IF ~ShardExists(op.shard)
          THEN outcome = "error" /\ UNCHANGED replicas
          ELSE IF op.target \in replicas[op.shard]
          THEN outcome = "exists" /\ UNCHANGED replicas
          ELSE /\ outcome = "ok"
               /\ replicas' = [replicas EXCEPT ![op.shard] = @ \cup {op.target}]

\* Seeded bug: the replica is dropped when only the factor remains.
DeleteReplicaFromShard_OffByOne(shard, node, outcome) ==
  /\ IF Cardinality(replicas[shard]) < ReplicationFactor
     THEN outcome = "error" /\ UNCHANGED replicas
     ELSE outcome = "ok" /\ replicas' = [replicas EXCEPT ![shard] = @ \ {node}]
  /\ UNCHANGED fsmVars

\* The number of replicas is compared before the replica is looked up.
DeleteReplicaFromShard(shard, node, outcome) ==
  /\ IF Cardinality(replicas[shard]) <= ReplicationFactor
     THEN outcome = "error" /\ UNCHANGED replicas
     ELSE outcome = "ok" /\ replicas' = [replicas EXCEPT ![shard] = @ \ {node}]
  /\ UNCHANGED fsmVars

CompleteCancellationOf(id) ==
  IF id \in Ids THEN CancellationComplete(id) /\ UNCHANGED replicas
                ELSE UNCHANGED storeVars

RemoveReplicaOp(id, outcome) ==
  IF id \in Ids THEN outcome = "ok" /\ RemoveReplicationOp(id) /\ UNCHANGED replicas
                ELSE outcome = "error" /\ UNCHANGED storeVars

----------------------------------------------------------------------------
(* The specification: any client, any command *)

StoreInit == Init /\ replicas = InitialReplicas

StoreUserStep ==
  \/ \E op \in Op : ReplicateReplica(op)
  \/ "cancel" \in UserCommands /\ \E id \in Ids : UserCancels(id)
  \/ "delete" \in UserCommands /\ \E id \in Ids : UserDeletes(id)
  \/ "deleteAll" \in UserCommands /\ UserDeletesAll
  \/ "forceDelete" \in UserCommands /\ UserForceDeletes
  \/ "deleteClass" \in UserCommands /\ \E c \in Collections : DeleteClass(c)
  \/ "deleteTenants" \in UserCommands /\ \E tenants \in SUBSET Shards : DeleteTenants(tenants)

\* Workers, of which any number, running or abandoned, may still be sending.
StoreWorkerStep ==
  \/ \E id \in Ids :
       \/ \E state \in UpdateStates : UpdateReplicateOpState(id, state, "ok")
       \/ \E version \in SchemaVersions : StoreSchemaVersion(id, version) /\ UNCHANGED replicas
       \/ ManagerRegisterError(id)
       \/ \E outcome \in {"ok", "exists", "error"} :
            ReplicationAddReplicaToShard(id, opsById[id], outcome)
       \/ CompleteCancellationOf(id)
       \/ RemoveReplicaOp(id, "ok")
  \/ \E s \in Shards, n \in Nodes : DeleteReplicaFromShard(s, n, "ok")

\* The node restarts from a snapshot, whose parts are those of one moment.
StoreRestart == \E order \in Orders : Restore(order) /\ UNCHANGED replicas

StoreNext == StoreUserStep \/ StoreWorkerStep \/ StoreRestart

StoreSpec == StoreInit /\ [][StoreNext]_storeVars

----------------------------------------------------------------------------
(* Properties *)

\* The sharding state maps every shard to a finite set of nodes.
StoreTypeOK == TypeOK /\ replicas \in [Shards -> SUBSET Nodes]

\* No sequence of movements takes a shard below its replication factor.
ReplicaFloor ==
  \A s \in Shards : ShardExists(s) => Cardinality(replicas[s]) >= ReplicationFactor

\* An operation whose replica is in the sharding state cannot be cancelled any
\* more (shard_replication_apply.go:198-200), whichever other operations wanted
\* the same replica before.
PlacedIsUnCancellable ==
  \A i \in Ids :
    opsById[i].target \in replicas[opsById[i].shard] => statusById[i].unCancellable
=============================================================================
