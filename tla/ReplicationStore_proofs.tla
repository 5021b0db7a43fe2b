---------------------- MODULE ReplicationStore_proofs ----------------------
(***************************************************************************)
(* Theorems about ReplicationStore, for any initial placement, replication *)
(* factor, number of operations and set of user commands.                  *)
(*                                                                         *)
(* Every command of the store is a command of the FSM or leaves it alone,  *)
(* so the store implements ShardReplicationFSM and inherits its invariant. *)
(* On top of it come the facts that relate operations and sharding state:  *)
(* finite replica sets (for counting), the floor, and that an operation    *)
(* whose replica is placed is UnCancellable.  The last one needs           *)
(* IndexesAgree: a command that adds the replica of one operation must not *)
(* add the one that another, cancellable, operation is to create.          *)
(***************************************************************************)
EXTENDS ReplicationStore, ShardReplicationFSM_proofs, FiniteSetTheorems

----------------------------------------------------------------------------
(* The store implements the FSM *)

LEMMA StoreStepIsFSMStep == IInv /\ [StoreNext]_storeVars => [Next]_fsmVars
<1> SUFFICES ASSUME IInv, [StoreNext]_storeVars PROVE [Next]_fsmVars
  OBVIOUS
<1>1. CASE StoreUserStep
  <2>1. CASE \E op \in Op : ReplicateReplica(op)
    BY <2>1 DEF ReplicateReplica, Next
  <2>2. CASE \E id \in Ids : UserCancels(id) \/ UserDeletes(id)
    BY <2>2 DEF UserCancels, UserDeletes, Next
  <2>3. CASE UserDeletesAll
    BY <2>3 DEF UserDeletesAll, Next
  <2>4. CASE UserForceDeletes
    BY <2>4 DEF UserForceDeletes, Next
  <2>5. CASE \E c \in Collections : DeleteClass(c)
    BY <2>5 DEF DeleteClass, Next
  <2>6. CASE \E tenants \in SUBSET Shards : DeleteTenants(tenants)
    BY <2>6 DEF DeleteTenants, Next
  <2> QED
    BY <1>1, <2>1, <2>2, <2>3, <2>4, <2>5, <2>6 DEF StoreUserStep
<1>2. CASE StoreWorkerStep
  <2>1. ASSUME NEW id \in Ids, NEW state \in UpdateStates, UpdateReplicateOpState(id, state, "ok")
        PROVE  [Next]_fsmVars
    BY <2>1 DEF UpdateReplicateOpState, Next, storeVars
  <2>2. ASSUME NEW id \in Ids, NEW version \in SchemaVersions, StoreSchemaVersion(id, version)
        PROVE  [Next]_fsmVars
    BY <2>2 DEF Next
  <2>3. ASSUME NEW id \in Ids, ManagerRegisterError(id)
        PROVE  [Next]_fsmVars
    BY <2>3 DEF ManagerRegisterError, Next
  <2>4. ASSUME NEW id \in Ids, NEW outcome, ReplicationAddReplicaToShard(id, opsById[id], outcome)
        PROVE  [Next]_fsmVars
    BY <2>4 DEF ReplicationAddReplicaToShard, Next
  <2>5. ASSUME NEW id \in Ids, CompleteCancellationOf(id)
        PROVE  [Next]_fsmVars
    BY <2>5 DEF CompleteCancellationOf, Next
  <2>6. ASSUME NEW id \in Ids, RemoveReplicaOp(id, "ok")
        PROVE  [Next]_fsmVars
    BY <2>6 DEF RemoveReplicaOp, Next
  <2>7. ASSUME NEW s \in Shards, NEW n \in Nodes, DeleteReplicaFromShard(s, n, "ok")
        PROVE  [Next]_fsmVars
    BY <2>7 DEF DeleteReplicaFromShard
  <2> QED
    BY <1>2, <2>1, <2>2, <2>3, <2>4, <2>5, <2>6, <2>7 DEF StoreWorkerStep
<1>3. CASE StoreRestart
  BY <1>3 DEF StoreRestart, Next
<1>4. CASE UNCHANGED storeVars
  BY <1>4 DEF storeVars
<1> QED
  BY <1>1, <1>2, <1>3, <1>4 DEF StoreNext

\* The store keeps the invariant of the FSM: its senders are among those the
\* FSM's specification allows.
THEOREM StoreInvariance == StoreSpec => []IInv
<1>1. StoreInit => IInv
  BY InitIInv DEF StoreInit
<1>2. IInv /\ [StoreNext]_storeVars => IInv'
  BY StoreStepIsFSMStep, NextKeepsIInv
<1> QED
  BY <1>1, <1>2, PTL DEF StoreSpec

\* The store implements ShardReplicationFSM, hence has all its safety properties.
THEOREM StoreImplementsFSM == StoreSpec => Spec
<1>1. StoreInit => Init
  BY DEF StoreInit
<1> QED
  BY <1>1, StoreStepIsFSMStep, StoreInvariance, PTL DEF StoreSpec, Spec

----------------------------------------------------------------------------
(* Counting replicas *)

ReplicasFinite == replicas \in [Shards -> SUBSET Nodes] /\ \A s \in Shards : IsFiniteSet(replicas[s])

LEMMA AddKeepsFloor ==
  ASSUME ReplicasFinite, ReplicaFloor, NEW s \in Shards, NEW n \in Nodes,
         replicas' = [replicas EXCEPT ![s] = @ \cup {n}], replicas[s] # {}
  PROVE  ReplicasFinite' /\ ReplicaFloor'
<1>1. IsFiniteSet(replicas[s] \cup {n})
  BY FS_AddElement DEF ReplicasFinite
<1>2. ReplicasFinite'
  BY <1>1 DEF ReplicasFinite
<1>3. /\ Cardinality(replicas[s]) \in Nat
      /\ Cardinality(replicas[s] \cup {n}) \in Nat
      /\ Cardinality(replicas[s] \cup {n}) >= Cardinality(replicas[s])
  <2>1. IsFiniteSet(replicas[s])
    BY DEF ReplicasFinite
  <2>2. /\ Cardinality(replicas[s]) \in Nat
        /\ Cardinality(replicas[s] \cup {n})
             = (IF n \in replicas[s] THEN Cardinality(replicas[s]) ELSE Cardinality(replicas[s]) + 1)
    BY <2>1, FS_AddElement, FS_CardinalityType
  <2> QED
    BY <2>2
<1>4. Cardinality(replicas[s]) >= ReplicationFactor
  BY DEF ReplicaFloor, ShardExists
<1>5. Cardinality(replicas'[s]) >= ReplicationFactor
  <2>1. replicas'[s] = replicas[s] \cup {n}
    BY DEF ReplicasFinite
  <2>2. ReplicationFactor \in Nat
    BY StoreAssumption DEF StoreAssumption
  <2>3. Cardinality(replicas[s] \cup {n}) >= ReplicationFactor
    BY <1>3, <1>4, <2>2
  <2> QED
    BY <2>1, <2>3
<1>6. \A t \in Shards : t # s => replicas'[t] = replicas[t]
  BY DEF ReplicasFinite
<1>7. ReplicaFloor'
  BY <1>5, <1>6 DEF ReplicaFloor, ShardExists
<1> QED
  BY <1>2, <1>7

LEMMA DropKeepsFloor ==
  ASSUME ReplicasFinite, ReplicaFloor, NEW s \in Shards, NEW n \in Nodes,
         replicas' = [replicas EXCEPT ![s] = @ \ {n}],
         ~(Cardinality(replicas[s]) <= ReplicationFactor)
  PROVE  ReplicasFinite' /\ ReplicaFloor'
<1>1. IsFiniteSet(replicas[s])
  BY DEF ReplicasFinite
<1>2. IsFiniteSet(replicas[s] \ {n})
  BY <1>1, FS_RemoveElement
<1>3. ReplicasFinite'
  BY <1>2 DEF ReplicasFinite
<1>4. /\ Cardinality(replicas[s]) \in Nat
      /\ Cardinality(replicas[s] \ {n})
           = (IF n \in replicas[s] THEN Cardinality(replicas[s]) - 1 ELSE Cardinality(replicas[s]))
  BY <1>1, FS_RemoveElement, FS_CardinalityType
<1>5. Cardinality(replicas[s] \ {n}) >= ReplicationFactor
  BY <1>4, StoreAssumption DEF StoreAssumption
<1>6. replicas'[s] = replicas[s] \ {n} /\ \A t \in Shards : t # s => replicas'[t] = replicas[t]
  BY DEF ReplicasFinite
<1>7. ReplicaFloor'
  BY <1>5, <1>6 DEF ReplicaFloor, ShardExists
<1> QED
  BY <1>3, <1>7

\* Deleting a collection or tenants empties some shards.
LEMMA EmptyingKeepsFloor ==
  ASSUME ReplicasFinite, ReplicaFloor, replicas' \in [Shards -> SUBSET Nodes],
         \A s \in Shards : replicas'[s] = {} \/ replicas'[s] = replicas[s]
  PROVE  ReplicasFinite' /\ ReplicaFloor'
<1>1. IsFiniteSet({})
  BY FS_EmptySet
<1> QED
  BY <1>1 DEF ReplicasFinite, ReplicaFloor, ShardExists

----------------------------------------------------------------------------
(* The invariant of the store *)

StoreInv == IInv /\ ReplicasFinite /\ ReplicaFloor /\ PlacedIsUnCancellable

LEMMA InitStoreInv == StoreInit => StoreInv
<1> SUFFICES ASSUME StoreInit PROVE StoreInv
  OBVIOUS
<1>1. IInv
  BY InitIInv DEF StoreInit
<1>2. ReplicasFinite /\ ReplicaFloor
  BY StoreAssumption DEF StoreInit, StoreAssumption, ReplicasFinite, ReplicaFloor
<1>3. Ids = {}
  BY DEF StoreInit, Init, Ids
<1>4. PlacedIsUnCancellable
  BY <1>3 DEF PlacedIsUnCancellable
<1> QED
  BY <1>1, <1>2, <1>4 DEF StoreInv

\* A step that registers no operation and adds no replica.
LEMMA ShrinkingKeepsPlaced ==
  ASSUME StoreInv, OpsKept, Ids' \subseteq Ids,
         \A s \in Shards : replicas'[s] \subseteq replicas[s]
  PROVE  PlacedIsUnCancellable'
<1> SUFFICES ASSUME NEW i \in Ids', opsById'[i].target \in replicas'[opsById'[i].shard]
             PROVE  statusById'[i].unCancellable
  BY DEF PlacedIsUnCancellable
<1>1. i \in Ids /\ opsById'[i] = opsById[i] /\ opsById[i].shard \in Shards
  BY DEF OpsKept, StoreInv, IInv, TypeOK, Op
<1>2. opsById[i].target \in replicas[opsById[i].shard]
  BY <1>1
<1>3. statusById[i].unCancellable = TRUE
  BY <1>1, <1>2 DEF StoreInv, PlacedIsUnCancellable, IInv, TypeOK, Status
<1>4. statusById'[i].unCancellable = TRUE
  BY <1>1, <1>3 DEF OpsKept
<1> QED
  BY <1>4

LEMMA ReplicateReplicaKeepsStoreInv ==
  ASSUME StoreInv, NEW op \in Op, ReplicateReplica(op)
  PROVE  StoreInv'
<1>1. /\ Replicate(op) /\ Next
      /\ op.target \notin replicas[op.shard] /\ replicas' = replicas
  BY DEF ReplicateReplica, Next
<1>2. IInv' /\ OpsKept
  BY <1>1, NextKeepsIInv, NextKeepsOps DEF StoreInv
<1>3. ReplicasFinite' /\ ReplicaFloor'
  BY <1>1 DEF StoreInv, ReplicasFinite, ReplicaFloor, ShardExists
<1>4. PlacedIsUnCancellable'
  <2> SUFFICES ASSUME NEW i \in Ids', opsById'[i].target \in replicas'[opsById'[i].shard]
               PROVE  statusById'[i].unCancellable
    BY DEF PlacedIsUnCancellable
  <2>1. Ids' = Ids \cup {nextId} /\ opsById'[nextId] = op
    BY <1>1 DEF Replicate, WriteOpIntoFSM, Put, Ids
  <2>2. i \in Ids
    BY <1>1, <2>1
  <2>3. opsById'[i] = opsById[i]
    BY <1>2, <2>2 DEF OpsKept
  <2>4. statusById[i].unCancellable = TRUE
    BY <1>1, <2>2, <2>3 DEF StoreInv, PlacedIsUnCancellable, IInv, TypeOK, Status
  <2>5. statusById'[i].unCancellable = TRUE
    BY <1>2, <2>2, <2>4 DEF OpsKept
  <2> QED
    BY <2>5
<1> QED
  BY <1>2, <1>3, <1>4 DEF StoreInv

\* The replica is added for the operation that has just become UnCancellable;
\* no other operation has the same target.
LEMMA AddReplicaKeepsStoreInv ==
  ASSUME StoreInv, NEW id \in Ids, NEW outcome,
         ReplicationAddReplicaToShard(id, opsById[id], outcome)
  PROVE  StoreInv'
<1> DEFINE op == opsById[id]
<1>1. SetUnCancellable(id) /\ Next
  BY DEF ReplicationAddReplicaToShard, Next
<1>2. IInv' /\ OpsKept
  BY <1>1, NextKeepsIInv, NextKeepsOps DEF StoreInv
<1>3. op.shard \in Shards /\ op.target \in Nodes
  BY DEF StoreInv, IInv, TypeOK, Op
<1>4. Ids' = Ids
  BY <1>1 DEF SetUnCancellable, ChangeStatus, Ids
<1>5. CASE replicas' = replicas
  <2>1. PlacedIsUnCancellable'
    BY <1>2, <1>4, <1>5, ShrinkingKeepsPlaced
  <2>2. ReplicasFinite' /\ ReplicaFloor'
    BY <1>5 DEF StoreInv, ReplicasFinite, ReplicaFloor, ShardExists
  <2> QED
    BY <1>2, <2>1, <2>2 DEF StoreInv
<1>6. CASE replicas[op.shard] # {}
           /\ replicas' = [replicas EXCEPT ![op.shard] = @ \cup {op.target}]
  <2>1. ReplicasFinite' /\ ReplicaFloor'
    BY <1>3, <1>6, AddKeepsFloor DEF StoreInv
  <2>2. statusById'[id].unCancellable = TRUE
    BY <1>1 DEF SetUnCancellable, ChangeStatus, StoreInv, IInv, TypeOK, Status
  <2>3. PlacedIsUnCancellable'
    <3> SUFFICES ASSUME NEW i \in Ids', opsById'[i].target \in replicas'[opsById'[i].shard]
                 PROVE  statusById'[i].unCancellable
      BY DEF PlacedIsUnCancellable
    <3>1. i \in Ids /\ opsById'[i] = opsById[i] /\ opsById[i].shard \in Shards
      BY <1>2, <1>4 DEF OpsKept, StoreInv, IInv, TypeOK, Op
    <3>2. CASE opsById[i].target \in replicas[opsById[i].shard]
      <4>1. statusById[i].unCancellable = TRUE
        BY <3>1, <3>2 DEF StoreInv, PlacedIsUnCancellable, IInv, TypeOK, Status
      <4>2. statusById'[i].unCancellable = TRUE
        BY <1>2, <3>1, <1>4, <4>1 DEF OpsKept
      <4> QED
        BY <4>2
    <3>3. CASE opsById[i].target \notin replicas[opsById[i].shard]
      <4>1. opsById[i].shard = op.shard /\ opsById[i].target = op.target
        BY <1>3, <1>6, <3>1, <3>3 DEF StoreInv, ReplicasFinite
      <4>2. i = id
        BY <3>1, <4>1 DEF StoreInv, IInv, IndexesAgree, TargetFQDN
      <4> QED
        BY <2>2, <4>2
    <3> QED
      BY <3>2, <3>3
  <2> QED
    BY <1>2, <2>1, <2>3 DEF StoreInv
<1> QED
  BY <1>5, <1>6 DEF ReplicationAddReplicaToShard, ShardExists

\* Any other command registers nothing, and shrinks the replica sets or keeps
\* them.
LEMMA OtherStepKeepsStoreInv ==
  ASSUME StoreInv, Next \/ UNCHANGED fsmVars, Ids' \subseteq Ids,
         ReplicasFinite' /\ ReplicaFloor',
         \A s \in Shards : replicas'[s] \subseteq replicas[s]
  PROVE  StoreInv'
<1>1. IInv'
  BY NextKeepsIInv DEF StoreInv
<1>2. OpsKept
  <2>1. CASE Next
    BY <2>1, NextKeepsOps DEF StoreInv
  <2>2. CASE UNCHANGED fsmVars
    BY <2>2, SameStatusKeepsOps DEF fsmVars
  <2> QED
    BY <2>1, <2>2
<1> QED
  BY <1>1, <1>2, ShrinkingKeepsPlaced DEF StoreInv

LEMMA NextKeepsStoreInv == StoreInv /\ [StoreNext]_storeVars => StoreInv'
<1> SUFFICES ASSUME StoreInv, [StoreNext]_storeVars PROVE StoreInv'
  OBVIOUS
<1>1. Next \/ UNCHANGED fsmVars
  BY StoreStepIsFSMStep DEF StoreInv
<1>2. ASSUME replicas' = replicas
      PROVE  /\ ReplicasFinite' /\ ReplicaFloor'
             /\ \A s \in Shards : replicas'[s] \subseteq replicas[s]
  BY <1>2 DEF StoreInv, ReplicasFinite, ReplicaFloor, ShardExists
<1>3. ASSUME NEW ids, RemoveOps(ids) PROVE Ids' \subseteq Ids
  BY <1>3 DEF RemoveOps, Without, Ids
<1>4. CASE StoreUserStep
  <2>1. CASE \E op \in Op : ReplicateReplica(op)
    BY <2>1, ReplicateReplicaKeepsStoreInv
  <2>2. CASE \/ \E id \in Ids : UserCancels(id) \/ UserDeletes(id)
             \/ UserDeletesAll
    <3>1. Ids' \subseteq Ids /\ replicas' = replicas
      BY <2>2 DEF UserCancels, UserDeletes, UserDeletesAll, CancelReplication,
                  DeleteReplication, DeleteAllReplications, ChangeStatus, Ids
    <3> QED
      BY <1>1, <1>2, <3>1, OtherStepKeepsStoreInv
  <2>3. CASE UserForceDeletes
    <3>1. Ids' \subseteq Ids /\ replicas' = replicas
      BY <2>3, <1>3 DEF UserForceDeletes, ForceDeleteByUuid, ForceDeleteByCollection,
           ForceDeleteByCollectionAndShard, ForceDeleteByTargetNode, ForceDeleteAll
    <3> QED
      BY <1>1, <1>2, <3>1, OtherStepKeepsStoreInv
  <2>4. CASE \E c \in Collections : DeleteClass(c)
    <3> PICK c \in Collections : DeleteClass(c)
      BY <2>4
    <3>1. Ids' \subseteq Ids
      BY DEF DeleteClass, DeleteReplicationsByCollection, ChangeStatus, Ids
    <3>2. /\ replicas' \in [Shards -> SUBSET Nodes]
          /\ \A s \in Shards : replicas'[s] = {} \/ replicas'[s] = replicas[s]
      BY DEF DeleteClass, StoreInv, ReplicasFinite
    <3>3. ReplicasFinite' /\ ReplicaFloor'
      BY <3>2, EmptyingKeepsFloor DEF StoreInv
    <3>4. \A s \in Shards : replicas'[s] \subseteq replicas[s]
      BY <3>2
    <3> QED
      BY <1>1, <3>1, <3>3, <3>4, OtherStepKeepsStoreInv
  <2>5. CASE \E tenants \in SUBSET Shards : DeleteTenants(tenants)
    <3> PICK tenants \in SUBSET Shards : DeleteTenants(tenants)
      BY <2>5
    <3>1. Ids' \subseteq Ids
      BY DEF DeleteTenants, DeleteReplicationsByTenants, ChangeStatus, Ids
    <3>2. /\ replicas' \in [Shards -> SUBSET Nodes]
          /\ \A s \in Shards : replicas'[s] = {} \/ replicas'[s] = replicas[s]
      BY DEF DeleteTenants, StoreInv, ReplicasFinite
    <3>3. ReplicasFinite' /\ ReplicaFloor'
      BY <3>2, EmptyingKeepsFloor DEF StoreInv
    <3>4. \A s \in Shards : replicas'[s] \subseteq replicas[s]
      BY <3>2
    <3> QED
      BY <1>1, <3>1, <3>3, <3>4, OtherStepKeepsStoreInv
  <2> QED
    BY <1>4, <2>1, <2>2, <2>3, <2>4, <2>5 DEF StoreUserStep
<1>5. CASE StoreWorkerStep
  <2>1. ASSUME NEW id \in Ids,
               \/ \E state \in UpdateStates : UpdateReplicateOpState(id, state, "ok")
               \/ \E version \in SchemaVersions :
                    StoreSchemaVersion(id, version) /\ UNCHANGED replicas
               \/ ManagerRegisterError(id)
               \/ CompleteCancellationOf(id)
        PROVE  StoreInv'
    <3>1. Ids' \subseteq Ids /\ replicas' = replicas
      BY <2>1 DEF UpdateReplicateOpState, UpdateReplicationOpStatus, StoreSchemaVersion,
           ManagerRegisterError, RegisterError, CancelReplication, CompleteCancellationOf,
           CancellationComplete, ChangeStatus, Ids, fsmVars, storeVars
    <3> QED
      BY <1>1, <1>2, <3>1, OtherStepKeepsStoreInv
  <2>2. ASSUME NEW id \in Ids, NEW outcome,
               ReplicationAddReplicaToShard(id, opsById[id], outcome)
        PROVE  StoreInv'
    BY <2>2, AddReplicaKeepsStoreInv
  <2>3. ASSUME NEW id \in Ids, RemoveReplicaOp(id, "ok")
        PROVE  StoreInv'
    <3>1. Ids' \subseteq Ids /\ replicas' = replicas
      BY <2>3, <1>3 DEF RemoveReplicaOp, RemoveReplicationOp
    <3> QED
      BY <1>1, <1>2, <3>1, OtherStepKeepsStoreInv
  <2>4. ASSUME NEW s \in Shards, NEW n \in Nodes, DeleteReplicaFromShard(s, n, "ok")
        PROVE  StoreInv'
    <3>1. /\ ~(Cardinality(replicas[s]) <= ReplicationFactor)
          /\ replicas' = [replicas EXCEPT ![s] = @ \ {n}]
          /\ Ids' = Ids
      BY <2>4 DEF DeleteReplicaFromShard, fsmVars, Ids
    <3>2. ReplicasFinite' /\ ReplicaFloor'
      BY <3>1, DropKeepsFloor DEF StoreInv
    <3>3. \A t \in Shards : replicas'[t] \subseteq replicas[t]
      BY <3>1 DEF StoreInv, ReplicasFinite
    <3> QED
      BY <1>1, <3>1, <3>2, <3>3, OtherStepKeepsStoreInv
  <2> QED
    BY <1>5, <2>1, <2>2, <2>3, <2>4 DEF StoreWorkerStep
<1>6. CASE UNCHANGED storeVars
  <2>1. Ids' \subseteq Ids /\ replicas' = replicas
    BY <1>6 DEF storeVars, fsmVars, Ids
  <2> QED
    BY <1>1, <1>2, <2>1, OtherStepKeepsStoreInv
<1>7. CASE StoreRestart
  <2>1. Ids' \subseteq Ids /\ replicas' = replicas
    BY <1>7 DEF StoreRestart, Restore, Restored, Ids
  <2> QED
    BY <1>1, <1>2, <2>1, OtherStepKeepsStoreInv
<1> QED
  BY <1>4, <1>5, <1>6, <1>7 DEF StoreNext

----------------------------------------------------------------------------
(* The theorems *)

\* The invariant of the store, whatever users and workers send.
THEOREM StoreCorrect == StoreSpec => []StoreInv
<1> QED
  BY InitStoreInv, NextKeepsStoreInv, PTL DEF StoreSpec

\* FSM and sharding state keep their types.
THEOREM StoreTypeCorrect == StoreSpec => []StoreTypeOK
<1>1. StoreInv => StoreTypeOK
  BY DEF StoreInv, IInv, ReplicasFinite, StoreTypeOK
<1> QED
  BY <1>1, StoreCorrect, PTL

\* DeleteReplicaFromShard and the other commands never take a shard below its
\* replication factor.
THEOREM FloorKept == StoreSpec => []ReplicaFloor
<1>1. StoreInv => ReplicaFloor
  BY DEF StoreInv
<1> QED
  BY <1>1, StoreCorrect, PTL

\* Once the replica of an operation is in the sharding state, the operation
\* cannot be cancelled by a user any more.
THEOREM PlacedStaysUnCancellable == StoreSpec => []PlacedIsUnCancellable
<1>1. StoreInv => PlacedIsUnCancellable
  BY DEF StoreInv
<1> QED
  BY <1>1, StoreCorrect, PTL
===========================================================================
