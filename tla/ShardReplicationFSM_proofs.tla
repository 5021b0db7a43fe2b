-------------------- MODULE ShardReplicationFSM_proofs --------------------
(***************************************************************************)
(* Theorems about ShardReplicationFSM, for any number of nodes, shards,    *)
(* collections and operations.                                             *)
(*                                                                         *)
(* TypeOK is not inductive by itself: a removal takes the key of an        *)
(* operation out of opsByTargetFQDN, and only IndexesAgree tells that no   *)
(* other key still leads to it.  IInv is their conjunction; the routing    *)
(* properties follow from it without looking at the actions again.         *)
(***************************************************************************)
EXTENDS ShardReplicationFSM, TLAPS

IInv == TypeOK /\ IndexesAgree

----------------------------------------------------------------------------
(* The initial state *)

LEMMA InitIInv == Init => IInv
<1> SUFFICES ASSUME Init PROVE IInv
  OBVIOUS
<1>1. Ids = {}
  BY DEF Init, Ids
<1>2. TypeOK
  BY <1>1, FSMAssumption DEF Init, TypeOK, Ids, Op, Status, Replica, FSMAssumption
<1>3. IndexesAgree
  BY <1>1 DEF Init, IndexesAgree, Ids, Replica
<1> QED
  BY <1>2, <1>3 DEF IInv

----------------------------------------------------------------------------
(* The commands that change the status of operations and nothing else *)

LEMMA StatusChangeKeepsIInv ==
  ASSUME IInv, UNCHANGED <<nextId, rank, opsById, indexVars>>,
         statusById' \in [Ids -> Status]
  PROVE  IInv'
<1>1. TypeOK'
  BY DEF IInv, TypeOK, Ids, indexVars, Op, Status
<1>2. IndexesAgree'
  BY DEF IInv, IndexesAgree, Ids, indexVars, SourceFQDN, TargetFQDN
<1> QED
  BY <1>1, <1>2 DEF IInv

LEMMA ChangeOneStatus ==
  ASSUME TypeOK, NEW id \in Ids, NEW status \in Status,
         statusById' = [i \in DOMAIN statusById |-> IF i \in {id} THEN status ELSE statusById[i]]
  PROVE  statusById' \in [Ids -> Status]
  BY DEF TypeOK, Ids

LEMMA ChangeStateType ==
  ASSUME NEW status \in Status, NEW state \in States
  PROVE  ChangeState(status, state) \in Status
<1>1. [status EXCEPT !.state = state] \in Status
  BY DEF Status
<1>2. 0 \in 0 .. MaxErrors
  BY FSMAssumption DEF FSMAssumption
<1> QED
  BY <1>1, <1>2 DEF ChangeState, Status

\* The changes of the other fields keep the type and the state of a status.
LEMMA ChangeFlagsType ==
  ASSUME NEW status \in Status
  PROVE  /\ [status EXCEPT !.unCancellable = TRUE] \in Status
         /\ TriggerCancellation(status) \in Status
         /\ TriggerDeletion(status) \in Status
         /\ \A version \in SchemaVersions :
              [status EXCEPT !.schemaVersion = version] \in Status
<1>1. [status EXCEPT !.unCancellable = TRUE] \in Status
  BY DEF Status
<1>2. TriggerCancellation(status) \in Status
  BY DEF TriggerCancellation, Status
<1>3. TriggerDeletion(status) \in Status
  BY DEF TriggerDeletion, Status
<1>4. \A version \in SchemaVersions : [status EXCEPT !.schemaVersion = version] \in Status
  BY DEF Status
<1> QED
  BY <1>1, <1>2, <1>3, <1>4

LEMMA RegisterErrorKeepsIInv ==
  ASSUME IInv, NEW id \in Ids, RegisterError(id)
  PROVE  IInv'
<1>1. statusById[id] \in Status /\ statusById[id].errors < MaxErrors
  BY DEF IInv, TypeOK, RegisterError
<1>2. [statusById[id] EXCEPT !.errors = @ + 1] \in Status
  BY <1>1, FSMAssumption DEF Status, FSMAssumption
<1>3. statusById' \in [Ids -> Status]
  BY <1>2, ChangeOneStatus DEF RegisterError, ChangeStatus, IInv
<1> QED
  BY <1>3, StatusChangeKeepsIInv DEF RegisterError, ChangeStatus

LEMMA UpdateReplicationOpStatusKeepsIInv ==
  ASSUME IInv, NEW id \in Ids, NEW state \in UpdateStates, UpdateReplicationOpStatus(id, state)
  PROVE  IInv'
<1>1. statusById[id] \in Status
  BY DEF IInv, TypeOK
<1>2. ChangeState(statusById[id], state) \in Status
  BY <1>1, ChangeStateType DEF States, UpdateStates
<1>3. statusById' \in [Ids -> Status]
  BY <1>2, ChangeOneStatus DEF UpdateReplicationOpStatus, ChangeStatus, IInv, TypeOK
<1> QED
  BY <1>3, StatusChangeKeepsIInv DEF UpdateReplicationOpStatus, ChangeStatus

LEMMA StoreSchemaVersionKeepsIInv ==
  ASSUME IInv, NEW id \in Ids, NEW version \in SchemaVersions, StoreSchemaVersion(id, version)
  PROVE  IInv'
<1>1. [statusById[id] EXCEPT !.schemaVersion = version] \in Status
  BY ChangeFlagsType DEF IInv, TypeOK
<1>2. statusById' \in [Ids -> Status]
  BY <1>1, ChangeOneStatus DEF StoreSchemaVersion, ChangeStatus, IInv
<1> QED
  BY <1>2, StatusChangeKeepsIInv DEF StoreSchemaVersion, ChangeStatus

LEMMA SetUnCancellableKeepsIInv ==
  ASSUME IInv, NEW id \in Ids, SetUnCancellable(id)
  PROVE  IInv'
<1>1. [statusById[id] EXCEPT !.unCancellable = TRUE] \in Status
  BY ChangeFlagsType DEF IInv, TypeOK
<1>2. statusById' \in [Ids -> Status]
  BY <1>1, ChangeOneStatus DEF SetUnCancellable, ChangeStatus, IInv
<1> QED
  BY <1>2, StatusChangeKeepsIInv DEF SetUnCancellable, ChangeStatus

LEMMA CancelReplicationKeepsIInv ==
  ASSUME IInv, NEW id \in Ids, CancelReplication(id)
  PROVE  IInv'
<1>1. TriggerCancellation(statusById[id]) \in Status
  BY ChangeFlagsType DEF IInv, TypeOK
<1>2. statusById' \in [Ids -> Status]
  BY <1>1, ChangeOneStatus DEF CancelReplication, ChangeStatus, IInv
<1> QED
  BY <1>2, StatusChangeKeepsIInv DEF CancelReplication, ChangeStatus

LEMMA CancellationCompleteKeepsIInv ==
  ASSUME IInv, NEW id \in Ids, CancellationComplete(id)
  PROVE  IInv'
<1>1. statusById[id] \in Status
  BY DEF IInv, TypeOK
<1>2. CompleteCancellation(statusById[id]) \in Status
  <2>1. [statusById[id] EXCEPT !.shouldCancel = FALSE, !.shouldDelete = FALSE] \in Status
    BY <1>1 DEF Status
  <2> QED
    BY <2>1, ChangeStateType DEF CompleteCancellation, States
<1>3. statusById' \in [Ids -> Status]
  BY <1>2, ChangeOneStatus DEF CancellationComplete, ChangeStatus, IInv, TypeOK
<1> QED
  BY <1>3, StatusChangeKeepsIInv DEF CancellationComplete, ChangeStatus

\* DeleteReplication, DeleteAllReplications and the deletions of a collection
\* and of tenants differ in the set of operations only.
LEMMA TriggerDeletionKeepsIInv ==
  ASSUME IInv, NEW ids, ChangeStatus(ids, TriggerDeletion)
  PROVE  IInv'
<1>1. ASSUME NEW status \in Status PROVE TriggerDeletion(status) \in Status
  BY ChangeFlagsType
<1>2. statusById' = [i \in Ids |-> IF i \in ids THEN TriggerDeletion(statusById[i])
                                                ELSE statusById[i]]
  BY DEF ChangeStatus, IInv, TypeOK
<1>3. statusById' \in [Ids -> Status]
  BY <1>1, <1>2 DEF IInv, TypeOK
<1> QED
  BY <1>3, StatusChangeKeepsIInv DEF ChangeStatus

----------------------------------------------------------------------------
(* Registering an operation *)

LEMMA ReplicateKeepsIInv ==
  ASSUME IInv, NEW op \in Op, Replicate(op)
  PROVE  IInv'
<1> DEFINE status == NewShardReplicationStatus("REGISTERED")
<1>1. /\ nextId \in Nat /\ nextId \notin Ids
      /\ Ids' = Ids \cup {nextId}
  BY DEF IInv, TypeOK, Ids, Replicate, WriteOpIntoFSM, Put
<1>2. status \in Status
  BY FSMAssumption DEF NewShardReplicationStatus, Status, States, FSMAssumption
<1>3. /\ op.source \in Nodes /\ op.target \in Nodes /\ op.shard \in Shards
      /\ CollectionOf[op.shard] \in Collections
  BY FSMAssumption DEF Op, FSMAssumption
<1>4. /\ opsById' \in [Ids' -> Op]
      /\ opsById'[nextId] = op
      /\ \A i \in Ids : opsById'[i] = opsById[i]
  BY <1>1 DEF IInv, TypeOK, Ids, Replicate, WriteOpIntoFSM, Put
<1>5. statusById' \in [Ids' -> Status]
  BY <1>1, <1>2 DEF IInv, TypeOK, Ids, Replicate, WriteOpIntoFSM, Put
<1>6. TypeOK'
  <2>1. nextId' \in 1 .. MaxOps + 1 /\ Ids' \subseteq 1 .. nextId' - 1
    BY <1>1, FSMAssumption DEF IInv, TypeOK, Replicate, FSMAssumption
  <2>2. rank' \in [Ids' -> 1 .. nextId' - 1]
    BY <1>1, <2>1 DEF IInv, TypeOK, Replicate, WriteOpIntoFSM, Put
  <2>3. /\ opsByTarget' \in [Nodes -> SUBSET Ids']
        /\ opsBySource' \in [Nodes -> SUBSET Ids']
        /\ opsByCollection' \in [Collections -> SUBSET Ids']
        /\ opsByCollectionAndShard' \in [Shards -> SUBSET Ids']
        /\ opsBySourceFQDN' \in [Replica -> SUBSET Ids']
    BY <1>1, <1>3 DEF IInv, TypeOK, Replicate, WriteOpIntoFSM, AddTo, SourceFQDN, Replica
  <2>4. /\ DOMAIN opsByTargetFQDN' \subseteq Replica
        /\ opsByTargetFQDN' \in [DOMAIN opsByTargetFQDN' -> Ids']
    BY <1>1, <1>3 DEF IInv, TypeOK, Replicate, WriteOpIntoFSM, Put, TargetFQDN, Replica
  <2> QED
    BY <1>4, <1>5, <2>1, <2>2, <2>3, <2>4 DEF TypeOK
<1>7. IndexesAgree'
  <2>1. /\ \A n \in Nodes : opsByTarget'[n] = {i \in Ids' : opsById'[i].target = n}
        /\ \A n \in Nodes : opsBySource'[n] = {i \in Ids' : opsById'[i].source = n}
    BY <1>1, <1>3, <1>4 DEF IInv, TypeOK, IndexesAgree, Replicate, WriteOpIntoFSM, AddTo
  <2>2. /\ \A c \in Collections :
             opsByCollection'[c] = {i \in Ids' : CollectionOf[opsById'[i].shard] = c}
        /\ \A s \in Shards : opsByCollectionAndShard'[s] = {i \in Ids' : opsById'[i].shard = s}
    BY <1>1, <1>3, <1>4 DEF IInv, TypeOK, IndexesAgree, Replicate, WriteOpIntoFSM, AddTo
  <2>3. \A r \in Replica : opsBySourceFQDN'[r] = {i \in Ids' : SourceFQDN(opsById'[i]) = r}
    BY <1>1, <1>3, <1>4
    DEF IInv, TypeOK, IndexesAgree, Replicate, WriteOpIntoFSM, AddTo, SourceFQDN, Replica
  <2>4. \A i \in Ids : TargetFQDN(opsById[i]) # TargetFQDN(op)
    BY DEF Replicate, Writable
  <2>5. /\ DOMAIN opsByTargetFQDN' = {TargetFQDN(opsById'[i]) : i \in Ids'}
        /\ \A i \in Ids' : opsByTargetFQDN'[TargetFQDN(opsById'[i])] = i
    <3>1. opsByTargetFQDN' = Put(opsByTargetFQDN, TargetFQDN(op), nextId)
      BY DEF Replicate, WriteOpIntoFSM
    <3>2. /\ DOMAIN opsByTargetFQDN = {TargetFQDN(opsById[i]) : i \in Ids}
          /\ \A i \in Ids : opsByTargetFQDN[TargetFQDN(opsById[i])] = i
      BY DEF IInv, IndexesAgree
    <3>3. /\ opsByTargetFQDN'[TargetFQDN(op)] = nextId
          /\ \A i \in Ids : opsByTargetFQDN'[TargetFQDN(opsById[i])] = i
      BY <2>4, <3>1, <3>2 DEF Put
    <3>4. DOMAIN opsByTargetFQDN' = DOMAIN opsByTargetFQDN \cup {TargetFQDN(op)}
      BY <3>1 DEF Put
    <3> QED
      BY <1>1, <1>4, <3>2, <3>3, <3>4
  <2> QED
    BY <2>1, <2>2, <2>3, <2>5 DEF IndexesAgree, SourceFQDN, TargetFQDN
<1> QED
  BY <1>6, <1>7 DEF IInv

----------------------------------------------------------------------------
(* Removing operations *)

LEMMA RemoveOpsKeepsIInv ==
  ASSUME IInv, NEW ids \in SUBSET Ids, RemoveOps(ids)
  PROVE  IInv'
<1>1. Ids' = Ids \ ids
  BY DEF RemoveOps, Without, Ids
<1>2. /\ opsById' \in [Ids' -> Op] /\ statusById' \in [Ids' -> Status]
      /\ \A i \in Ids' : opsById'[i] = opsById[i]
  BY <1>1 DEF IInv, TypeOK, RemoveOps, Without, Ids
<1>3. DOMAIN opsByTargetFQDN' = {TargetFQDN(opsById[i]) : i \in Ids'}
  <2>1. DOMAIN opsByTargetFQDN' = DOMAIN opsByTargetFQDN \ {TargetFQDN(opsById[i]) : i \in ids}
    BY DEF RemoveOps, Without
  <2>2. /\ DOMAIN opsByTargetFQDN = {TargetFQDN(opsById[i]) : i \in Ids}
        /\ \A i \in Ids : opsByTargetFQDN[TargetFQDN(opsById[i])] = i
    BY DEF IInv, IndexesAgree
  <2> QED
    BY <1>1, <2>1, <2>2
<1>4. \A i \in Ids' : opsByTargetFQDN'[TargetFQDN(opsById[i])] = i
  <2>1. \A r \in DOMAIN opsByTargetFQDN' : opsByTargetFQDN'[r] = opsByTargetFQDN[r]
    BY DEF RemoveOps, Without
  <2> QED
    BY <1>1, <1>3, <2>1 DEF IInv, IndexesAgree
<1>5. TypeOK'
  <2>1. /\ nextId' \in 1 .. MaxOps + 1 /\ Ids' \subseteq 1 .. nextId' - 1
        /\ rank' \in [Ids' -> 1 .. nextId' - 1]
    BY <1>1 DEF IInv, TypeOK, RemoveOps, Without
  <2>2. /\ opsByTarget' \in [Nodes -> SUBSET Ids']
        /\ opsBySource' \in [Nodes -> SUBSET Ids']
        /\ opsByCollection' \in [Collections -> SUBSET Ids']
        /\ opsByCollectionAndShard' \in [Shards -> SUBSET Ids']
        /\ opsBySourceFQDN' \in [Replica -> SUBSET Ids']
    BY <1>1 DEF IInv, TypeOK, RemoveOps, RemoveFrom
  <2>3. DOMAIN opsByTargetFQDN' \subseteq Replica
    BY DEF IInv, TypeOK, RemoveOps, Without
  <2>4. opsByTargetFQDN' \in [DOMAIN opsByTargetFQDN' -> Ids']
    BY <1>3, <1>4 DEF RemoveOps, Without
  <2> QED
    BY <1>2, <2>1, <2>2, <2>3, <2>4 DEF TypeOK
<1>6. IndexesAgree'
  <2>1. /\ \A n \in Nodes : opsByTarget'[n] = {i \in Ids' : opsById'[i].target = n}
        /\ \A n \in Nodes : opsBySource'[n] = {i \in Ids' : opsById'[i].source = n}
    BY <1>1, <1>2 DEF IInv, TypeOK, IndexesAgree, RemoveOps, RemoveFrom
  <2>2. /\ \A c \in Collections :
             opsByCollection'[c] = {i \in Ids' : CollectionOf[opsById'[i].shard] = c}
        /\ \A s \in Shards : opsByCollectionAndShard'[s] = {i \in Ids' : opsById'[i].shard = s}
    BY <1>1, <1>2 DEF IInv, TypeOK, IndexesAgree, RemoveOps, RemoveFrom
  <2>3. \A r \in Replica : opsBySourceFQDN'[r] = {i \in Ids' : SourceFQDN(opsById'[i]) = r}
    BY <1>1, <1>2 DEF IInv, TypeOK, IndexesAgree, RemoveOps, RemoveFrom
  <2> QED
    BY <1>2, <1>3, <1>4, <2>1, <2>2, <2>3 DEF IndexesAgree, SourceFQDN, TargetFQDN
<1> QED
  BY <1>5, <1>6 DEF IInv

----------------------------------------------------------------------------
(* Restoring a snapshot *)

LEMMA RestoreKeepsIInv ==
  ASSUME IInv, NEW order \in Orders, Restore(order)
  PROVE  IInv'
<1> DEFINE kept == Restored(order)
<1>1. kept \subseteq Ids
  BY DEF Restored
<1>2. Ids' = kept
  BY DEF Restore, Ids
<1>3. /\ opsById' \in [kept -> Op] /\ statusById' \in [kept -> Status]
      /\ \A i \in kept : opsById'[i] = opsById[i]
  BY <1>1 DEF Restore, IInv, TypeOK
<1>4. \A i, j \in kept : TargetFQDN(opsById[i]) = TargetFQDN(opsById[j]) => i = j
  BY <1>1 DEF IInv, IndexesAgree
<1>5. /\ DOMAIN opsByTargetFQDN' = {TargetFQDN(opsById[i]) : i \in kept}
      /\ \A i \in kept : opsByTargetFQDN'[TargetFQDN(opsById[i])] = i
      /\ opsByTargetFQDN' \in [DOMAIN opsByTargetFQDN' -> kept]
  <2>1. opsByTargetFQDN' = [r \in {TargetFQDN(opsById[i]) : i \in kept} |->
                              CHOOSE i \in kept : TargetFQDN(opsById[i]) = r]
    BY DEF Restore
  <2>2. \A i \in kept :
          (CHOOSE j \in kept : TargetFQDN(opsById[j]) = TargetFQDN(opsById[i])) = i
    BY <1>4
  <2> QED
    BY <2>1, <2>2
<1>6. TypeOK'
  <2>1. nextId' \in 1 .. MaxOps + 1 /\ Ids' \subseteq 1 .. nextId' - 1
    BY <1>1, <1>2 DEF Restore, IInv, TypeOK
  <2>2. rank' \in [Ids' -> 1 .. nextId' - 1]
    <3>1. \A i \in kept : order[i] \in 1 .. nextId - 1
      BY <1>1 DEF Orders, IInv, TypeOK
    <3> QED
      BY <1>2, <3>1 DEF Restore
  <2>3. /\ opsByTarget' \in [Nodes -> SUBSET Ids']
        /\ opsBySource' \in [Nodes -> SUBSET Ids']
        /\ opsByCollection' \in [Collections -> SUBSET Ids']
        /\ opsByCollectionAndShard' \in [Shards -> SUBSET Ids']
        /\ opsBySourceFQDN' \in [Replica -> SUBSET Ids']
    BY <1>2 DEF Restore
  <2>4. DOMAIN opsByTargetFQDN' \subseteq Replica
    <3>1. \A i \in kept : TargetFQDN(opsById[i]) \in Replica
      BY <1>1 DEF IInv, TypeOK, Op, TargetFQDN, Replica
    <3> QED
      BY <1>5, <3>1
  <2> QED
    BY <1>2, <1>3, <1>5, <2>1, <2>2, <2>3, <2>4 DEF TypeOK
<1>7. IndexesAgree'
  <2>1. /\ \A n \in Nodes : opsByTarget'[n] = {i \in Ids' : opsById'[i].target = n}
        /\ \A n \in Nodes : opsBySource'[n] = {i \in Ids' : opsById'[i].source = n}
    BY <1>2, <1>3 DEF Restore
  <2>2. /\ \A c \in Collections :
             opsByCollection'[c] = {i \in Ids' : CollectionOf[opsById'[i].shard] = c}
        /\ \A s \in Shards : opsByCollectionAndShard'[s] = {i \in Ids' : opsById'[i].shard = s}
    BY <1>2, <1>3 DEF Restore
  <2>3. \A r \in Replica : opsBySourceFQDN'[r] = {i \in Ids' : SourceFQDN(opsById'[i]) = r}
    BY <1>2, <1>3 DEF Restore
  <2>4. /\ DOMAIN opsByTargetFQDN' = {TargetFQDN(opsById'[i]) : i \in Ids'}
        /\ \A i \in Ids' : opsByTargetFQDN'[TargetFQDN(opsById'[i])] = i
    <3> HIDE DEF kept
    <3> QED
      BY <1>2, <1>3, <1>5
  <2> QED
    BY <2>1, <2>2, <2>3, <2>4 DEF IndexesAgree, SourceFQDN, TargetFQDN
<1> QED
  BY <1>6, <1>7 DEF IInv

----------------------------------------------------------------------------
(* Every step *)

LEMMA NextKeepsIInv == IInv /\ [Next]_fsmVars => IInv'
<1> SUFFICES ASSUME IInv, [Next]_fsmVars PROVE IInv'
  OBVIOUS
<1>1. CASE \E op \in Op : op.source # op.target /\ Replicate(op)
  BY <1>1, ReplicateKeepsIInv
<1>2. ASSUME NEW id \in Ids,
             \/ RegisterError(id)
             \/ \E state \in UpdateStates : UpdateReplicationOpStatus(id, state)
             \/ \E version \in SchemaVersions : StoreSchemaVersion(id, version)
             \/ SetUnCancellable(id)
             \/ CancelReplication(id)
             \/ DeleteReplication(id)
             \/ CancellationComplete(id)
             \/ RemoveReplicationOp(id)
             \/ ForceDeleteByUuid(id)
      PROVE  IInv'
  <2>1. CASE RegisterError(id)
    BY <2>1, RegisterErrorKeepsIInv
  <2>2. CASE \E state \in UpdateStates : UpdateReplicationOpStatus(id, state)
    BY <2>2, UpdateReplicationOpStatusKeepsIInv
  <2>3. CASE \E version \in SchemaVersions : StoreSchemaVersion(id, version)
    BY <2>3, StoreSchemaVersionKeepsIInv
  <2>4. CASE SetUnCancellable(id)
    BY <2>4, SetUnCancellableKeepsIInv
  <2>5. CASE CancelReplication(id)
    BY <2>5, CancelReplicationKeepsIInv
  <2>6. CASE DeleteReplication(id)
    BY <2>6, TriggerDeletionKeepsIInv DEF DeleteReplication
  <2>7. CASE CancellationComplete(id)
    BY <2>7, CancellationCompleteKeepsIInv
  <2>8. CASE RemoveReplicationOp(id)
    BY <2>8, RemoveOpsKeepsIInv DEF RemoveReplicationOp
  <2>9. CASE ForceDeleteByUuid(id)
    BY <2>9, RemoveOpsKeepsIInv DEF ForceDeleteByUuid
  <2> QED
    BY <1>2, <2>1, <2>2, <2>3, <2>4, <2>5, <2>6, <2>7, <2>8, <2>9
<1>3. CASE \E c \in Collections : DeleteReplicationsByCollection(c)
  BY <1>3, TriggerDeletionKeepsIInv DEF DeleteReplicationsByCollection
<1>4. CASE \E tenants \in SUBSET Shards : DeleteReplicationsByTenants(tenants)
  BY <1>4, TriggerDeletionKeepsIInv DEF DeleteReplicationsByTenants
<1>5. CASE DeleteAllReplications
  BY <1>5, TriggerDeletionKeepsIInv DEF DeleteAllReplications
<1>6. CASE \E c \in Collections : ForceDeleteByCollection(c)
  <2> PICK c \in Collections : ForceDeleteByCollection(c)
    BY <1>6
  <2>1. VisitedByRange(opsByCollection[c]) \in SUBSET Ids
    BY DEF VisitedByRange, IInv, TypeOK
  <2> QED
    BY <2>1, RemoveOpsKeepsIInv DEF ForceDeleteByCollection
<1>7. CASE \E s \in Shards : ForceDeleteByCollectionAndShard(s)
  <2> PICK s \in Shards : ForceDeleteByCollectionAndShard(s)
    BY <1>7
  <2>1. VisitedByRange(opsByCollectionAndShard[s]) \in SUBSET Ids
    BY DEF VisitedByRange, IInv, TypeOK
  <2> QED
    BY <2>1, RemoveOpsKeepsIInv DEF ForceDeleteByCollectionAndShard
<1>8. CASE \E n \in Nodes : ForceDeleteByTargetNode(n)
  <2> PICK n \in Nodes : ForceDeleteByTargetNode(n)
    BY <1>8
  <2>1. VisitedByRange(opsByTarget[n]) \in SUBSET Ids
    BY DEF VisitedByRange, IInv, TypeOK
  <2> QED
    BY <2>1, RemoveOpsKeepsIInv DEF ForceDeleteByTargetNode
<1>9. CASE ForceDeleteAll
  BY <1>9, RemoveOpsKeepsIInv DEF ForceDeleteAll
<1>10. CASE \E order \in Orders : Restore(order)
  BY <1>10, RestoreKeepsIInv
<1>11. CASE UNCHANGED fsmVars
  BY <1>11, StatusChangeKeepsIInv DEF fsmVars, IInv, TypeOK, Ids
<1> QED
  BY <1>1, <1>2, <1>3, <1>4, <1>5, <1>6, <1>7, <1>8, <1>9, <1>10, <1>11 DEF Next

----------------------------------------------------------------------------
(* The theorems *)

\* Any client may send any command, in any order, with snapshots restored in
\* between: the inductive invariant holds.
THEOREM Invariance == Spec => []IInv
<1> QED
  BY InitIInv, NextKeepsIInv, PTL DEF Spec

\* Every piece of the FSM's state keeps its type.
THEOREM TypeCorrect == Spec => []TypeOK
<1>1. IInv => TypeOK
  BY DEF IInv
<1> QED
  BY <1>1, Invariance, PTL

\* The indexes that writeOpIntoFSM, removeReplicationOp and Restore maintain by
\* hand always agree with opsById.
THEOREM IndexCorrect == Spec => []IndexesAgree
<1>1. IInv => IndexesAgree
  BY DEF IInv
<1> QED
  BY <1>1, Invariance, PTL

\* No two operations create the same replica.
THEOREM TargetsAreUnique == Spec => []OneOpPerTarget
<1>1. IInv => OneOpPerTarget
  BY DEF IInv, IndexesAgree, OneOpPerTarget
<1> QED
  BY <1>1, Invariance, PTL

\* The two lists of replicas a write is sent to do not overlap.
THEOREM WriteSetsDisjoint == Spec => []WritesReachAReplicaOnce
<1>1. ASSUME IInv, NEW s \in Shards, NEW n \in FilterOneShardReplicasWrite(s, Nodes),
             n \in AdditionalWriteReplicas(s)
      PROVE  FALSE
  <2>1. PICK i \in opsByCollectionAndShard[s] : StateOf(i) = "FINALIZING" /\ opsById[i].target = n
    BY <1>1 DEF AdditionalWriteReplicas
  <2>2. i \in Ids /\ TargetFQDN(opsById[i]) = <<n, s>>
    BY <1>1, <2>1 DEF IInv, TypeOK, IndexesAgree, TargetFQDN
  <2>3. <<n, s>> \in DOMAIN opsByTargetFQDN /\ opsByTargetFQDN[<<n, s>>] = i
    BY <1>1, <2>2 DEF IInv, IndexesAgree
  <2>4. ReplicaUsable(n, s)
    BY <1>1 DEF FilterOneShardReplicasWrite
  <2> QED
    BY <2>1, <2>3, <2>4 DEF ReplicaUsable
<1>2. IInv => WritesReachAReplicaOnce
  BY <1>1 DEF WritesReachAReplicaOnce
<1> QED
  BY <1>2, Invariance, PTL

\* A replica under construction, or whose operation was cancelled, serves no read.
THEOREM UnfinishedNotRead == Spec => []UnfinishedReplicaServesNoRead
<1>1. ASSUME IInv, NEW i \in Ids,
             StateOf(i) \in {"REGISTERED", "HYDRATING", "FINALIZING", "CANCELLED"},
             opsById[i].target \in FilterOneShardReplicasRead(opsById[i].shard, Nodes)
      PROVE  FALSE
  <2>1. /\ TargetFQDN(opsById[i]) \in DOMAIN opsByTargetFQDN
        /\ opsByTargetFQDN[TargetFQDN(opsById[i])] = i
    BY <1>1 DEF IInv, IndexesAgree
  <2>2. ReplicaUsable(opsById[i].target, opsById[i].shard)
    BY <1>1 DEF FilterOneShardReplicasRead
  <2> QED
    BY <1>1, <2>1, <2>2 DEF ReplicaUsable, TargetFQDN
<1>2. IInv => UnfinishedReplicaServesNoRead
  BY <1>1 DEF UnfinishedReplicaServesNoRead
<1> QED
  BY <1>2, Invariance, PTL

----------------------------------------------------------------------------
(* CANCELLED is final *)

CancelledKept ==
  \A i \in Ids : StateOf(i) = "CANCELLED" /\ i \in Ids' => StateOf(i)' = "CANCELLED"

\* A command that does not touch the states of the operations that stay.
LEMMA SameStatesKeepCancelled ==
  ASSUME \A i \in Ids : i \in Ids' => statusById'[i].state = statusById[i].state
  PROVE  CancelledKept
  BY DEF CancelledKept, StateOf

LEMMA RemoveOpsKeepsCancelled ==
  ASSUME IInv, NEW ids, RemoveOps(ids)
  PROVE  CancelledKept
<1>1. \A i \in Ids : i \in Ids' => statusById'[i] = statusById[i]
  BY DEF RemoveOps, Without, IInv, TypeOK, Ids
<1> QED
  BY <1>1, SameStatesKeepCancelled

LEMMA TriggerDeletionKeepsCancelled ==
  ASSUME IInv, NEW ids, ChangeStatus(ids, TriggerDeletion)
  PROVE  CancelledKept
<1>1. ASSUME NEW status \in Status PROVE TriggerDeletion(status).state = status.state
  BY DEF TriggerDeletion, Status
<1>2. \A i \in Ids : statusById'[i] = IF i \in ids THEN TriggerDeletion(statusById[i])
                                                    ELSE statusById[i]
  BY DEF ChangeStatus, IInv, TypeOK, Ids
<1>3. \A i \in Ids : statusById'[i].state = statusById[i].state
  BY <1>1, <1>2 DEF IInv, TypeOK
<1> QED
  BY <1>3, SameStatesKeepCancelled

LEMMA NextKeepsCancelled == IInv /\ Next => CancelledKept
<1> SUFFICES ASSUME IInv, Next PROVE CancelledKept
  OBVIOUS
<1>1. CASE \E op \in Op : op.source # op.target /\ Replicate(op)
  <2>1. nextId \notin Ids
    BY DEF IInv, TypeOK
  <2>2. \A i \in Ids : statusById'[i] = statusById[i]
    BY <1>1, <2>1 DEF Replicate, WriteOpIntoFSM, Put, IInv, TypeOK
  <2> QED
    BY <2>2, SameStatesKeepCancelled
<1>2. ASSUME NEW id \in Ids,
             \/ RegisterError(id)
             \/ \E version \in SchemaVersions : StoreSchemaVersion(id, version)
             \/ SetUnCancellable(id)
             \/ CancelReplication(id)
      PROVE  CancelledKept
  <2>1. CASE RegisterError(id)
    <3>1. \A i \in Ids : statusById'[i].state = statusById[i].state
      BY <2>1 DEF RegisterError, ChangeStatus, IInv, TypeOK, Status
    <3> QED
      BY <3>1, SameStatesKeepCancelled
  <2>2. CASE \E version \in SchemaVersions : StoreSchemaVersion(id, version)
    <3>1. \A i \in Ids : statusById'[i].state = statusById[i].state
      BY <2>2 DEF StoreSchemaVersion, ChangeStatus, IInv, TypeOK, Status
    <3> QED
      BY <3>1, SameStatesKeepCancelled
  <2>3. CASE SetUnCancellable(id)
    <3>1. \A i \in Ids : statusById'[i].state = statusById[i].state
      BY <2>3 DEF SetUnCancellable, ChangeStatus, IInv, TypeOK, Status
    <3> QED
      BY <3>1, SameStatesKeepCancelled
  <2>4. CASE CancelReplication(id)
    <3>1. \A i \in Ids : statusById'[i].state = statusById[i].state
      <4>1. TriggerCancellation(statusById[id]).state = statusById[id].state
        BY DEF TriggerCancellation, IInv, TypeOK, Status
      <4>2. \A i \in Ids : statusById'[i] = IF i = id THEN TriggerCancellation(statusById[i])
                                                      ELSE statusById[i]
        BY <2>4 DEF CancelReplication, ChangeStatus, IInv, TypeOK
      <4> QED
        BY <4>1, <4>2
    <3> QED
      BY <3>1, SameStatesKeepCancelled
  <2> QED
    BY <1>2, <2>1, <2>2, <2>3, <2>4
<1>3. ASSUME NEW id \in Ids, NEW state \in UpdateStates, UpdateReplicationOpStatus(id, state)
      PROVE  CancelledKept
  BY <1>3 DEF UpdateReplicationOpStatus, ChangeStatus, IInv, TypeOK, CancelledKept, StateOf
<1>4. ASSUME NEW id \in Ids, CancellationComplete(id)
      PROVE  CancelledKept
  <2>1. \A i \in Ids : i # id => statusById'[i] = statusById[i]
    BY <1>4 DEF CancellationComplete, ChangeStatus, IInv, TypeOK
  <2>2. statusById'[id].state = "CANCELLED"
    <3>1. CompleteCancellation(statusById[id]).state = "CANCELLED"
      BY DEF CompleteCancellation, ChangeState, IInv, TypeOK, Status
    <3> QED
      BY <1>4, <3>1 DEF CancellationComplete, ChangeStatus, IInv, TypeOK
  <2> QED
    BY <2>1, <2>2 DEF CancelledKept, StateOf
<1>5. CASE \/ \E id \in Ids : DeleteReplication(id)
           \/ \E c \in Collections : DeleteReplicationsByCollection(c)
           \/ \E tenants \in SUBSET Shards : DeleteReplicationsByTenants(tenants)
           \/ DeleteAllReplications
  BY <1>5, TriggerDeletionKeepsCancelled
  DEF DeleteReplication, DeleteReplicationsByCollection, DeleteReplicationsByTenants,
      DeleteAllReplications
<1>6. CASE \/ \E id \in Ids : RemoveReplicationOp(id) \/ ForceDeleteByUuid(id)
           \/ \E c \in Collections : ForceDeleteByCollection(c)
           \/ \E s \in Shards : ForceDeleteByCollectionAndShard(s)
           \/ \E n \in Nodes : ForceDeleteByTargetNode(n)
           \/ ForceDeleteAll
  BY <1>6, RemoveOpsKeepsCancelled
  DEF RemoveReplicationOp, ForceDeleteByUuid, ForceDeleteByCollection,
      ForceDeleteByCollectionAndShard, ForceDeleteByTargetNode, ForceDeleteAll
<1>7. CASE \E order \in Orders : Restore(order)
  <2>1. \A i \in Ids : i \in Ids' => statusById'[i] = statusById[i]
    BY <1>7 DEF Restore, Ids
  <2> QED
    BY <2>1, SameStatesKeepCancelled
<1> QED
  BY <1>1, <1>2, <1>3, <1>4, <1>5, <1>6, <1>7 DEF Next

\* However late a worker reports, an operation that was CANCELLED stays so.
THEOREM CancelledStays == Spec => CancelledIsFinal
<1>1. IInv /\ [Next]_fsmVars => [CancelledKept]_fsmVars
  BY NextKeepsCancelled
<1>2. Spec => [][CancelledKept]_fsmVars
  BY <1>1, Invariance, PTL DEF Spec
<1> QED
  BY <1>2 DEF CancelledIsFinal, CancelledKept

----------------------------------------------------------------------------
(* What no command does to an operation that stays *)

OpsKept ==
  \A i \in Ids : i \in Ids' =>
    /\ opsById'[i] = opsById[i]
    /\ statusById[i].unCancellable = TRUE => statusById'[i].unCancellable = TRUE

LEMMA SameStatusKeepsOps ==
  ASSUME \A i \in Ids : i \in Ids' => opsById'[i] = opsById[i] /\ statusById'[i] = statusById[i]
  PROVE  OpsKept
  BY DEF OpsKept

LEMMA RemoveOpsKeepsOps ==
  ASSUME IInv, NEW ids, RemoveOps(ids)
  PROVE  OpsKept
<1>1. \A i \in Ids : i \in Ids' => opsById'[i] = opsById[i] /\ statusById'[i] = statusById[i]
  BY DEF RemoveOps, Without, IInv, TypeOK, Ids
<1> QED
  BY <1>1, SameStatusKeepsOps

LEMMA TriggerDeletionKeepsOps ==
  ASSUME IInv, NEW ids, ChangeStatus(ids, TriggerDeletion)
  PROVE  OpsKept
  BY DEF ChangeStatus, TriggerDeletion, IInv, TypeOK, Status, OpsKept

LEMMA NextKeepsOps == IInv /\ Next => OpsKept
<1> SUFFICES ASSUME IInv, Next PROVE OpsKept
  OBVIOUS
<1>1. CASE \E op \in Op : op.source # op.target /\ Replicate(op)
  <2>1. nextId \notin Ids
    BY DEF IInv, TypeOK
  <2>2. \A i \in Ids : opsById'[i] = opsById[i] /\ statusById'[i] = statusById[i]
    BY <1>1, <2>1 DEF Replicate, WriteOpIntoFSM, Put, IInv, TypeOK, Ids
  <2> QED
    BY <2>2, SameStatusKeepsOps
<1>2. ASSUME NEW id \in Ids, RegisterError(id) PROVE OpsKept
  BY <1>2 DEF RegisterError, ChangeStatus, IInv, TypeOK, Status, OpsKept
<1>3. ASSUME NEW id \in Ids, NEW state \in UpdateStates, UpdateReplicationOpStatus(id, state)
      PROVE  OpsKept
  BY <1>3 DEF UpdateReplicationOpStatus, ChangeStatus, ChangeState, IInv, TypeOK, Status, OpsKept
<1>4. ASSUME NEW id \in Ids, NEW version \in SchemaVersions, StoreSchemaVersion(id, version)
      PROVE  OpsKept
  BY <1>4 DEF StoreSchemaVersion, ChangeStatus, IInv, TypeOK, Status, OpsKept
<1>5. ASSUME NEW id \in Ids, SetUnCancellable(id) PROVE OpsKept
  BY <1>5 DEF SetUnCancellable, ChangeStatus, IInv, TypeOK, Status, OpsKept
<1>6. ASSUME NEW id \in Ids, CancelReplication(id) PROVE OpsKept
  BY <1>6 DEF CancelReplication, ChangeStatus, TriggerCancellation, IInv, TypeOK, Status, OpsKept
<1>7. ASSUME NEW id \in Ids, CancellationComplete(id) PROVE OpsKept
  BY <1>7 DEF CancellationComplete, ChangeStatus, CompleteCancellation, ChangeState,
              IInv, TypeOK, Status, OpsKept
<1>8. CASE \/ \E id \in Ids : DeleteReplication(id)
           \/ \E c \in Collections : DeleteReplicationsByCollection(c)
           \/ \E tenants \in SUBSET Shards : DeleteReplicationsByTenants(tenants)
           \/ DeleteAllReplications
  BY <1>8, TriggerDeletionKeepsOps
  DEF DeleteReplication, DeleteReplicationsByCollection, DeleteReplicationsByTenants,
      DeleteAllReplications
<1>9. CASE \/ \E id \in Ids : RemoveReplicationOp(id) \/ ForceDeleteByUuid(id)
           \/ \E c \in Collections : ForceDeleteByCollection(c)
           \/ \E s \in Shards : ForceDeleteByCollectionAndShard(s)
           \/ \E n \in Nodes : ForceDeleteByTargetNode(n)
           \/ ForceDeleteAll
  BY <1>9, RemoveOpsKeepsOps
  DEF RemoveReplicationOp, ForceDeleteByUuid, ForceDeleteByCollection,
      ForceDeleteByCollectionAndShard, ForceDeleteByTargetNode, ForceDeleteAll
<1>10. CASE \E order \in Orders : Restore(order)
  <2>1. \A i \in Ids : i \in Ids' => opsById'[i] = opsById[i] /\ statusById'[i] = statusById[i]
    BY <1>10 DEF Restore, Ids
  <2> QED
    BY <2>1, SameStatusKeepsOps
<1> QED
  BY <1>1, <1>2, <1>3, <1>4, <1>5, <1>6, <1>7, <1>8, <1>9, <1>10 DEF Next

----------------------------------------------------------------------------
(* What cannot be cancelled any more is not cancelled *)

\* The deletions that may still mark an operation that is UnCancellable.
MayBeDeleted(i) ==
  \/ StateOf(i) = "READY"
  \/ DeleteReplicationsByCollection(CollectionOf[opsById[i].shard])
  \/ \E tenants \in SUBSET Shards :
       opsById[i].shard \in tenants /\ DeleteReplicationsByTenants(tenants)

\* What a step does to the cancellation flags of operation i.
CancellationKept(i) ==
  \/ statusById'[i].shouldCancel = statusById[i].shouldCancel
  \/ statusById'[i].shouldCancel = FALSE
  \/ ~statusById[i].unCancellable
  \/ statusById'[i].shouldDelete = TRUE /\ MayBeDeleted(i)

LEMMA SameStatusKeepsCancellation ==
  ASSUME NEW i, statusById'[i] = statusById[i]
  PROVE  CancellationKept(i)
  BY DEF CancellationKept

\* A change of operation id that keeps shouldCancel.
LEMMA SameFlagKeepsCancellation ==
  ASSUME IInv, NEW id \in Ids, NEW status, status.shouldCancel = statusById[id].shouldCancel,
         statusById' = [j \in DOMAIN statusById |-> IF j \in {id} THEN status ELSE statusById[j]],
         NEW i \in Ids
  PROVE  CancellationKept(i)
<1>1. statusById'[i] = IF i = id THEN status ELSE statusById[i]
  BY DEF IInv, TypeOK
<1>2. statusById'[i].shouldCancel = statusById[i].shouldCancel
  BY <1>1
<1> QED
  BY <1>2 DEF CancellationKept

LEMMA DeletionKeepsCancellation ==
  ASSUME IInv, NEW ids, ChangeStatus(ids, TriggerDeletion), NEW i \in Ids,
         i \in ids => ~statusById[i].unCancellable \/ MayBeDeleted(i)
  PROVE  CancellationKept(i)
<1>1. statusById'[i] = IF i \in ids THEN TriggerDeletion(statusById[i]) ELSE statusById[i]
  BY DEF ChangeStatus, IInv, TypeOK
<1>2. TriggerDeletion(statusById[i]).shouldDelete = TRUE
  BY DEF TriggerDeletion, IInv, TypeOK, Status
<1>3. CASE i \in ids
  BY <1>1, <1>2, <1>3 DEF CancellationKept
<1>4. CASE i \notin ids
  BY <1>1, <1>4, SameStatusKeepsCancellation
<1> QED
  BY <1>3, <1>4

LEMMA NextKeepsCancellation ==
  ASSUME IInv, Next, NEW i \in Ids, i \in Ids'
  PROVE  CancellationKept(i)
<1>1. CASE \E op \in Op : op.source # op.target /\ Replicate(op)
  <2>1. i # nextId
    BY DEF IInv, TypeOK
  <2>2. statusById'[i] = statusById[i]
    BY <1>1, <2>1 DEF Replicate, WriteOpIntoFSM, Put, IInv, TypeOK
  <2> QED
    BY <2>2, SameStatusKeepsCancellation
<1>2. ASSUME NEW id \in Ids, RegisterError(id) PROVE CancellationKept(i)
  <2>1. [statusById[id] EXCEPT !.errors = @ + 1].shouldCancel = statusById[id].shouldCancel
    BY DEF IInv, TypeOK, Status
  <2> QED
    BY <1>2, <2>1, SameFlagKeepsCancellation DEF RegisterError, ChangeStatus
<1>3. ASSUME NEW id \in Ids, NEW state \in UpdateStates, UpdateReplicationOpStatus(id, state)
      PROVE  CancellationKept(i)
  <2>1. ChangeState(statusById[id], state).shouldCancel = statusById[id].shouldCancel
    BY DEF ChangeState, IInv, TypeOK, Status
  <2> QED
    BY <1>3, <2>1, SameFlagKeepsCancellation DEF UpdateReplicationOpStatus, ChangeStatus
<1>4. ASSUME NEW id \in Ids, NEW version \in SchemaVersions, StoreSchemaVersion(id, version)
      PROVE  CancellationKept(i)
  <2>1. [statusById[id] EXCEPT !.schemaVersion = version].shouldCancel
          = statusById[id].shouldCancel
    BY DEF IInv, TypeOK, Status
  <2> QED
    BY <1>4, <2>1, SameFlagKeepsCancellation DEF StoreSchemaVersion, ChangeStatus
<1>5. ASSUME NEW id \in Ids, SetUnCancellable(id) PROVE CancellationKept(i)
  <2>1. [statusById[id] EXCEPT !.unCancellable = TRUE].shouldCancel = statusById[id].shouldCancel
    BY DEF IInv, TypeOK, Status
  <2> QED
    BY <1>5, <2>1, SameFlagKeepsCancellation DEF SetUnCancellable, ChangeStatus
<1>6. ASSUME NEW id \in Ids, CancelReplication(id) PROVE CancellationKept(i)
  <2>1. CASE i = id
    BY <1>6, <2>1 DEF CancelReplication, CancellationKept
  <2>2. CASE i # id
    <3>1. statusById'[i] = statusById[i]
      BY <1>6, <2>2 DEF CancelReplication, ChangeStatus, IInv, TypeOK
    <3> QED
      BY <3>1, SameStatusKeepsCancellation
  <2> QED
    BY <2>1, <2>2
<1>7. ASSUME NEW id \in Ids, CancellationComplete(id) PROVE CancellationKept(i)
  <2>1. statusById'[i] = IF i = id THEN CompleteCancellation(statusById[i]) ELSE statusById[i]
    BY <1>7 DEF CancellationComplete, ChangeStatus, IInv, TypeOK
  <2>2. CompleteCancellation(statusById[i]).shouldCancel = FALSE
    BY DEF CompleteCancellation, ChangeState, IInv, TypeOK, Status
  <2> QED
    BY <2>1, <2>2 DEF CancellationKept
<1>8. ASSUME NEW id \in Ids, DeleteReplication(id) PROVE CancellationKept(i)
  BY <1>8, DeletionKeepsCancellation DEF DeleteReplication, Deletable, MayBeDeleted, StateOf
<1>9. CASE DeleteAllReplications
  BY <1>9, DeletionKeepsCancellation DEF DeleteAllReplications, Deletable, MayBeDeleted, StateOf
<1>10. ASSUME NEW c \in Collections, DeleteReplicationsByCollection(c)
       PROVE  CancellationKept(i)
  <2>1. i \in opsByCollection[c] => c = CollectionOf[opsById[i].shard]
    BY DEF IInv, IndexesAgree
  <2>2. i \in opsByCollection[c] => MayBeDeleted(i)
    BY <1>10, <2>1 DEF MayBeDeleted
  <2> QED
    BY <1>10, <2>2, DeletionKeepsCancellation DEF DeleteReplicationsByCollection
<1>11. ASSUME NEW tenants \in SUBSET Shards, DeleteReplicationsByTenants(tenants)
       PROVE  CancellationKept(i)
  <2>1. i \in UNION {opsByCollectionAndShard[s] : s \in tenants} => opsById[i].shard \in tenants
    BY DEF IInv, IndexesAgree
  <2>2. i \in UNION {opsByCollectionAndShard[s] : s \in tenants} => MayBeDeleted(i)
    BY <1>11, <2>1 DEF MayBeDeleted
  <2> QED
    BY <1>11, <2>2, DeletionKeepsCancellation DEF DeleteReplicationsByTenants
<1>12. ASSUME NEW ids, RemoveOps(ids) PROVE CancellationKept(i)
  <2>1. statusById'[i] = statusById[i]
    BY <1>12 DEF RemoveOps, Without, IInv, TypeOK, Ids
  <2> QED
    BY <2>1, SameStatusKeepsCancellation
<1>13. CASE \/ \E id \in Ids : RemoveReplicationOp(id) \/ ForceDeleteByUuid(id)
            \/ \E c \in Collections : ForceDeleteByCollection(c)
            \/ \E s \in Shards : ForceDeleteByCollectionAndShard(s)
            \/ \E n \in Nodes : ForceDeleteByTargetNode(n)
            \/ ForceDeleteAll
  BY <1>12, <1>13
  DEF RemoveReplicationOp, ForceDeleteByUuid, ForceDeleteByCollection,
      ForceDeleteByCollectionAndShard, ForceDeleteByTargetNode, ForceDeleteAll
<1>14. CASE \E order \in Orders : Restore(order)
  <2>1. statusById'[i] = statusById[i]
    BY <1>14 DEF Restore, Ids
  <2> QED
    BY <2>1, SameStatusKeepsCancellation
<1> QED
  BY <1>1, <1>2, <1>3, <1>4, <1>5, <1>6, <1>7, <1>8, <1>9, <1>10, <1>11, <1>13, <1>14 DEF Next

UnCancellableKept ==
  \A i \in Ids \cap Ids' :
    /\ statusById[i].unCancellable => statusById'[i].unCancellable
    /\ /\ statusById[i].unCancellable /\ ~statusById[i].shouldCancel
       /\ statusById'[i].shouldCancel
       => statusById'[i].shouldDelete /\ MayBeDeleted(i)

\* Once an operation may have placed its replica no command makes it be
\* cancelled, other than the deletion of its shard or of a READY operation.
THEOREM UnCancellableStays == Spec => UnCancellableStaysUncancelled
<1>1. IInv /\ [Next]_fsmVars => [UnCancellableKept]_fsmVars
  <2> SUFFICES ASSUME IInv, Next PROVE UnCancellableKept
    OBVIOUS
  <2>1. ASSUME NEW i \in Ids, i \in Ids', statusById[i].unCancellable
        PROVE  statusById'[i].unCancellable
    BY <2>1, NextKeepsOps DEF OpsKept, IInv, TypeOK, Status
  <2>2. ASSUME NEW i \in Ids, i \in Ids', statusById[i].unCancellable,
               ~statusById[i].shouldCancel, statusById'[i].shouldCancel
        PROVE  statusById'[i].shouldDelete /\ MayBeDeleted(i)
    BY <2>2, NextKeepsCancellation DEF CancellationKept
  <2> QED
    BY <2>1, <2>2 DEF UnCancellableKept
<1>2. Spec => [][UnCancellableKept]_fsmVars
  BY <1>1, Invariance, PTL DEF Spec
<1> QED
  BY <1>2 DEF UnCancellableStaysUncancelled, UnCancellableKept, MayBeDeleted
===========================================================================
