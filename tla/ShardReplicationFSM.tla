------------------------ MODULE ShardReplicationFSM ------------------------
(***************************************************************************)
(* The replicated state machine of replica movement:                       *)
(* cluster/replication/shard_replication_fsm.go, _apply.go, _op_state.go.  *)
(*                                                                         *)
(* Every operation is one raft command applied under opsLock, hence one    *)
(* step.  A command that returns an error changes nothing and is not a     *)
(* step: its early returns are the guards below.  The Next of this module  *)
(* lets any client send any command at any time; ReplicationConsumer       *)
(* restricts the senders to the ones of the program.                       *)
(*                                                                         *)
(* Abstractions.  An operation's UUID is identified with its id, the raft  *)
(* log index of its Replicate command (so idsByUuid is the identity on     *)
(* DOMAIN opsById).  A slice of operations is the set of their ids: every  *)
(* slice keeps the insertion order, which `rank` records once for all.     *)
(* Errors are counted, timestamps and the state history are left out.      *)
(***************************************************************************)
EXTENDS Integers, FiniteSets

CONSTANTS
  Nodes,          \* node names
  Shards,         \* the shards of all collections
  Collections,    \* collection (class) names
  CollectionOf,   \* the collection of each shard
  MaxErrors,      \* errors kept for one state of an operation (50 in the code)
  MaxOps,         \* bound: operations ever registered
  SchemaVersions  \* bound: the schema versions a worker may store

ASSUME FSMAssumption ==
  /\ CollectionOf \in [Shards -> Collections]
  /\ MaxErrors \in Nat
  /\ MaxOps \in Nat
  /\ SchemaVersions \subseteq Nat /\ 0 \in SchemaVersions

VARIABLES
  nextId,                  \* the log index of the next Replicate command
  rank,                    \* position of each operation in the order of insertion
  opsById,                 \* operation of each id
  statusById,              \* status of each id
  opsByTarget,             \* ids by target node
  opsBySource,             \* ids by source node
  opsByCollection,         \* ids by collection
  opsByCollectionAndShard, \* ids by shard
  opsByTargetFQDN,         \* id of the operation that creates a replica
  opsBySourceFQDN          \* ids of the operations that read from a replica

indexVars == <<opsByTarget, opsBySource, opsByCollection,
               opsByCollectionAndShard, opsByTargetFQDN, opsBySourceFQDN>>
fsmVars == <<nextId, rank, opsById, statusById, indexVars>>

States == {"REGISTERED", "HYDRATING", "FINALIZING", "DEHYDRATING", "READY", "CANCELLED"}

\* The states a worker asks for; REGISTERED and CANCELLED are set by Replicate
\* and CancellationComplete only.
UpdateStates == {"HYDRATING", "FINALIZING", "DEHYDRATING", "READY"}

Replica == Nodes \X Shards   \* shardFQDN: a node and a shard of a collection

Op == [source: Nodes, target: Nodes, shard: Shards, type: {"COPY", "MOVE"}]

Status == [state: States, errors: 0 .. MaxErrors, schemaVersion: SchemaVersions,
           shouldCancel: BOOLEAN, shouldDelete: BOOLEAN, unCancellable: BOOLEAN]

Ids == DOMAIN opsById

SourceFQDN(op) == <<op.source, op.shard>>
TargetFQDN(op) == <<op.target, op.shard>>
StateOf(id) == statusById[id].state

----------------------------------------------------------------------------
(* The status of an operation *)

NewShardReplicationStatus(state) ==
  [state |-> state, errors |-> 0, schemaVersion |-> 0,
   shouldCancel |-> FALSE, shouldDelete |-> FALSE, unCancellable |-> FALSE]

ChangeState(status, state) == [status EXCEPT !.state = state, !.errors = 0]
TriggerCancellation(status) == [status EXCEPT !.shouldCancel = TRUE, !.shouldDelete = FALSE]
TriggerDeletion(status) == [status EXCEPT !.shouldCancel = TRUE, !.shouldDelete = TRUE]
CompleteCancellation(status) ==
  ChangeState([status EXCEPT !.shouldCancel = FALSE, !.shouldDelete = FALSE], "CANCELLED")

\* Seeded bug: a settled operation is left alone even if it is to be deleted.
ShouldConsumeOps_Unsettled(status) == status.state \notin {"CANCELLED", "READY"}

\* The producer hands these operations to the consumer.
ShouldConsumeOps(status) ==
  status.state \in {"CANCELLED", "READY"} => status.shouldDelete

\* An UnCancellable operation can be deleted only once it is READY.
Deletable(status) == status.unCancellable => status.state = "READY"

----------------------------------------------------------------------------
(* Writing and removing operations *)

Put(f, x, y) == [z \in DOMAIN f \cup {x} |-> IF z = x THEN y ELSE f[z]]
Without(f, S) == [z \in DOMAIN f \ S |-> f[z]]
AddTo(index, key, id) == [index EXCEPT ![key] = @ \cup {id}]
RemoveFrom(index, ids) == [key \in DOMAIN index |-> index[key] \ ids]

\* Seeded bug: beside a copy that is under way a movement is accepted.
MayShareSource_BesideCopies(op, existing, status) ==
  \/ status.state = "CANCELLED"
  \/ existing.type = "COPY"

\* May a new operation coexist with an existing one that reads from the same
\* replica?  Finished ones do not count, except a MOVE that is READY; two
\* copies may read from the same source.
MayShareSource(op, existing, status) ==
  \/ status.state = "CANCELLED"
  \/ status.state = "READY" /\ existing.type = "COPY"
  \/ existing.type = "COPY" /\ op.type = "COPY"

\* Seeded bug: the replica to be created is not compared with those of other operations.
Writable_IgnoringTarget(op, present) ==
  \A i \in present : SourceFQDN(opsById[i]) = SourceFQDN(op)
                       => MayShareSource(op, opsById[i], statusById[i])

\* writeOpIntoFSM accepts op when only the operations `present` are there.
Writable(op, present) ==
  /\ \A i \in present : TargetFQDN(opsById[i]) # TargetFQDN(op)
  /\ \A i \in present : SourceFQDN(opsById[i]) = SourceFQDN(op)
                          => MayShareSource(op, opsById[i], statusById[i])

\* The maps and slices that writeOpIntoFSM fills.
WriteOpIntoFSM(id, op, status) ==
  /\ opsById' = Put(opsById, id, op)
  /\ statusById' = Put(statusById, id, status)
  /\ rank' = Put(rank, id, id)
  /\ opsByTarget' = AddTo(opsByTarget, op.target, id)
  /\ opsBySource' = AddTo(opsBySource, op.source, id)
  /\ opsByCollection' = AddTo(opsByCollection, CollectionOf[op.shard], id)
  /\ opsByCollectionAndShard' = AddTo(opsByCollectionAndShard, op.shard, id)
  /\ opsByTargetFQDN' = Put(opsByTargetFQDN, TargetFQDN(op), id)
  /\ opsBySourceFQDN' = AddTo(opsBySourceFQDN, SourceFQDN(op), id)

\* Seeded bug: the removed operations stay in the index by collection.
RemoveOps_ForgettingCollection(ids) ==
  /\ opsById' = Without(opsById, ids)
  /\ statusById' = Without(statusById, ids)
  /\ rank' = Without(rank, ids)
  /\ opsByTarget' = RemoveFrom(opsByTarget, ids)
  /\ opsBySource' = RemoveFrom(opsBySource, ids)
  /\ opsByCollectionAndShard' = RemoveFrom(opsByCollectionAndShard, ids)
  /\ opsByTargetFQDN' = Without(opsByTargetFQDN, {TargetFQDN(opsById[i]) : i \in ids})
  /\ opsBySourceFQDN' = RemoveFrom(opsBySourceFQDN, ids)
  /\ UNCHANGED <<nextId, opsByCollection>>

\* removeReplicationOp for each of the ids.
RemoveOps(ids) ==
  /\ opsById' = Without(opsById, ids)
  /\ statusById' = Without(statusById, ids)
  /\ rank' = Without(rank, ids)
  /\ opsByTarget' = RemoveFrom(opsByTarget, ids)
  /\ opsBySource' = RemoveFrom(opsBySource, ids)
  /\ opsByCollection' = RemoveFrom(opsByCollection, ids)
  /\ opsByCollectionAndShard' = RemoveFrom(opsByCollectionAndShard, ids)
  /\ opsByTargetFQDN' = Without(opsByTargetFQDN, {TargetFQDN(opsById[i]) : i \in ids})
  /\ opsBySourceFQDN' = RemoveFrom(opsBySourceFQDN, ids)
  /\ UNCHANGED nextId

\* ForceDelete* range over a slice that removeReplicationOp compacts under the
\* iteration: after each removal the next element moves into the slot just
\* visited and is skipped, so the operations at the even offsets go; then the
\* loop meets a zeroed element and stops with the error that there is no op 0.
VisitedByRange(ids) ==
  {i \in ids : Cardinality({j \in ids : rank[j] < rank[i]}) % 2 = 0}

ChangeStatus(ids, NewStatus(_)) ==
  /\ statusById' = [i \in DOMAIN statusById |->
                      IF i \in ids THEN NewStatus(statusById[i]) ELSE statusById[i]]
  /\ UNCHANGED <<nextId, rank, opsById, indexVars>>

----------------------------------------------------------------------------
(* The commands *)

Replicate(op) ==
  /\ nextId <= MaxOps
  /\ Writable(op, Ids)
  /\ WriteOpIntoFSM(nextId, op, NewShardReplicationStatus("REGISTERED"))
  /\ nextId' = nextId + 1

\* Seeded bug: one error more than fits.
RegisterError_OffByOne(id) ==
  /\ id \in Ids
  /\ statusById[id].errors <= MaxErrors
  /\ ChangeStatus({id}, LAMBDA s : [s EXCEPT !.errors = @ + 1])

RegisterError(id) ==
  /\ id \in Ids
  /\ statusById[id].errors < MaxErrors
  /\ ChangeStatus({id}, LAMBDA s : [s EXCEPT !.errors = @ + 1])

UpdateReplicationOpStatus(id, state) ==
  /\ id \in Ids
  /\ StateOf(id) # "CANCELLED"
  /\ ChangeStatus({id}, LAMBDA s : ChangeState(s, state))

StoreSchemaVersion(id, version) ==
  /\ id \in Ids
  /\ ChangeStatus({id}, LAMBDA s : [s EXCEPT !.schemaVersion = version])

SetUnCancellable(id) ==
  /\ id \in Ids
  /\ ChangeStatus({id}, LAMBDA s : [s EXCEPT !.unCancellable = TRUE])

\* Seeded bug: UnCancellable is not looked at.
CancelReplication_Unguarded(id) ==
  /\ id \in Ids
  /\ ChangeStatus({id}, TriggerCancellation)

CancelReplication(id) ==
  /\ id \in Ids
  /\ ~statusById[id].unCancellable
  /\ ChangeStatus({id}, TriggerCancellation)

DeleteReplication(id) ==
  /\ id \in Ids
  /\ Deletable(statusById[id])
  /\ ChangeStatus({id}, TriggerDeletion)

DeleteAllReplications ==
  ChangeStatus({i \in Ids : Deletable(statusById[i])}, TriggerDeletion)

CancellationComplete(id) ==
  /\ id \in Ids
  /\ ChangeStatus({id}, CompleteCancellation)

\* Called when the collection (the tenants) are deleted; unlike a user's delete
\* these do not ask whether the operation can be cancelled.
DeleteReplicationsByCollection(c) == ChangeStatus(opsByCollection[c], TriggerDeletion)
DeleteReplicationsByTenants(tenants) ==
  ChangeStatus(UNION {opsByCollectionAndShard[s] : s \in tenants}, TriggerDeletion)

RemoveReplicationOp(id) == id \in Ids /\ RemoveOps({id})
ForceDeleteByUuid(id) == id \in Ids /\ RemoveOps({id})
ForceDeleteAll == RemoveOps(Ids)
ForceDeleteByCollection(c) == RemoveOps(VisitedByRange(opsByCollection[c]))
ForceDeleteByCollectionAndShard(s) == RemoveOps(VisitedByRange(opsByCollectionAndShard[s]))
ForceDeleteByTargetNode(n) == RemoveOps(VisitedByRange(opsByTarget[n]))

\* The orders in which Go may iterate over the map of a snapshot.
Orders == {order \in [Ids -> Ids] : \A i, j \in Ids : order[i] = order[j] => i = j}

\* Restore writes the operations of the snapshot one by one, by the same
\* writeOpIntoFSM, and stops at the first one that is refused.
Refused(order, id) ==
  ~Writable(opsById[id], {j \in Ids : order[j] < order[id]})
Restored(order) ==
  {i \in Ids : \A j \in Ids : order[j] <= order[i] => ~Refused(order, j)}

\* A node installs a snapshot of this state: whatever it held is reset, the
\* operations are inserted in the order of the iteration, and those from the
\* first refused one on are missing.
Restore(order) ==
  LET kept == Restored(order)
  IN /\ opsById' = [i \in kept |-> opsById[i]]
     /\ statusById' = [i \in kept |-> statusById[i]]
     /\ rank' = [i \in kept |-> order[i]]
     /\ opsByTarget' = [n \in Nodes |-> {i \in kept : opsById[i].target = n}]
     /\ opsBySource' = [n \in Nodes |-> {i \in kept : opsById[i].source = n}]
     /\ opsByCollection' =
          [c \in Collections |-> {i \in kept : CollectionOf[opsById[i].shard] = c}]
     /\ opsByCollectionAndShard' = [s \in Shards |-> {i \in kept : opsById[i].shard = s}]
     /\ opsByTargetFQDN' =
          [r \in {TargetFQDN(opsById[i]) : i \in kept} |->
             CHOOSE i \in kept : TargetFQDN(opsById[i]) = r]
     /\ opsBySourceFQDN' = [r \in Replica |-> {i \in kept : SourceFQDN(opsById[i]) = r}]
     /\ UNCHANGED nextId

----------------------------------------------------------------------------
(* What the router reads: which replicas of a shard serve a request *)

\* Seeded bug: a replica serves only once its operation is READY.
ReplicaUsable_ReadyOnly(node, shard) ==
  LET replica == <<node, shard>>
  IN IF replica \in DOMAIN opsByTargetFQDN
     THEN StateOf(opsByTargetFQDN[replica]) = "READY"
     ELSE \A i \in opsBySourceFQDN[replica] : StateOf(i) # "DEHYDRATING"

\* Seeded bug: a FINALIZING replica, which has its own route, serves as well.
ReplicaUsable_Finalizing(node, shard) ==
  LET replica == <<node, shard>>
  IN IF replica \in DOMAIN opsByTargetFQDN
     THEN StateOf(opsByTargetFQDN[replica]) \in {"READY", "DEHYDRATING", "FINALIZING"}
     ELSE \A i \in opsBySourceFQDN[replica] : StateOf(i) # "DEHYDRATING"

\* Seeded bug: a replica that other operations read from counts as a source only.
ReplicaUsable_SourceFirst(node, shard) ==
  LET replica == <<node, shard>>
  IN IF opsBySourceFQDN[replica] # {}
     THEN \A i \in opsBySourceFQDN[replica] : StateOf(i) # "DEHYDRATING"
     ELSE replica \in DOMAIN opsByTargetFQDN
            => StateOf(opsByTargetFQDN[replica]) \in {"READY", "DEHYDRATING"}

\* A replica that an operation creates serves once that operation is READY or
\* DEHYDRATING; any other replica serves unless it is the source of a
\* DEHYDRATING operation.
ReplicaUsable(node, shard) ==
  LET replica == <<node, shard>>
  IN IF replica \in DOMAIN opsByTargetFQDN
     THEN StateOf(opsByTargetFQDN[replica]) \in {"READY", "DEHYDRATING"}
     ELSE \A i \in opsBySourceFQDN[replica] : StateOf(i) # "DEHYDRATING"

FilterOneShardReplicasRead(shard, nodes) == {n \in nodes : ReplicaUsable(n, shard)}
FilterOneShardReplicasWrite(shard, nodes) == {n \in nodes : ReplicaUsable(n, shard)}
AdditionalWriteReplicas(shard) ==
  {opsById[i].target : i \in {j \in opsByCollectionAndShard[shard] : StateOf(j) = "FINALIZING"}}

HasOngoingReplication(node, shard) ==
  LET replica == <<node, shard>>
  IN \/ \E i \in opsBySourceFQDN[replica] : ShouldConsumeOps(statusById[i])
     \/ /\ replica \in DOMAIN opsByTargetFQDN
        /\ ShouldConsumeOps(statusById[opsByTargetFQDN[replica]])

----------------------------------------------------------------------------
(* The specification: any client, any command *)

Init ==
  /\ nextId = 1
  /\ rank = [i \in {} |-> 0]
  /\ opsById = [i \in {} |-> {}]
  /\ statusById = [i \in {} |-> {}]
  /\ opsByTarget = [n \in Nodes |-> {}]
  /\ opsBySource = [n \in Nodes |-> {}]
  /\ opsByCollection = [c \in Collections |-> {}]
  /\ opsByCollectionAndShard = [s \in Shards |-> {}]
  /\ opsByTargetFQDN = [r \in {} |-> 0]
  /\ opsBySourceFQDN = [r \in Replica |-> {}]

Next ==
  \/ \E op \in Op : op.source # op.target /\ Replicate(op)
  \/ \E id \in Ids :
       \/ RegisterError(id)
       \/ \E state \in UpdateStates : UpdateReplicationOpStatus(id, state)
       \/ \E version \in SchemaVersions : StoreSchemaVersion(id, version)
       \/ SetUnCancellable(id)
       \/ CancelReplication(id)
       \/ DeleteReplication(id)
       \/ CancellationComplete(id)
       \/ RemoveReplicationOp(id)
       \/ ForceDeleteByUuid(id)
  \/ \E c \in Collections : DeleteReplicationsByCollection(c) \/ ForceDeleteByCollection(c)
  \/ \E tenants \in SUBSET Shards : DeleteReplicationsByTenants(tenants)
  \/ \E s \in Shards : ForceDeleteByCollectionAndShard(s)
  \/ \E n \in Nodes : ForceDeleteByTargetNode(n)
  \/ DeleteAllReplications
  \/ ForceDeleteAll
  \/ \E order \in Orders : Restore(order)

Spec == Init /\ [][Next]_fsmVars

----------------------------------------------------------------------------
(* Properties *)

\* Every piece of the state has its type; the maps opsById and statusById have
\* the same keys, and ids are given out in increasing order.
TypeOK ==
  /\ nextId \in 1 .. MaxOps + 1
  /\ Ids \subseteq 1 .. nextId - 1
  /\ opsById \in [Ids -> Op]
  /\ statusById \in [Ids -> Status]
  /\ rank \in [Ids -> 1 .. nextId - 1]
  /\ opsByTarget \in [Nodes -> SUBSET Ids]
  /\ opsBySource \in [Nodes -> SUBSET Ids]
  /\ opsByCollection \in [Collections -> SUBSET Ids]
  /\ opsByCollectionAndShard \in [Shards -> SUBSET Ids]
  /\ DOMAIN opsByTargetFQDN \subseteq Replica
  /\ opsByTargetFQDN \in [DOMAIN opsByTargetFQDN -> Ids]
  /\ opsBySourceFQDN \in [Replica -> SUBSET Ids]

\* The six indexes agree with opsById after any sequence of commands, removals
\* and restores: each lists exactly the operations of its key.  The code
\* maintains them by hand ("this should not happen" in removeReplicationOp).
IndexesAgree ==
  /\ \A n \in Nodes : opsByTarget[n] = {i \in Ids : opsById[i].target = n}
  /\ \A n \in Nodes : opsBySource[n] = {i \in Ids : opsById[i].source = n}
  /\ \A c \in Collections : opsByCollection[c] = {i \in Ids : CollectionOf[opsById[i].shard] = c}
  /\ \A s \in Shards : opsByCollectionAndShard[s] = {i \in Ids : opsById[i].shard = s}
  /\ \A r \in Replica : opsBySourceFQDN[r] = {i \in Ids : SourceFQDN(opsById[i]) = r}
  /\ DOMAIN opsByTargetFQDN = {TargetFQDN(opsById[i]) : i \in Ids}
  /\ \A i \in Ids : opsByTargetFQDN[TargetFQDN(opsById[i])] = i

\* No two operations, in whatever state, create the same replica.
OneOpPerTarget ==
  \A i, j \in Ids : TargetFQDN(opsById[i]) = TargetFQDN(opsById[j]) => i = j

\* The replicas a write goes to and the additional ones that receive it while
\* an operation is FINALIZING never overlap: a write reaches a replica once.
WritesReachAReplicaOnce ==
  \A s \in Shards :
    FilterOneShardReplicasWrite(s, Nodes) \cap AdditionalWriteReplicas(s) = {}

\* A replica that an ongoing operation is creating serves no read before that
\* operation has copied it, even if it is also the source of other operations.
UnfinishedReplicaServesNoRead ==
  \A i \in Ids :
    StateOf(i) \in {"REGISTERED", "HYDRATING", "FINALIZING", "CANCELLED"}
      => opsById[i].target \notin FilterOneShardReplicasRead(opsById[i].shard, Nodes)

\* CANCELLED is final: whatever a worker still sends, the operation stays
\* CANCELLED until it is removed.
CancelledIsFinal ==
  [][\A i \in Ids : StateOf(i) = "CANCELLED" /\ i \in Ids' => StateOf(i)' = "CANCELLED"]_fsmVars

\* Once the replica of an operation may be in the sharding state, no user
\* command makes the operation be cancelled: only the deletion of its
\* collection or tenant does, or a deletion once it is READY.
UnCancellableStaysUncancelled ==
  [][\A i \in Ids \cap Ids' :
       /\ statusById[i].unCancellable => statusById'[i].unCancellable
       /\ /\ statusById[i].unCancellable /\ ~statusById[i].shouldCancel
          /\ statusById'[i].shouldCancel
          => statusById'[i].shouldDelete
             /\ (\/ StateOf(i) = "READY"
                 \/ DeleteReplicationsByCollection(CollectionOf[opsById[i].shard])
                 \/ \E tenants \in SUBSET Shards :
                      opsById[i].shard \in tenants /\ DeleteReplicationsByTenants(tenants))]_fsmVars

=============================================================================
