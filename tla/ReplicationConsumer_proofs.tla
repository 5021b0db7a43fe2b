--------------------- MODULE ReplicationConsumer_proofs ---------------------
(***************************************************************************)
(* Theorems about the replication engine, for any nodes, shards, numbers   *)
(* of operations, workers and restarts, and any capacity of the channel.   *)
(*                                                                         *)
(* The invariant follows an operation's id from the view of its target     *)
(* node through the channel and the main loop into a worker.  What a late  *)
(* message says may be out of date, but the operation it names, if it is   *)
(* still there, is one of this node (EIds); claiming it in inFlight keeps  *)
(* other workers away (EClaims); and, as only its worker moves a claimed   *)
(* operation on, the worker's own copy of the state stays right from the   *)
(* check at the leader until the worker is stopped (EWorkers).             *)
(*                                                                         *)
(* That some replica serves reads needs the history of the movements       *)
(* (MovesInv).  An operation whose replica is placed but not finished      *)
(* reads from a replica that stays, and that one was not placed by a       *)
(* younger operation: so the source of the oldest of them is finished.     *)
(* It holds unless operations are removed by force under their workers.    *)
(*                                                                         *)
(* That what is READY was placed needs that a worker's belief that there   *)
(* is nothing left to add (drop) was right when it was formed, from a view *)
(* of some earlier moment, and that what has changed since is explained by *)
(* a movement that is still known (ReadyInv): it is, unless users delete   *)
(* operations whose shard stays.                                           *)
(***************************************************************************)
EXTENDS ReplicationConsumer, ReplicationStore_proofs, WellFoundedInduction

Briefs == [state: States, schemaVersion: SchemaVersions,
           shouldCancel: BOOLEAN, shouldDelete: BOOLEAN]
Messages == [id: Nat, status: Briefs]
Holdings == [pc: {"token", "check"}, msg: Messages]
Workers == [pc: WorkerPcs, id: Nat, op: Op, status: Briefs, skip: BOOLEAN]

ETypes ==
  /\ DOMAIN view = Engines
  /\ \A n \in Engines : \A id \in DOMAIN view[n].ops : id \in Nat /\ view[n].ops[id] \in Briefs
  /\ queue \in [Engines -> Seq(Messages)]
  /\ \A n \in Engines : Len(queue[n]) <= QueueSize
  /\ main \in [Engines -> {Idle} \cup Holdings]
  /\ workers \in [Engines -> [Tokens -> {Idle} \cup Workers]]
  /\ inFlight \in [Engines -> SUBSET Nat]
  /\ cancelled \in [Engines -> SUBSET Nat]
  /\ backoff \in [Engines -> SUBSET Nat]

\* id was given to an operation, which, if it is present, is one of node n.
Known(n, id) == id < nextId /\ (id \in Ids => opsById[id].target = n)

EIds ==
  \A n \in Engines :
    /\ \A id \in DOMAIN view[n].ops : Known(n, id)
    /\ \A k \in 1 .. Len(queue[n]) : Known(n, queue[n][k].id)
    /\ main[n] # Idle => Known(n, main[n].msg.id)

\* The states in which a worker can be at a pc.
PcStates(pc) ==
  CASE pc \in {"activate", "copy"} -> {"HYDRATING"}
    [] pc \in {"wait", "sync"} -> {"FINALIZING", "DEHYDRATING"}
    [] pc = "add" -> {"FINALIZING"}
    [] pc = "drop" -> {"DEHYDRATING"}
    [] pc = "remove" -> {"CANCELLED"}
    [] pc = "update" -> States \ {"READY"}
    [] OTHER -> States

\* What a worker w of node n knows of its operation.
WorkerKnows(n, w) ==
  /\ w.op.target = n
  /\ w.id < nextId
  /\ w.status.state \in PcStates(w.pc)
  /\ w.id \in Ids => w.op = opsById[w.id]
  /\ w.id \in Ids /\ w.pc \notin {"cancel", "leave"} => StateOf(w.id) = w.status.state
  /\ w.pc = "update" /\ w.status.state = "CANCELLED" => w.id \notin Ids

EWorkers == \A n \in Engines : \A t \in Busy(n) : WorkerKnows(n, workers[n][t])

EClaims ==
  /\ OneWorkerPerOp
  /\ \A n \in Engines : main[n].pc = "check" => main[n].msg.id \in inFlight[n] /\ Busy(n) # Tokens

EInv == StoreInv /\ ETypes /\ EIds /\ EWorkers /\ EClaims

----------------------------------------------------------------------------
(* What a command of the store does to the operations *)

\* Ids are given out in increasing order, a removed one does not come back, and
\* a new operation is REGISTERED.
IdsGrow ==
  /\ nextId \in Nat /\ nextId' \in Nat /\ nextId <= nextId'
  /\ \A i \in Ids' : i \in Ids \/ ~(i < nextId)
  /\ \A i \in Ids' \ Ids : statusById'[i].state = "REGISTERED"

\* Only the operations in X change their state.
StatesKept(X) == \A i \in Ids \cap Ids' : i \notin X => StateOf(i)' = StateOf(i)

LEMMA ShrinkingIdsGrow ==
  ASSUME IInv, Ids' \subseteq Ids, nextId' = nextId
  PROVE  IdsGrow
  BY FSMAssumption DEF IInv, TypeOK, IdsGrow, FSMAssumption

LEMMA NextIdsGrow == IInv /\ [Next]_fsmVars => IdsGrow
<1> SUFFICES ASSUME IInv, [Next]_fsmVars PROVE IdsGrow
  OBVIOUS
<1>1. CASE \E op \in Op : op.source # op.target /\ Replicate(op)
  <2>1. nextId \in Nat /\ nextId' = nextId + 1 /\ Ids' = Ids \cup {nextId}
    BY <1>1, FSMAssumption
    DEF Replicate, WriteOpIntoFSM, Put, Ids, IInv, TypeOK, FSMAssumption
  <2>2. statusById'[nextId].state = "REGISTERED"
    BY <1>1 DEF Replicate, WriteOpIntoFSM, Put, NewShardReplicationStatus
  <2> QED
    BY <2>1, <2>2 DEF IdsGrow
<1>2. CASE \/ \E id \in Ids :
                \/ RegisterError(id)
                \/ \E state \in UpdateStates : UpdateReplicationOpStatus(id, state)
                \/ \E version \in SchemaVersions : StoreSchemaVersion(id, version)
                \/ SetUnCancellable(id) \/ CancelReplication(id) \/ DeleteReplication(id)
                \/ CancellationComplete(id)
           \/ \E c \in Collections : DeleteReplicationsByCollection(c)
           \/ \E tenants \in SUBSET Shards : DeleteReplicationsByTenants(tenants)
           \/ DeleteAllReplications
  <2>1. Ids' = Ids /\ nextId' = nextId
    BY <1>2 DEF RegisterError, UpdateReplicationOpStatus, StoreSchemaVersion, SetUnCancellable,
       CancelReplication, DeleteReplication, CancellationComplete, DeleteReplicationsByCollection,
       DeleteReplicationsByTenants, DeleteAllReplications, ChangeStatus, Ids
  <2> QED
    BY <2>1, ShrinkingIdsGrow
<1>3. ASSUME NEW ids, RemoveOps(ids) PROVE IdsGrow
  <2>1. Ids' \subseteq Ids /\ nextId' = nextId
    BY <1>3 DEF RemoveOps, Without, Ids
  <2> QED
    BY <2>1, ShrinkingIdsGrow
<1>4. CASE \/ \E id \in Ids : RemoveReplicationOp(id) \/ ForceDeleteByUuid(id)
           \/ \E c \in Collections : ForceDeleteByCollection(c)
           \/ \E s \in Shards : ForceDeleteByCollectionAndShard(s)
           \/ \E n \in Nodes : ForceDeleteByTargetNode(n)
           \/ ForceDeleteAll
  BY <1>3, <1>4
  DEF RemoveReplicationOp, ForceDeleteByUuid, ForceDeleteByCollection,
      ForceDeleteByCollectionAndShard, ForceDeleteByTargetNode, ForceDeleteAll
<1>5. CASE \E order \in Orders : Restore(order)
  <2>1. Ids' \subseteq Ids /\ nextId' = nextId
    BY <1>5 DEF Restore, Restored, Ids
  <2> QED
    BY <2>1, ShrinkingIdsGrow
<1>6. CASE UNCHANGED fsmVars
  <2>1. Ids' \subseteq Ids /\ nextId' = nextId
    BY <1>6 DEF fsmVars, Ids
  <2> QED
    BY <2>1, ShrinkingIdsGrow
<1> QED
  BY <1>1, <1>2, <1>4, <1>5, <1>6 DEF Next

\* All that a step of the store lets a worker rely on.
Frame == StoreInv' /\ IdsGrow /\ OpsKept

LEMMA StoreStepFrame == StoreInv /\ [StoreNext]_storeVars => Frame
<1> SUFFICES ASSUME StoreInv, [StoreNext]_storeVars PROVE Frame
  OBVIOUS
<1>1. [Next]_fsmVars
  BY StoreStepIsFSMStep DEF StoreInv
<1>2. StoreInv'
  BY NextKeepsStoreInv
<1>3. IdsGrow
  BY <1>1, NextIdsGrow DEF StoreInv
<1>4. OpsKept
  <2>1. CASE Next
    BY <2>1, NextKeepsOps DEF StoreInv
  <2>2. CASE UNCHANGED fsmVars
    BY <2>2, SameStatusKeepsOps DEF fsmVars
  <2> QED
    BY <1>1, <2>1, <2>2
<1> QED
  BY <1>2, <1>3, <1>4 DEF Frame

LEMMA SameStatesKept ==
  ASSUME \A i \in Ids : i \in Ids' => statusById'[i].state = statusById[i].state
  PROVE  StatesKept({})
  BY DEF StatesKept, StateOf

LEMMA TriggerDeletionKeepsStates ==
  ASSUME IInv, NEW ids, ChangeStatus(ids, TriggerDeletion)
  PROVE  StatesKept({})
<1>1. \A i \in Ids : statusById'[i].state = statusById[i].state
  BY DEF ChangeStatus, TriggerDeletion, IInv, TypeOK, Status, Ids
<1> QED
  BY <1>1, SameStatesKept

LEMMA RemoveOpsKeepsStates ==
  ASSUME IInv, NEW ids, RemoveOps(ids)
  PROVE  StatesKept({})
<1>1. \A i \in Ids : i \in Ids' => statusById'[i].state = statusById[i].state
  BY DEF RemoveOps, Without, IInv, TypeOK, Ids
<1> QED
  BY <1>1, SameStatesKept

LEMMA CancelKeepsStates ==
  ASSUME IInv, NEW id \in Ids, CancelReplication(id)
  PROVE  StatesKept({})
<1>1. \A i \in Ids : statusById'[i].state = statusById[i].state
  BY DEF CancelReplication, ChangeStatus, TriggerCancellation, IInv, TypeOK, Status, Ids
<1> QED
  BY <1>1, SameStatesKept

LEMMA UnchangedKeepsStates ==
  ASSUME UNCHANGED fsmVars
  PROVE  StatesKept({})
  BY DEF fsmVars, StatesKept, StateOf

\* No command of a user changes the state of an operation.
LEMMA UserKeepsStates == IInv /\ StoreUserStep => StatesKept({})
<1> SUFFICES ASSUME IInv, StoreUserStep PROVE StatesKept({})
  OBVIOUS
<1>1. CASE \E op \in Op : ReplicateReplica(op)
  <2>1. nextId \notin Ids
    BY DEF IInv, TypeOK
  <2>2. \A i \in Ids : statusById'[i].state = statusById[i].state
    BY <1>1, <2>1 DEF ReplicateReplica, Replicate, WriteOpIntoFSM, Put, IInv, TypeOK, Ids
  <2> QED
    BY <2>2, SameStatesKept
<1>2. CASE \E id \in Ids : UserCancels(id)
  BY <1>2, CancelKeepsStates DEF UserCancels
<1>3. CASE \/ \E id \in Ids : UserDeletes(id)
           \/ UserDeletesAll
           \/ \E c \in Collections : DeleteClass(c)
           \/ \E tenants \in SUBSET Shards : DeleteTenants(tenants)
  BY <1>3, TriggerDeletionKeepsStates
  DEF UserDeletes, UserDeletesAll, DeleteClass, DeleteTenants, DeleteReplication,
      DeleteAllReplications, DeleteReplicationsByCollection, DeleteReplicationsByTenants
<1>4. CASE UserForceDeletes
  BY <1>4, RemoveOpsKeepsStates
  DEF UserForceDeletes, ForceDeleteByUuid, ForceDeleteByCollection,
      ForceDeleteByCollectionAndShard, ForceDeleteByTargetNode, ForceDeleteAll
<1> QED
  BY <1>1, <1>2, <1>3, <1>4 DEF StoreUserStep

\* Of the commands of a worker two change a state, that of its own operation.
LEMMA UpdateKeepsOtherStates ==
  ASSUME IInv, NEW id, NEW state, NEW outcome, UpdateReplicateOpState(id, state, outcome)
  PROVE  StatesKept({id})
<1>1. CASE UpdateReplicationOpStatus(id, state)
  BY <1>1 DEF UpdateReplicationOpStatus, ChangeStatus, IInv, TypeOK, StatesKept, StateOf
<1>2. CASE UNCHANGED storeVars
  BY <1>2 DEF storeVars, fsmVars, StatesKept, StateOf
<1> QED
  BY <1>1, <1>2 DEF UpdateReplicateOpState

LEMMA UpdateSetsState ==
  ASSUME IInv, NEW id, NEW state, UpdateReplicateOpState(id, state, "ok")
  PROVE  id \in Ids /\ StateOf(id) # "CANCELLED" /\ id \in Ids' /\ statusById'[id].state = state
<1>1. id \in Ids /\ StateOf(id) # "CANCELLED" /\ UpdateReplicationOpStatus(id, state)
  BY DEF UpdateReplicateOpState
<1>2. id \in Ids' /\ statusById'[id] = ChangeState(statusById[id], state)
  BY <1>1 DEF UpdateReplicationOpStatus, ChangeStatus, IInv, TypeOK, Ids
<1>3. statusById[id] \in Status
  BY <1>1 DEF IInv, TypeOK
<1>4. ChangeState(statusById[id], state).state = state
  BY <1>3 DEF ChangeState, Status
<1> QED
  BY <1>1, <1>2, <1>4 DEF StateOf

LEMMA CompleteCancellationKeepsOtherStates ==
  ASSUME IInv, NEW id, CompleteCancellationOf(id)
  PROVE  StatesKept({id})
<1>1. CASE CancellationComplete(id)
  BY <1>1 DEF CancellationComplete, ChangeStatus, IInv, TypeOK, StatesKept, StateOf
<1>2. CASE UNCHANGED storeVars
  BY <1>2 DEF storeVars, fsmVars, StatesKept, StateOf
<1> QED
  BY <1>1, <1>2 DEF CompleteCancellationOf

LEMMA RegisterErrorKeepsStates ==
  ASSUME IInv, NEW id, ManagerRegisterError(id)
  PROVE  StatesKept({})
<1>1. CASE RegisterError(id)
  <2>1. \A i \in Ids : statusById'[i].state = statusById[i].state
    BY <1>1 DEF RegisterError, ChangeStatus, IInv, TypeOK, Status, Ids
  <2> QED
    BY <2>1, SameStatesKept
<1>2. CASE id \in Ids /\ CancelReplication(id)
  BY <1>2, CancelKeepsStates
<1>3. CASE UNCHANGED fsmVars
  BY <1>3, UnchangedKeepsStates
<1> QED
  BY <1>1, <1>2, <1>3 DEF ManagerRegisterError

LEMMA SchemaVersionKeepsStates ==
  ASSUME IInv, NEW id, NEW version, StoreSchemaVersion(id, version)
  PROVE  StatesKept({})
<1>1. \A i \in Ids : statusById'[i].state = statusById[i].state
  BY DEF StoreSchemaVersion, ChangeStatus, IInv, TypeOK, Status, Ids
<1> QED
  BY <1>1, SameStatesKept

LEMMA AddReplicaKeepsStates ==
  ASSUME IInv, NEW id, NEW op, NEW outcome, ReplicationAddReplicaToShard(id, op, outcome)
  PROVE  StatesKept({})
<1>1. CASE SetUnCancellable(id)
  <2>1. \A i \in Ids : statusById'[i].state = statusById[i].state
    BY <1>1 DEF SetUnCancellable, ChangeStatus, IInv, TypeOK, Status, Ids
  <2> QED
    BY <2>1, SameStatesKept
<1>2. CASE UNCHANGED storeVars
  BY <1>2, UnchangedKeepsStates DEF storeVars
<1> QED
  BY <1>1, <1>2 DEF ReplicationAddReplicaToShard

LEMMA DropReplicaKeepsStates ==
  ASSUME NEW s, NEW n, NEW outcome, DeleteReplicaFromShard(s, n, outcome)
  PROVE  StatesKept({})
  BY UnchangedKeepsStates DEF DeleteReplicaFromShard

LEMMA RemoveOpKeepsStates ==
  ASSUME IInv, NEW id, NEW outcome, RemoveReplicaOp(id, outcome)
  PROVE  StatesKept({}) /\ id \notin Ids'
<1>1. CASE id \in Ids /\ RemoveReplicationOp(id)
  <2>1. RemoveOps({id})
    BY <1>1 DEF RemoveReplicationOp
  <2>2. id \notin Ids'
    BY <2>1 DEF RemoveOps, Without, Ids
  <2> QED
    BY <2>1, <2>2, RemoveOpsKeepsStates
<1>2. CASE id \notin Ids /\ UNCHANGED storeVars
  BY <1>2, UnchangedKeepsStates DEF storeVars, fsmVars, Ids
<1> QED
  BY <1>1, <1>2 DEF RemoveReplicaOp

----------------------------------------------------------------------------
(* What the messages and the other workers know stays right *)

\* Known and WorkerKnows, of the same id and worker, in the next state.
KnownNext(n, id) == id < nextId' /\ (id \in Ids' => opsById'[id].target = n)
KnowsNext(n, w) ==
  /\ w.op.target = n
  /\ w.id < nextId'
  /\ w.status.state \in PcStates(w.pc)
  /\ w.id \in Ids' => w.op = opsById'[w.id]
  /\ w.id \in Ids' /\ w.pc \notin {"cancel", "leave"} => statusById'[w.id].state = w.status.state
  /\ w.pc = "update" /\ w.status.state = "CANCELLED" => w.id \notin Ids'

LEMMA KnownKept ==
  ASSUME Frame, NEW n, NEW id \in Nat, Known(n, id)
  PROVE  KnownNext(n, id)
<1>1. id < nextId'
  BY DEF Frame, IdsGrow, Known
<1>2. ASSUME id \in Ids' PROVE opsById'[id].target = n
  <2>1. id \in Ids
    BY <1>2 DEF Frame, IdsGrow, Known
  <2> QED
    BY <1>2, <2>1 DEF Frame, OpsKept, Known
<1> QED
  BY <1>1, <1>2 DEF KnownNext

LEMMA KnowsKept ==
  ASSUME Frame, NEW X, StatesKept(X), NEW n, NEW w \in Workers, w.id \in Ids => w.id \notin X,
         WorkerKnows(n, w)
  PROVE  KnowsNext(n, w)
<1>1. w.id \in Nat /\ w.id < nextId /\ w.id < nextId'
  BY DEF Frame, IdsGrow, WorkerKnows, Workers
<1>2. ASSUME w.id \in Ids' PROVE w.id \in Ids /\ opsById'[w.id] = opsById[w.id]
  <2>1. w.id \in Ids
    BY <1>1, <1>2 DEF Frame, IdsGrow
  <2> QED
    BY <1>2, <2>1 DEF Frame, OpsKept
<1>3. ASSUME w.id \in Ids' PROVE statusById'[w.id].state = StateOf(w.id)
  BY <1>2, <1>3 DEF StatesKept, StateOf
<1>4. w.op.target = n /\ w.status.state \in PcStates(w.pc)
  BY DEF WorkerKnows
<1>5. w.id \in Ids' => w.op = opsById'[w.id]
  BY <1>2 DEF WorkerKnows
<1>6. w.id \in Ids' /\ w.pc \notin {"cancel", "leave"} => statusById'[w.id].state = w.status.state
  BY <1>2, <1>3 DEF WorkerKnows
<1>7. w.pc = "update" /\ w.status.state = "CANCELLED" => w.id \notin Ids'
  BY <1>2 DEF WorkerKnows
<1> QED
  BY <1>1, <1>4, <1>5, <1>6, <1>7 DEF KnowsNext

LEMMA IdleIsNoWorker == Idle \notin Workers /\ Idle \notin Holdings
  BY DEF Idle, Workers, Holdings, WorkerPcs

LEMMA WorkersAreWorkers ==
  ASSUME ETypes, NEW n \in Engines, NEW t \in Busy(n)
  PROVE  t \in Tokens /\ workers[n][t] \in Workers
  BY DEF ETypes, Busy

\* A claimed operation of one node has no worker on another: the operation would
\* have two targets.
LEMMA OneWorkerAnywhere ==
  ASSUME EInv, NEW n \in Engines, NEW t \in Busy(n), workers[n][t].id \in Ids,
         NEW m \in Engines, NEW u \in Busy(m), workers[m][u].id = workers[n][t].id
  PROVE  m = n /\ u = t
<1>1. workers[n][t].op.target = n /\ workers[n][t].op = opsById[workers[n][t].id]
  BY DEF EInv, EWorkers, WorkerKnows
<1>2. workers[m][u].op.target = m /\ workers[m][u].op = opsById[workers[m][u].id]
  BY DEF EInv, EWorkers, WorkerKnows
<1>3. m = n
  BY <1>1, <1>2
<1>4. u = t
  BY <1>3 DEF EInv, EClaims, OneWorkerPerOp
<1> QED
  BY <1>3, <1>4

\* The ids in views, channels and main loops are still ids of the node.
LEMMA IdsKept ==
  ASSUME EInv, Frame, view' = view, queue' = queue,
         \A n \in Engines : main'[n] = main[n] \/ main'[n] = Idle
  PROVE  EIds'
<1>1. ASSUME NEW n \in Engines, NEW id \in DOMAIN view[n].ops PROVE KnownNext(n, id)
  BY KnownKept DEF EInv, ETypes, EIds
<1>2. ASSUME NEW n \in Engines, NEW k \in 1 .. Len(queue[n])
      PROVE  KnownNext(n, queue[n][k].id)
  <2>1. queue[n] \in Seq(Messages)
    BY DEF EInv, ETypes
  <2>2. queue[n][k] \in Messages
    BY <2>1
  <2>3. queue[n][k].id \in Nat
    BY <2>2 DEF Messages
  <2>4. Known(n, queue[n][k].id)
    BY DEF EInv, EIds
  <2> QED
    BY <2>3, <2>4, KnownKept
<1>3. ASSUME NEW n \in Engines, main'[n] # Idle PROVE KnownNext(n, main'[n].msg.id)
  <2>1. main'[n] = main[n] /\ main[n] # Idle
    BY <1>3
  <2>2. main[n].msg.id \in Nat
    BY <2>1 DEF EInv, ETypes, Holdings, Messages
  <2>3. Known(n, main[n].msg.id)
    BY <2>1 DEF EInv, EIds
  <2> QED
    BY <2>1, <2>2, <2>3, KnownKept
<1> QED
  BY <1>1, <1>2, <1>3 DEF EIds, Known, KnownNext

\* The workers other than worker t of node n go on knowing what they know.
LEMMA OthersKnow ==
  ASSUME EInv, Frame, NEW n \in Engines, NEW t \in Busy(n), StatesKept({workers[n][t].id}),
         NEW m \in Engines, NEW u \in Busy(m), m # n \/ u # t
  PROVE  KnowsNext(m, workers[m][u])
<1>1. workers[m][u] \in Workers
  BY WorkersAreWorkers DEF EInv
<1>2. WorkerKnows(m, workers[m][u])
  BY DEF EInv, EWorkers
<1>3. workers[m][u].id \in Ids => workers[m][u].id \notin {workers[n][t].id}
  BY OneWorkerAnywhere
<1> QED
  BY <1>1, <1>2, <1>3, KnowsKept

\* A worker makes a step of its own: w is what becomes of it.
LEMMA WorkerMoves ==
  ASSUME EInv, Frame, NEW n \in Engines, NEW t \in Busy(n), StatesKept({workers[n][t].id}),
         NEW w \in Workers, w.id = workers[n][t].id, KnowsNext(n, w),
         workers' = [workers EXCEPT ![n][t] = w],
         view' = view, queue' = queue, main' = main, inFlight' = inFlight,
         cancelled' \in [Engines -> SUBSET Nat], backoff' \in [Engines -> SUBSET Nat]
  PROVE  EInv'
<1>1. t \in Tokens /\ w # Idle
  BY IdleIsNoWorker DEF Busy
<1>2. ETypes /\ EClaims /\ OneWorkerPerOp
  BY DEF EInv, EClaims
<1>3. \A m \in Engines, u \in Tokens :
        workers'[m][u] = IF m = n /\ u = t THEN w ELSE workers[m][u]
  BY <1>1, <1>2 DEF ETypes
<1>4. \A m \in Engines : Busy(m)' = Busy(m)
  BY <1>1, <1>3 DEF Busy
<1>5. ETypes'
  <2>1. workers' \in [Engines -> [Tokens -> {Idle} \cup Workers]]
    BY <1>1, <1>2 DEF ETypes
  <2> QED
    BY <2>1, <1>2 DEF ETypes
<1>6. EIds'
  BY IdsKept
<1>7. EWorkers'
  <2> SUFFICES ASSUME NEW m \in Engines, NEW u \in Busy(m)
               PROVE  KnowsNext(m, workers'[m][u])
    BY <1>4 DEF EWorkers, KnowsNext, WorkerKnows, StateOf
  <2>1. CASE m = n /\ u = t
    BY <1>1, <1>3, <2>1
  <2>2. CASE m # n \/ u # t
    <3>1. u \in Tokens /\ workers'[m][u] = workers[m][u]
      BY <1>3, <2>2 DEF Busy
    <3> QED
      BY <2>2, <3>1, OthersKnow
  <2> QED
    BY <2>1, <2>2
<1>8. EClaims'
  <2>1. \A m \in Engines : \A u \in Busy(m) : workers'[m][u].id = workers[m][u].id
    BY <1>3 DEF Busy
  <2>2. \A m \in Engines : \A u \in Busy(m) : workers'[m][u].op.target = m
    BY <1>7, <1>4 DEF EWorkers, WorkerKnows
  <2> QED
    BY <1>2, <1>4, <2>1, <2>2 DEF EClaims, OneWorkerPerOp
<1> QED
  BY <1>5, <1>6, <1>7, <1>8 DEF EInv, Frame

\* A worker returns and gives up its token and its claim.
LEMMA WorkerExits ==
  ASSUME EInv, Frame, NEW n \in Engines, NEW t \in Busy(n), StatesKept({workers[n][t].id}),
         workers' = [workers EXCEPT ![n][t] = Idle],
         inFlight' = [inFlight EXCEPT ![n] = @ \ {workers[n][t].id}],
         view' = view, queue' = queue, main' = main, cancelled' = cancelled,
         backoff' \in [Engines -> SUBSET Nat]
  PROVE  EInv'
<1>1. t \in Tokens
  BY DEF Busy
<1>2. ETypes /\ EClaims /\ OneWorkerPerOp
  BY DEF EInv, EClaims
<1>3. \A m \in Engines, u \in Tokens :
        workers'[m][u] = IF m = n /\ u = t THEN Idle ELSE workers[m][u]
  BY <1>1, <1>2 DEF ETypes
<1>4. \A m \in Engines : Busy(m)' = IF m = n THEN Busy(n) \ {t} ELSE Busy(m)
  BY <1>1, <1>3 DEF Busy
<1>5. ETypes'
  <2>1. workers' \in [Engines -> [Tokens -> {Idle} \cup Workers]]
    BY <1>1, <1>2 DEF ETypes
  <2>2. inFlight' \in [Engines -> SUBSET Nat]
    BY <1>2 DEF ETypes
  <2> QED
    BY <2>1, <2>2, <1>2 DEF ETypes
<1>6. EIds'
  BY IdsKept
<1>7. \A m \in Engines, u \in Tokens : workers'[m][u] # Idle =>
        u \in Busy(m) /\ (m # n \/ u # t) /\ workers'[m][u] = workers[m][u]
  BY <1>3, <1>4 DEF Busy
<1>8. EWorkers'
  <2> SUFFICES ASSUME NEW m \in Engines, NEW u \in Tokens, workers'[m][u] # Idle
               PROVE  KnowsNext(m, workers'[m][u])
    BY DEF EWorkers, KnowsNext, WorkerKnows, StateOf, Busy
  <2> QED
    BY <1>7, OthersKnow
<1>9. EClaims'
  <2>1. \A u \in Busy(n) : u # t => workers[n][u].id # workers[n][t].id
    BY <1>2 DEF OneWorkerPerOp
  <2>2. main[n].pc = "check" => main[n].msg.id # workers[n][t].id
    BY <1>2 DEF OneWorkerPerOp
  <2>3. inFlight'[n] = inFlight[n] \ {workers[n][t].id}
        /\ \A m \in Engines : m # n => inFlight'[m] = inFlight[m]
    BY <1>2 DEF ETypes
  <2>4. OneWorkerPerOp'
    BY <1>2, <1>7, <2>1, <2>3 DEF OneWorkerPerOp, Busy
  <2>5. \A m \in Engines : main[m].pc = "check" => main[m].msg.id \in inFlight'[m]
    BY <1>2, <2>2, <2>3 DEF EClaims
  <2>6. \A m \in Engines : main[m].pc = "check" => Busy(m)' # Tokens
    BY <1>1, <1>2, <1>4 DEF EClaims
  <2> QED
    BY <2>4, <2>5, <2>6 DEF EClaims
<1> QED
  BY <1>5, <1>6, <1>8, <1>9 DEF EInv, Frame

\* A worker goes on to pc, or to cancelOp: w is the worker but for its pc.
LEMMA AdvanceKeepsEInv ==
  ASSUME EInv, Frame, NEW n \in Engines, NEW t \in Busy(n), StatesKept({workers[n][t].id}),
         NEW w \in Workers, w.id = workers[n][t].id, NEW pc \in WorkerPcs,
         Advance(n, t, w, pc), KnowsNext(n, [w EXCEPT !.pc = IF Stopped(n, t) THEN "cancel" ELSE pc])
  PROVE  EInv'
<1> DEFINE v == [w EXCEPT !.pc = IF Stopped(n, t) THEN "cancel" ELSE pc]
<1>1. v \in Workers /\ v.id = w.id
  BY DEF Workers, WorkerPcs
<1>2. w.id \in Nat
  BY DEF Workers
<1>3. backoff' \in [Engines -> SUBSET Nat]
  BY <1>2 DEF Advance, EInv, ETypes
<1>4. cancelled' \in [Engines -> SUBSET Nat]
  BY DEF Advance, EInv, ETypes
<1>5. /\ workers' = [workers EXCEPT ![n][t] = v]
      /\ view' = view /\ queue' = queue /\ main' = main /\ inFlight' = inFlight
  BY DEF Advance
<1> HIDE DEF v
<1>6. KnowsNext(n, v)
  BY DEF v
<1> QED
  BY <1>1, <1>3, <1>4, <1>5, <1>6, WorkerMoves

\* A worker that is stopped knows enough whatever became of its operation.
LEMMA StoppedKnows ==
  ASSUME EInv, Frame, NEW n \in Engines, NEW t \in Busy(n), NEW w \in Workers,
         w.id = workers[n][t].id, w.op = workers[n][t].op
  PROVE  KnowsNext(n, [w EXCEPT !.pc = "cancel"]) /\ KnowsNext(n, [w EXCEPT !.pc = "leave"])
<1> DEFINE u == workers[n][t]
           none == [u EXCEPT !.pc = "cancel"]
<1>1. u \in Workers /\ WorkerKnows(n, u)
  BY WorkersAreWorkers DEF EInv, EWorkers
<1>2. u.id \in Nat /\ u.id < nextId /\ u.op.target = n
  BY <1>1 DEF Workers, WorkerKnows
<1>3. u.id < nextId'
  BY <1>2 DEF Frame, IdsGrow
<1>4. ASSUME u.id \in Ids' PROVE u.op = opsById'[u.id]
  <2>1. u.id \in Ids
    BY <1>2, <1>4 DEF Frame, IdsGrow
  <2> QED
    BY <1>1, <1>4, <2>1 DEF WorkerKnows, Frame, OpsKept
<1>5. w.status.state \in States
  BY DEF Workers, Briefs
<1> HIDE DEF u
<1>6. ASSUME NEW pc \in {"cancel", "leave"} PROVE KnowsNext(n, [w EXCEPT !.pc = pc])
  <2> DEFINE v == [w EXCEPT !.pc = pc]
  <2>1. v.pc = pc /\ v.id = u.id /\ v.op = u.op /\ v.status = w.status
    BY DEF Workers, u
  <2>2. v.status.state \in PcStates(v.pc)
    BY <1>5, <2>1 DEF PcStates
  <2> HIDE DEF v
  <2>3. KnowsNext(n, v)
    BY <1>2, <1>3, <1>4, <2>1, <2>2 DEF KnowsNext
  <2> QED
    BY <2>3 DEF v
<1> QED
  BY <1>6

\* A worker goes on to pc with the state it has, and no state has changed.
LEMMA ProceedKeepsEInv ==
  ASSUME EInv, Frame, NEW n \in Engines, NEW t \in Busy(n), StatesKept({}),
         NEW w \in Workers, w.id = workers[n][t].id, w.op = workers[n][t].op,
         w.status = workers[n][t].status, workers[n][t].pc \notin {"cancel", "leave"},
         NEW pc \in WorkerPcs, Advance(n, t, w, pc), w.status.state \in PcStates(pc),
         pc = "update" /\ w.status.state = "CANCELLED" => w.id \notin Ids'
  PROVE  EInv'
<1> DEFINE u == workers[n][t]
           v == [w EXCEPT !.pc = pc]
<1>1. u \in Workers /\ WorkerKnows(n, u)
  BY WorkersAreWorkers DEF EInv, EWorkers
<1>2. KnowsNext(n, u)
  BY <1>1, KnowsKept
<1>3. v.pc = pc /\ v.id = u.id /\ v.op = u.op /\ v.status = u.status
  BY DEF Workers
<1>4. u.pc \notin {"cancel", "leave"} /\ u.status.state \in PcStates(pc)
      /\ (pc = "update" /\ u.status.state = "CANCELLED" => u.id \notin Ids')
  OBVIOUS
<1> HIDE DEF u, v
<1>5. KnowsNext(n, v)
  BY <1>2, <1>3, <1>4 DEF KnowsNext
<1>6. KnowsNext(n, [w EXCEPT !.pc = IF Stopped(n, t) THEN "cancel" ELSE pc])
  <2>1. CASE Stopped(n, t)
    BY <2>1, StoppedKnows
  <2>2. CASE ~Stopped(n, t)
    BY <1>5, <2>2 DEF v
  <2> QED
    BY <2>1, <2>2
<1>7. StatesKept({workers[n][t].id})
  BY DEF StatesKept
<1> QED
  BY <1>6, <1>7, AdvanceKeepsEInv

LEMMA ExitKeepsEInv ==
  ASSUME EInv, Frame, NEW n \in Engines, NEW t \in Busy(n), StatesKept({workers[n][t].id}),
         NEW newBackoff \in SUBSET Nat, Exit(n, t, newBackoff)
  PROVE  EInv'
<1>1. backoff' \in [Engines -> SUBSET Nat]
  BY DEF Exit, EInv, ETypes
<1> QED
  BY <1>1, WorkerExits DEF Exit, Worker

LEMMA FailKeepsEInv ==
  ASSUME EInv, Frame, NEW n \in Engines, NEW t \in Busy(n), StatesKept({workers[n][t].id}),
         Fail(n, t) \/ Succeed(n, t)
  PROVE  EInv'
<1>1. backoff[n] \in SUBSET Nat /\ workers[n][t].id \in Nat
  BY WorkersAreWorkers DEF EInv, ETypes, Workers
<1> QED
  BY <1>1, ExitKeepsEInv DEF Fail, Succeed, Worker

----------------------------------------------------------------------------
(* The steps of a worker *)

LEMMA AtIsBusy ==
  ASSUME EInv, NEW n \in Engines, NEW t \in Tokens, NEW pc, pc # "idle", At(n, t, pc)
  PROVE  /\ t \in Busy(n) /\ workers[n][t].pc = pc
         /\ workers[n][t] \in Workers /\ WorkerKnows(n, workers[n][t])
<1>1. t \in Busy(n) /\ workers[n][t].pc = pc
  BY DEF At, Worker, Busy, Idle
<1> QED
  BY <1>1, WorkersAreWorkers DEF EInv, EWorkers

LEMMA UnchangedFrame ==
  ASSUME EInv, UNCHANGED storeVars
  PROVE  Frame /\ StatesKept({}) /\ (\A id : id \notin Ids => id \notin Ids')
<1>1. UNCHANGED fsmVars
  BY DEF storeVars
<1> QED
  BY <1>1, StoreStepFrame, UnchangedKeepsStates DEF EInv, fsmVars, Ids

LEMMA StartKeepsEInv ==
  ASSUME EInv, NEW n \in Engines, NEW t \in Tokens, Start(n, t)
  PROVE  UNCHANGED storeVars /\ EInv'
<1> DEFINE w == workers[n][t]
<1>1. /\ t \in Busy(n) /\ w.pc = "start" /\ w \in Workers /\ UNCHANGED storeVars
  BY AtIsBusy DEF Start
<1>2. Frame /\ StatesKept({})
  BY <1>1, UnchangedFrame
<1>3. w.status.state \in PcStates("handle") /\ w.status.state \in PcStates("cancel")
  BY <1>1 DEF PcStates, Workers, Briefs
<1> DEFINE pc == IF Stopped(n, t) THEN "cancel" ELSE "handle"
           v == [w EXCEPT !.pc = pc]
<1>4. v \in Workers /\ v.id = w.id /\ v.pc = pc /\ v.op = w.op /\ v.status = w.status
  BY <1>1 DEF Workers, WorkerPcs
<1>5. KnowsNext(n, w)
  BY <1>1, <1>2, AtIsBusy, KnowsKept DEF Start
<1>6. KnowsNext(n, v)
  <2>1. v.pc \in {"cancel", "handle"} /\ w.pc = "start"
    BY <1>1, <1>4
  <2> HIDE DEF v, w, pc
  <2>2. v.status.state \in PcStates(v.pc)
    BY <1>3, <1>4, <2>1
  <2> QED
    BY <1>4, <1>5, <2>1, <2>2 DEF KnowsNext
<1>7. workers' = [workers EXCEPT ![n][t] = v]
  BY <1>1 DEF Start, Worker, EInv, ETypes, Busy
<1>8. StatesKept({w.id})
  BY <1>2 DEF StatesKept
<1>9. /\ view' = view /\ queue' = queue /\ main' = main /\ inFlight' = inFlight
       /\ cancelled' \in [Engines -> SUBSET Nat] /\ backoff' \in [Engines -> SUBSET Nat]
  BY DEF Start, EInv, ETypes
<1> HIDE DEF v
<1> QED
  BY <1>1, <1>2, <1>4, <1>6, <1>7, <1>8, <1>9, WorkerMoves

\* The first step in a handler is one of the handler of the state.
LEMMA FirstStepFits ==
  ASSUME NEW w \in Workers, w.status.state # "READY", NEW here
  PROVE  /\ FirstStep(w, here) \in WorkerPcs
         /\ w.status.state \in PcStates(FirstStep(w, here))
         /\ FirstStep(w, here) = "update" => w.status.state # "CANCELLED"
<1>1. w.status.state \in States \ {"READY"}
  BY DEF Workers, Briefs
<1>2. CASE w.status.state = "REGISTERED"
  BY <1>2 DEF FirstStep, PcStates, WorkerPcs, States
<1>3. CASE w.status.state = "HYDRATING"
  BY <1>3 DEF FirstStep, PcStates, WorkerPcs
<1>4. CASE w.status.state = "FINALIZING"
  BY <1>4 DEF FirstStep, PcStates, WorkerPcs, States
<1>5. CASE w.status.state = "DEHYDRATING"
  BY <1>5 DEF FirstStep, PcStates, WorkerPcs, States
<1>6. CASE w.status.state = "CANCELLED"
  BY <1>6 DEF FirstStep, PcStates, WorkerPcs, States
<1> QED
  BY <1>1, <1>2, <1>3, <1>4, <1>5, <1>6 DEF States

LEMMA HandleKeepsEInv ==
  ASSUME EInv, NEW n \in Engines, NEW t \in Tokens, Handle(n, t)
  PROVE  UNCHANGED storeVars /\ EInv'
<1> DEFINE w == workers[n][t]
           here == view[n].replicas[w.op.shard]
           v == [w EXCEPT !.skip = AlreadyDone(w, here)]
           pc == FirstStep(w, here)
<1>1. /\ t \in Busy(n) /\ w.pc = "handle" /\ w \in Workers /\ UNCHANGED storeVars
      /\ w.status.state # "READY" /\ Advance(n, t, v, pc)
  BY AtIsBusy DEF Handle, Worker
<1>2. Frame /\ StatesKept({})
  BY <1>1, UnchangedFrame
<1>3. pc \in WorkerPcs /\ w.status.state \in PcStates(pc)
      /\ (pc = "update" => w.status.state # "CANCELLED")
  BY <1>1, FirstStepFits
<1>4. AlreadyDone(w, here) \in BOOLEAN
  BY DEF AlreadyDone
<1>5. v \in Workers /\ v.id = w.id /\ v.op = w.op /\ v.status = w.status
  BY <1>1, <1>4 DEF Workers
<1>6. w.pc \notin {"cancel", "leave"}
  BY <1>1
<1> HIDE DEF v, pc
<1> QED
  BY <1>1, <1>2, <1>3, <1>5, <1>6, ProceedKeepsEInv

LEMMA HandleReadyKeepsEInv ==
  ASSUME EInv, NEW n \in Engines, NEW t \in Tokens, HandleReady(n, t)
  PROVE  UNCHANGED storeVars /\ EInv'
<1>1. t \in Busy(n) /\ UNCHANGED storeVars /\ Succeed(n, t)
  BY AtIsBusy DEF HandleReady
<1>2. Frame /\ StatesKept({workers[n][t].id})
  BY <1>1, UnchangedFrame DEF StatesKept
<1> QED
  BY <1>1, <1>2, FailKeepsEInv

\* A step of the store after which the worker goes on within its state.
LEMMA StepProceeds ==
  ASSUME EInv, [StoreNext]_storeVars, StatesKept({}), NEW n \in Engines, NEW t \in Tokens,
         NEW from, from \notin {"idle", "cancel", "leave"}, At(n, t, from),
         NEW pc \in WorkerPcs, Proceed(n, t, pc), Worker(n, t).status.state \in PcStates(pc),
         pc = "update" /\ Worker(n, t).status.state = "CANCELLED" => Worker(n, t).id \notin Ids'
  PROVE  EInv'
<1>1. t \in Busy(n) /\ workers[n][t] \in Workers /\ workers[n][t].pc = from
  BY AtIsBusy
<1>2. Frame
  BY StoreStepFrame DEF EInv
<1> QED
  BY <1>1, <1>2, ProceedKeepsEInv DEF Proceed, Worker

\* A step of the store after which the worker handles an error.
LEMMA StepFails ==
  ASSUME EInv, [StoreNext]_storeVars, StatesKept({}), NEW n \in Engines, NEW t \in Tokens,
         NEW from, from \notin {"idle", "cancel", "leave"}, At(n, t, from),
         Proceed(n, t, "error")
  PROVE  EInv'
<1>1. workers[n][t] \in Workers
  BY AtIsBusy
<1>2. Worker(n, t).status.state \in PcStates("error") /\ "error" \in WorkerPcs
  BY <1>1 DEF Worker, Workers, Briefs, PcStates, WorkerPcs
<1> QED
  BY <1>2, StepProceeds

\* The state of a worker at a pc.
LEMMA StateAt ==
  ASSUME EInv, NEW n \in Engines, NEW t \in Tokens, NEW pc, pc # "idle", At(n, t, pc)
  PROVE  Worker(n, t).status.state \in PcStates(pc)
  BY AtIsBusy DEF Worker, WorkerKnows

LEMMA ActivateKeepsEInv ==
  ASSUME EInv, NEW n \in Engines, NEW t \in Tokens, Activate(n, t)
  PROVE  [StoreNext]_storeVars /\ EInv'
<1>1. At(n, t, "activate") /\ Worker(n, t).status.state = "HYDRATING"
  BY StateAt DEF Activate, PcStates
<1>2. ASSUME NEW v \in SchemaVersions, StoreSchemaVersion(Worker(n, t).id, v), UNCHANGED replicas,
             Proceed(n, t, "copy") \/ Proceed(n, t, "error")
      PROVE  [StoreNext]_storeVars /\ EInv'
  <2>1. Worker(n, t).id \in Ids
    BY <1>2 DEF StoreSchemaVersion
  <2>2. StoreNext
    BY <1>2, <2>1 DEF StoreNext, StoreWorkerStep
  <2>3. StatesKept({})
    BY <1>2, SchemaVersionKeepsStates DEF EInv, StoreInv
  <2>4. "copy" \in WorkerPcs /\ Worker(n, t).status.state \in PcStates("copy")
    BY <1>1 DEF WorkerPcs, PcStates
  <2> QED
    BY <1>1, <1>2, <2>2, <2>3, <2>4, StepProceeds, StepFails
<1>3. ASSUME UNCHANGED storeVars, Proceed(n, t, "error")
      PROVE  [StoreNext]_storeVars /\ EInv'
  BY <1>1, <1>3, UnchangedFrame, StepFails
<1> QED
  BY <1>2, <1>3 DEF Activate

LEMMA CopyKeepsEInv ==
  ASSUME EInv, NEW n \in Engines, NEW t \in Tokens, CopyReplicaFiles(n, t)
  PROVE  UNCHANGED storeVars /\ EInv'
<1>1. At(n, t, "copy") /\ Worker(n, t).status.state = "HYDRATING"
      /\ UNCHANGED storeVars /\ Proceed(n, t, "update")
  BY StateAt DEF CopyReplicaFiles, PcStates
<1>2. "update" \in WorkerPcs /\ Worker(n, t).status.state \in PcStates("update")
  BY <1>1 DEF WorkerPcs, PcStates, States
<1> QED
  BY <1>1, <1>2, UnchangedFrame, StepProceeds

LEMMA WaitKeepsEInv ==
  ASSUME EInv, NEW n \in Engines, NEW t \in Tokens, WaitForAsyncReplication(n, t)
  PROVE  UNCHANGED storeVars /\ EInv'
<1> DEFINE w == Worker(n, t)
           pc == AfterWait(w)
<1>1. At(n, t, "wait") /\ w.status.state \in {"FINALIZING", "DEHYDRATING"}
      /\ UNCHANGED storeVars /\ Proceed(n, t, pc)
  BY StateAt DEF WaitForAsyncReplication, PcStates
<1>2. pc \in WorkerPcs /\ w.status.state \in PcStates(pc)
      /\ (pc = "update" => w.status.state # "CANCELLED")
  BY <1>1 DEF AfterWait, WorkerPcs, PcStates, States
<1> HIDE DEF pc
<1> QED
  BY <1>1, <1>2, UnchangedFrame, StepProceeds

LEMMA ExternalFailsKeepsEInv ==
  ASSUME EInv, NEW n \in Engines, NEW t \in Tokens, ExternalFails(n, t)
  PROVE  UNCHANGED storeVars /\ EInv'
  BY UnchangedFrame, StepFails DEF ExternalFails

LEMMA LostCallKeepsEInv ==
  ASSUME EInv, NEW n \in Engines, NEW t \in Tokens, LostCall(n, t),
         NEW from, from \notin {"idle", "cancel", "leave"}, At(n, t, from)
  PROVE  [StoreNext]_storeVars /\ EInv'
  BY UnchangedFrame, StepFails DEF LostCall

LEMMA AddReplicaKeepsEInv ==
  ASSUME EInv, NEW n \in Engines, NEW t \in Tokens, AddReplica(n, t)
  PROVE  [StoreNext]_storeVars /\ EInv'
<1> DEFINE w == Worker(n, t)
           next == IF w.op.type = "COPY" THEN "sync" ELSE "update"
<1>1. At(n, t, "add") /\ w.status.state = "FINALIZING"
  BY StateAt DEF AddReplica, PcStates
<1>2. CASE LostCall(n, t)
  BY <1>1, <1>2, LostCallKeepsEInv
<1>3. ASSUME NEW outcome \in {"ok", "exists", "error"},
             ReplicationAddReplicaToShard(w.id, w.op, outcome),
             Proceed(n, t, next) \/ Proceed(n, t, "error")
      PROVE  [StoreNext]_storeVars /\ EInv'
  <2>1. w.id \in Ids => w.op = opsById[w.id]
    BY <1>1, AtIsBusy DEF Worker, WorkerKnows
  <2>2. ASSUME w.id \in Ids PROVE [StoreNext]_storeVars
    BY <1>3, <2>1, <2>2 DEF StoreNext, StoreWorkerStep
  <2>3. ASSUME w.id \notin Ids PROVE [StoreNext]_storeVars
    BY <1>3, <2>3 DEF ReplicationAddReplicaToShard
  <2>4. StatesKept({})
    BY <1>3, AddReplicaKeepsStates DEF EInv, StoreInv
  <2>5. next \in WorkerPcs /\ w.status.state \in PcStates(next) /\ w.status.state # "CANCELLED"
    BY <1>1 DEF WorkerPcs, PcStates, States
  <2> HIDE DEF next, w
  <2>6. [StoreNext]_storeVars
    BY <2>2, <2>3
  <2>7. Proceed(n, t, next) => EInv'
    BY <1>1, <2>4, <2>5, <2>6, StepProceeds DEF w
  <2>8. Proceed(n, t, "error") => EInv'
    BY <1>1, <2>4, <2>6, StepFails
  <2> QED
    BY <1>3, <2>6, <2>7, <2>8
<1> QED
  BY <1>2, <1>3 DEF AddReplica

LEMMA DropReplicaKeepsEInv ==
  ASSUME EInv, NEW n \in Engines, NEW t \in Tokens, DropReplica(n, t)
  PROVE  [StoreNext]_storeVars /\ EInv'
<1> DEFINE w == Worker(n, t)
<1>1. At(n, t, "drop") /\ w.status.state = "DEHYDRATING" /\ w.op \in Op
  BY StateAt, AtIsBusy DEF DropReplica, PcStates, Worker, Workers
<1>2. CASE LostCall(n, t)
  BY <1>1, <1>2, LostCallKeepsEInv
<1>3. ASSUME NEW outcome \in {"ok", "error"},
             DeleteReplicaFromShard(w.op.shard, w.op.source, outcome),
             Proceed(n, t, "sync") \/ Proceed(n, t, "error")
      PROVE  [StoreNext]_storeVars /\ EInv'
  <2>1. w.op.shard \in Shards /\ w.op.source \in Nodes
    BY <1>1 DEF Op
  <2>2. ASSUME outcome = "ok" PROVE [StoreNext]_storeVars
    BY <1>3, <2>1, <2>2 DEF StoreNext, StoreWorkerStep
  <2>3. ASSUME outcome = "error" PROVE [StoreNext]_storeVars
    BY <1>3, <2>3 DEF DeleteReplicaFromShard, storeVars
  <2>4. StatesKept({})
    BY <1>3, DropReplicaKeepsStates
  <2>5. "sync" \in WorkerPcs /\ w.status.state \in PcStates("sync")
    BY <1>1 DEF WorkerPcs, PcStates
  <2> HIDE DEF w
  <2>6. [StoreNext]_storeVars
    BY <1>3, <2>2, <2>3
  <2>7. Proceed(n, t, "sync") => EInv'
    BY <1>1, <2>4, <2>5, <2>6, StepProceeds DEF w
  <2>8. Proceed(n, t, "error") => EInv'
    BY <1>1, <2>4, <2>6, StepFails
  <2> QED
    BY <1>3, <2>6, <2>7, <2>8
<1> QED
  BY <1>2, <1>3 DEF DropReplica

LEMMA SyncKeepsEInv ==
  ASSUME EInv, NEW n \in Engines, NEW t \in Tokens, Sync(n, t)
  PROVE  [StoreNext]_storeVars /\ EInv'
<1>1. At(n, t, "sync") /\ Worker(n, t).status.state \in {"FINALIZING", "DEHYDRATING"}
  BY StateAt DEF Sync, PcStates
<1>2. CASE LostCall(n, t)
  BY <1>1, <1>2, LostCallKeepsEInv
<1>3. CASE UNCHANGED storeVars /\ Proceed(n, t, "update")
  <2>1. "update" \in WorkerPcs /\ Worker(n, t).status.state \in PcStates("update")
    BY <1>1 DEF WorkerPcs, PcStates, States
  <2> QED
    BY <1>1, <1>3, <2>1, UnchangedFrame, StepProceeds
<1> QED
  BY <1>2, <1>3 DEF Sync

\* A worker that asks for a state has the state of the leader, unless the
\* operation is gone; then the leader refuses.
LEMMA UpdateStep ==
  ASSUME EInv, NEW n \in Engines, NEW t \in Tokens, At(n, t, "update"),
         UpdateReplicateOpState(Worker(n, t).id, NextState(Worker(n, t)), "ok")
  PROVE  /\ StoreNext
         /\ NextState(Worker(n, t)) \in UpdateStates
<1> DEFINE w == Worker(n, t)
<1>1. /\ w.id \in Ids
      /\ UpdateReplicateOpState(w.id, NextState(w), "ok")
  BY DEF UpdateReplicateOpState
<1>2. /\ w.status.state \in States \ {"READY"}
      /\ w.status.state = "CANCELLED" => w.id \notin Ids
  BY StateAt, AtIsBusy DEF PcStates, Worker, WorkerKnows
<1>3. w.status.state \in {"REGISTERED", "HYDRATING", "FINALIZING", "DEHYDRATING"}
  BY <1>1, <1>2 DEF States
<1>4. NextState(w) \in UpdateStates
  BY <1>3 DEF NextState, UpdateStates
<1> HIDE DEF w
<1>5. StoreNext
  BY <1>1, <1>4 DEF StoreNext, StoreWorkerStep
<1> QED
  BY <1>4, <1>5 DEF w

LEMMA UpdateStatusKeepsEInv ==
  ASSUME EInv, NEW n \in Engines, NEW t \in Tokens, UpdateStatus(n, t)
  PROVE  [StoreNext]_storeVars /\ EInv'
<1> DEFINE w == Worker(n, t)
           next == NextState(w)
           v == [w EXCEPT !.status.state = next]
<1>1. At(n, t, "update") /\ UpdateReplicateOpState(w.id, next, "ok")
  BY DEF UpdateStatus
<1>2. StoreNext /\ next \in UpdateStates
  BY <1>1, UpdateStep
<1>3. Frame /\ StatesKept({w.id})
  BY <1>1, <1>2, StoreStepFrame, UpdateKeepsOtherStates DEF EInv, StoreInv
<1>4. t \in Busy(n) /\ w \in Workers /\ WorkerKnows(n, w) /\ w = workers[n][t]
  BY <1>1, AtIsBusy DEF Worker
<1>5. w.id \in Ids' /\ statusById'[w.id].state = next
  BY <1>1, UpdateSetsState DEF EInv, StoreInv
<1>6. CASE Succeed(n, t)
  BY <1>2, <1>3, <1>4, <1>6, FailKeepsEInv
<1>7. CASE Advance(n, t, v, "handle")
  <2>1. next \in States
    BY <1>2 DEF UpdateStates, States
  <2>2. v \in Workers /\ v.id = w.id /\ v.op = w.op /\ v.status.state = next
    BY <1>4, <2>1 DEF Workers, Briefs
  <2> DEFINE u == [v EXCEPT !.pc = "handle"]
  <2>3. u.pc = "handle" /\ u.id = w.id /\ u.op = w.op /\ u.status.state = next
    BY <2>2 DEF Workers
  <2>4. w.id \in Nat /\ w.id \in Ids
    BY <1>1, <1>4 DEF Workers, UpdateReplicateOpState
  <2> HIDE DEF w, next, v, u
  <2>5. KnowsNext(n, u)
    <3>1. w.op.target = n /\ w.id < nextId' /\ w.op = opsById'[w.id]
      BY <1>3, <1>4, <1>5, <2>4 DEF WorkerKnows, Frame, IdsGrow, OpsKept
    <3>2. u.status.state \in PcStates(u.pc)
      BY <2>1, <2>3 DEF PcStates
    <3> QED
      BY <1>5, <3>1, <3>2, <2>3 DEF KnowsNext
  <2>6. KnowsNext(n, [v EXCEPT !.pc = IF Stopped(n, t) THEN "cancel" ELSE "handle"])
    <3>1. CASE Stopped(n, t)
      <4>1. KnowsNext(n, [v EXCEPT !.pc = "cancel"])
        BY <1>3, <1>4, <2>2, StoppedKnows
      <4> QED
        BY <3>1, <4>1
    <3>2. CASE ~Stopped(n, t)
      BY <2>5, <3>2 DEF u
    <3> QED
      BY <3>1, <3>2
  <2>7. "handle" \in WorkerPcs /\ StatesKept({workers[n][t].id}) /\ v.id = workers[n][t].id
    BY <1>3, <1>4, <2>2 DEF WorkerPcs
  <2> QED
    BY <1>2, <1>3, <1>4, <1>7, <2>2, <2>6, <2>7, AdvanceKeepsEInv
<1> QED
  BY <1>6, <1>7 DEF UpdateStatus

LEMMA UpdateStatusFailsKeepsEInv ==
  ASSUME EInv, NEW n \in Engines, NEW t \in Tokens, UpdateStatusFails(n, t)
  PROVE  [StoreNext]_storeVars /\ EInv'
<1> DEFINE w == Worker(n, t)
<1>1. At(n, t, "update")
  BY DEF UpdateStatusFails
<1>2. t \in Busy(n) /\ w \in Workers /\ w = workers[n][t]
  BY <1>1, AtIsBusy DEF Worker
<1>3. [StoreNext]_storeVars /\ StatesKept({w.id})
  <2>1. ASSUME UpdateReplicateOpState(w.id, NextState(w), "error")
        PROVE  UNCHANGED storeVars
    BY <2>1 DEF UpdateReplicateOpState
  <2>2. CASE UNCHANGED storeVars
    BY <2>2, UnchangedFrame DEF StatesKept
  <2>3. CASE UpdateReplicateOpState(w.id, NextState(w), "ok")
    BY <1>1, <2>3, UpdateStep, UpdateKeepsOtherStates DEF EInv, StoreInv
  <2> QED
    BY <2>1, <2>2, <2>3 DEF UpdateStatusFails
<1>4. Frame
  BY <1>3, StoreStepFrame DEF EInv
<1>5. CASE Fail(n, t)
  BY <1>2, <1>3, <1>4, <1>5, FailKeepsEInv
<1>6. CASE Stopped(n, t) /\ Proceed(n, t, "cancel")
  <2>1. KnowsNext(n, [w EXCEPT !.pc = "cancel"]) /\ "cancel" \in WorkerPcs
    BY <1>2, <1>4, StoppedKnows DEF WorkerPcs
  <2>2. Advance(n, t, w, "cancel")
    BY <1>6 DEF Proceed
  <2> HIDE DEF w
  <2>3. KnowsNext(n, [w EXCEPT !.pc = IF Stopped(n, t) THEN "cancel" ELSE "cancel"])
    BY <2>1
  <2> QED
    BY <1>2, <1>3, <1>4, <2>1, <2>2, <2>3, AdvanceKeepsEInv
<1> QED
  BY <1>5, <1>6 DEF UpdateStatusFails

LEMMA RemoveKeepsEInv ==
  ASSUME EInv, NEW n \in Engines, NEW t \in Tokens, Remove(n, t)
  PROVE  [StoreNext]_storeVars /\ EInv'
<1> DEFINE w == Worker(n, t)
<1>1. At(n, t, "remove") /\ w.status.state = "CANCELLED"
  BY StateAt DEF Remove, PcStates
<1>2. CASE LostCall(n, t)
  BY <1>1, <1>2, LostCallKeepsEInv
<1>3. ASSUME NEW outcome \in {"ok", "error"}, RemoveReplicaOp(w.id, outcome),
             Proceed(n, t, "update") \/ Proceed(n, t, "error")
      PROVE  [StoreNext]_storeVars /\ EInv'
  <2>1. [StoreNext]_storeVars
    BY <1>3 DEF StoreNext, StoreWorkerStep, RemoveReplicaOp
  <2>2. StatesKept({}) /\ w.id \notin Ids'
    BY <1>3, RemoveOpKeepsStates DEF EInv, StoreInv
  <2>3. "update" \in WorkerPcs /\ w.status.state \in PcStates("update")
    BY <1>1 DEF WorkerPcs, PcStates, States
  <2> HIDE DEF w
  <2>4. Proceed(n, t, "update") => EInv'
    BY <1>1, <2>1, <2>2, <2>3, StepProceeds DEF w
  <2>5. Proceed(n, t, "error") => EInv'
    BY <1>1, <2>1, <2>2, StepFails
  <2> QED
    BY <1>3, <2>1, <2>4, <2>5
<1> QED
  BY <1>2, <1>3 DEF Remove

LEMMA RegisterErrorStep ==
  ASSUME NEW id, ManagerRegisterError(id)
  PROVE  [StoreNext]_storeVars
<1>1. CASE id \in Ids
  BY <1>1 DEF StoreNext, StoreWorkerStep
<1>2. CASE id \notin Ids
  BY <1>2 DEF ManagerRegisterError, RegisterError, storeVars
<1> QED
  BY <1>1, <1>2

LEMMA RegisterErrorAndFailKeepsEInv ==
  ASSUME EInv, NEW n \in Engines, NEW t \in Tokens, RegisterErrorAndFail(n, t)
  PROVE  [StoreNext]_storeVars /\ EInv'
<1> DEFINE w == Worker(n, t)
<1>1. t \in Busy(n) /\ w = workers[n][t] /\ Fail(n, t)
  BY AtIsBusy DEF RegisterErrorAndFail, Worker
<1>2. [StoreNext]_storeVars /\ StatesKept({})
  <2>1. CASE UNCHANGED storeVars
    BY <2>1, UnchangedFrame
  <2>2. CASE ManagerRegisterError(w.id)
    BY <2>2, RegisterErrorStep, RegisterErrorKeepsStates DEF EInv, StoreInv
  <2> QED
    BY <2>1, <2>2 DEF RegisterErrorAndFail
<1>3. Frame /\ StatesKept({w.id})
  BY <1>2, StoreStepFrame DEF EInv, StatesKept
<1> QED
  BY <1>1, <1>2, <1>3, FailKeepsEInv

LEMMA CancelOpKeepsEInv ==
  ASSUME EInv, NEW n \in Engines, NEW t \in Tokens, CancelOp(n, t)
  PROVE  [StoreNext]_storeVars /\ EInv'
<1> DEFINE w == Worker(n, t)
           v == [w EXCEPT !.pc = "leave"]
<1>1. t \in Busy(n) /\ w \in Workers /\ w = workers[n][t]
  BY AtIsBusy DEF CancelOp, Worker
<1>2. [StoreNext]_storeVars /\ StatesKept({w.id})
  <2>1. CASE UNCHANGED storeVars
    BY <2>1, UnchangedFrame DEF StatesKept
  <2>2. CASE CompleteCancellationOf(w.id)
    <3>1. [StoreNext]_storeVars
      BY <2>2 DEF StoreNext, StoreWorkerStep, CompleteCancellationOf
    <3> QED
      BY <2>2, <3>1, CompleteCancellationKeepsOtherStates DEF EInv, StoreInv
  <2>3. ASSUME NEW outcome \in {"ok", "error"}, RemoveReplicaOp(w.id, outcome)
        PROVE  [StoreNext]_storeVars /\ StatesKept({w.id})
    <3>1. [StoreNext]_storeVars
      BY <2>3 DEF StoreNext, StoreWorkerStep, RemoveReplicaOp
    <3> QED
      BY <2>3, <3>1, RemoveOpKeepsStates DEF EInv, StoreInv, StatesKept
  <2> QED
    BY <2>1, <2>2, <2>3 DEF CancelOp
<1>3. Frame
  BY <1>2, StoreStepFrame DEF EInv
<1>4. KnowsNext(n, v)
  BY <1>1, <1>3, StoppedKnows
<1>5. v \in Workers /\ v.id = w.id
  BY <1>1 DEF Workers, WorkerPcs
<1>6. workers' = [workers EXCEPT ![n][t] = v]
  BY <1>1 DEF CancelOp, EInv, ETypes, Busy
<1>7. /\ view' = view /\ queue' = queue /\ main' = main /\ inFlight' = inFlight
      /\ cancelled' \in [Engines -> SUBSET Nat] /\ backoff' \in [Engines -> SUBSET Nat]
  BY DEF CancelOp, EInv, ETypes
<1> HIDE DEF v
<1> QED
  BY <1>1, <1>2, <1>3, <1>4, <1>5, <1>6, <1>7, WorkerMoves

LEMMA LeaveKeepsEInv ==
  ASSUME EInv, NEW n \in Engines, NEW t \in Tokens, Leave(n, t)
  PROVE  UNCHANGED storeVars /\ EInv'
<1>1. t \in Busy(n) /\ UNCHANGED storeVars /\ Exit(n, t, backoff[n])
  BY AtIsBusy DEF Leave
<1>2. Frame /\ StatesKept({workers[n][t].id})
  BY <1>1, UnchangedFrame DEF StatesKept
<1>3. backoff[n] \in SUBSET Nat
  BY DEF EInv, ETypes
<1> QED
  BY <1>1, <1>2, <1>3, ExitKeepsEInv

\* Whatever a worker does, it leaves the engine and the store in order.
LEMMA WorkerKeepsEInv ==
  ASSUME EInv, NEW n \in Engines, NEW t \in Tokens, WorkerStep(n, t) \/ External(n, t)
  PROVE  [StoreNext]_storeVars /\ EInv'
  BY StartKeepsEInv, HandleKeepsEInv, HandleReadyKeepsEInv, ActivateKeepsEInv, CopyKeepsEInv,
     WaitKeepsEInv, ExternalFailsKeepsEInv, AddReplicaKeepsEInv, DropReplicaKeepsEInv,
     SyncKeepsEInv, UpdateStatusKeepsEInv, UpdateStatusFailsKeepsEInv, RemoveKeepsEInv,
     RegisterErrorAndFailKeepsEInv, CancelOpKeepsEInv, LeaveKeepsEInv
  DEF WorkerStep, External

----------------------------------------------------------------------------
(* The steps of users, of the producer and of the main loop *)

\* While the workers stand still, those that know their operations go on
\* knowing them.
LEMMA StandingWorkersKnow ==
  ASSUME EInv, Frame, StatesKept({}), workers' = workers
  PROVE  EWorkers'
<1> SUFFICES ASSUME NEW n \in Engines, NEW t \in Busy(n) PROVE KnowsNext(n, workers[n][t])
  BY DEF EWorkers, KnowsNext, WorkerKnows, StateOf, Busy
<1>1. workers[n][t] \in Workers /\ WorkerKnows(n, workers[n][t])
  BY WorkersAreWorkers DEF EInv, EWorkers
<1> QED
  BY <1>1, KnowsKept

LEMMA UserStepKeepsEInv ==
  ASSUME EInv, UserStep
  PROVE  StoreNext /\ EInv'
<1>1. /\ StoreNext /\ StatesKept({})
      /\ view' = view /\ queue' = queue /\ main' = main /\ workers' = workers
      /\ inFlight' = inFlight /\ cancelled' = cancelled /\ backoff' = backoff
  BY UserKeepsStates DEF UserStep, StoreNext, localVars, EInv, StoreInv
<1>2. Frame
  BY <1>1, StoreStepFrame DEF EInv
<1>3. EIds' /\ EWorkers'
  BY <1>1, <1>2, IdsKept, StandingWorkersKnow
<1>4. ETypes'
  BY <1>1 DEF EInv, ETypes
<1>5. EClaims'
  BY <1>1 DEF EInv, EClaims, OneWorkerPerOp, Busy
<1> QED
  BY <1>1, <1>2, <1>3, <1>4, <1>5 DEF EInv, Frame

LEMMA CatchUpKeepsEInv ==
  ASSUME EInv, NEW n \in Engines, CatchUp(n)
  PROVE  UNCHANGED storeVars /\ EInv'
<1>1. /\ UNCHANGED storeVars /\ view' = [view EXCEPT ![n] = Applied(n)]
      /\ queue' = queue /\ main' = main /\ workers' = workers
      /\ inFlight' = inFlight /\ cancelled' = cancelled /\ backoff' = backoff
  BY DEF CatchUp, localVars
<1>2. Frame /\ StatesKept({})
  BY <1>1, UnchangedFrame
<1>3. nextId' = nextId /\ opsById' = opsById
  BY <1>1 DEF storeVars, fsmVars
<1>4. /\ DOMAIN Applied(n).ops = opsByTarget[n]
      /\ \A id \in opsByTarget[n] : Applied(n).ops[id] = Brief(statusById[id])
  BY DEF Applied
<1>5. opsByTarget[n] = {i \in Ids : opsById[i].target = n}
  BY ConsumerAssumption DEF ConsumerAssumption, EInv, StoreInv, IInv, IndexesAgree
<1>6. \A id \in Ids : id \in Nat /\ id < nextId /\ Brief(statusById[id]) \in Briefs
  BY DEF EInv, StoreInv, IInv, TypeOK, Status, Brief, Briefs
<1>7. /\ DOMAIN view' = Engines
      /\ \A m \in Engines : view'[m] = IF m = n THEN Applied(n) ELSE view[m]
  BY <1>1 DEF EInv, ETypes
<1> HIDE DEF Applied
<1>8. ETypes'
  <2>1. \A m \in Engines : \A id \in DOMAIN view'[m].ops :
          id \in Nat /\ view'[m].ops[id] \in Briefs
    <3>1. \A id \in DOMAIN Applied(n).ops : id \in Nat /\ Applied(n).ops[id] \in Briefs
      BY <1>4, <1>5, <1>6
    <3>2. \A m \in Engines : \A id \in DOMAIN view[m].ops :
            id \in Nat /\ view[m].ops[id] \in Briefs
      BY DEF EInv, ETypes
    <3>3. ASSUME NEW m \in Engines, NEW id \in DOMAIN view'[m].ops
          PROVE  id \in Nat /\ view'[m].ops[id] \in Briefs
      <4>1. CASE m = n
        BY <1>7, <3>1, <3>3, <4>1
      <4>2. CASE m # n
        BY <1>7, <3>2, <3>3, <4>2
      <4> QED
        BY <4>1, <4>2
    <3> QED
      BY <3>3
  <2> QED
    BY <1>1, <1>7, <2>1 DEF EInv, ETypes
<1>9. EIds'
  <2>1. \A m \in Engines : \A id \in DOMAIN view'[m].ops : Known(m, id)
    BY <1>4, <1>5, <1>6, <1>7 DEF EInv, EIds, Known
  <2>2. \A m \in Engines : \A id \in DOMAIN view'[m].ops :
          id < nextId' /\ (id \in Ids' => opsById'[id].target = m)
    BY <1>3, <2>1 DEF Known, Ids
  <2>3. \A m \in Engines :
          /\ \A k \in 1 .. Len(queue'[m]) : Known(m, queue'[m][k].id)
          /\ main'[m] # Idle => Known(m, main'[m].msg.id)
    BY <1>1 DEF EInv, EIds
  <2> QED
    BY <1>3, <2>2, <2>3 DEF EIds, Known, Ids
<1>10. EWorkers'
  BY <1>1, <1>2, StandingWorkersKnow
<1>11. EClaims'
  BY <1>1 DEF EInv, EClaims, OneWorkerPerOp, Busy
<1> QED
  BY <1>1, <1>2, <1>8, <1>9, <1>10, <1>11 DEF EInv, Frame

LEMMA ProduceKeepsEInv ==
  ASSUME EInv, NEW n \in Engines, NEW id, Produce(n, id)
  PROVE  UNCHANGED storeVars /\ EInv'
<1> DEFINE msg == [id |-> id, status |-> view[n].ops[id]]
<1>1. /\ UNCHANGED storeVars /\ queue' = [queue EXCEPT ![n] = Append(queue[n], msg)]
      /\ Len(queue[n]) < QueueSize /\ id \in DOMAIN view[n].ops
      /\ view' = view /\ main' = main /\ workers' = workers
      /\ inFlight' = inFlight /\ cancelled' = cancelled /\ backoff' = backoff
  BY DEF Produce
<1>2. Frame /\ StatesKept({})
  BY <1>1, UnchangedFrame
<1>3. msg \in Messages /\ Known(n, msg.id)
  BY <1>1 DEF EInv, ETypes, EIds, Messages
<1> HIDE DEF msg
<1>4. queue[n] \in Seq(Messages) /\ DOMAIN queue = Engines
  BY DEF EInv, ETypes
<1>5. /\ Append(queue[n], msg) \in Seq(Messages)
      /\ Len(Append(queue[n], msg)) = Len(queue[n]) + 1 /\ Len(queue[n]) \in Nat
      /\ \A k \in 1 .. Len(queue[n]) + 1 :
           Append(queue[n], msg)[k] = IF k \in 1 .. Len(queue[n]) THEN queue[n][k] ELSE msg
  BY <1>3, <1>4
<1>6. \A m \in Engines : queue'[m] = IF m = n THEN Append(queue[n], msg) ELSE queue[m]
  BY <1>1, <1>4
<1>7. ETypes'
  <2>1. queue' \in [Engines -> Seq(Messages)]
    BY <1>1, <1>5 DEF EInv, ETypes
  <2>2. Len(queue[n]) + 1 <= QueueSize
    BY <1>1, <1>5, ConsumerAssumption DEF ConsumerAssumption
  <2>3. \A m \in Engines : Len(queue'[m]) <= QueueSize
    BY <1>5, <1>6, <2>2 DEF EInv, ETypes
  <2> QED
    BY <1>1, <2>1, <2>3 DEF EInv, ETypes
<1>8. EIds'
  <2>1. \A m \in Engines : \A k \in 1 .. Len(queue'[m]) : Known(m, queue'[m][k].id)
    BY <1>3, <1>5, <1>6 DEF EInv, EIds
  <2>2. nextId' = nextId /\ opsById' = opsById
    BY <1>1 DEF storeVars, fsmVars
  <2> QED
    BY <1>1, <2>1, <2>2 DEF EInv, EIds, Known, Ids
<1>9. EWorkers'
  BY <1>1, <1>2, StandingWorkersKnow
<1>10. EClaims'
  BY <1>1 DEF EInv, EClaims, OneWorkerPerOp, Busy
<1> QED
  BY <1>1, <1>2, <1>7, <1>8, <1>9, <1>10 DEF EInv, Frame

\* An engine's step that leaves view and store alone keeps the ids it has.
LEMMA SameIdsKnown ==
  ASSUME UNCHANGED storeVars
  PROVE  nextId' = nextId /\ opsById' = opsById /\ Ids' = Ids
  BY DEF storeVars, fsmVars, Ids

LEMMA ReceiveKeepsEInv ==
  ASSUME EInv, NEW n \in Engines, Receive(n)
  PROVE  UNCHANGED storeVars /\ EInv'
<1> DEFINE msg == Head(queue[n])
<1>1. /\ UNCHANGED storeVars /\ main[n] = Idle /\ queue[n] # <<>>
      /\ queue' = [queue EXCEPT ![n] = Tail(queue[n])]
      /\ main' = [main EXCEPT ![n] = Idle] \/ main' = [main EXCEPT ![n] = Holding("token", msg)]
      /\ cancelled' = [cancelled EXCEPT ![n] = cancelled[n]]
           \/ cancelled' = [cancelled EXCEPT ![n] = cancelled[n] \cup {msg.id}]
      /\ view' = view /\ workers' = workers /\ inFlight' = inFlight /\ backoff' = backoff
  BY DEF Receive
<1>2. Frame /\ StatesKept({})
  BY <1>1, UnchangedFrame
<1>3. /\ queue[n] \in Seq(Messages) /\ DOMAIN queue = Engines
      /\ queue \in [Engines -> Seq(Messages)] /\ Len(queue[n]) <= QueueSize
  BY DEF EInv, ETypes
<1>4. /\ msg \in Messages /\ msg = queue[n][1] /\ 1 \in 1 .. Len(queue[n])
      /\ Tail(queue[n]) \in Seq(Messages)
      /\ Len(Tail(queue[n])) = Len(queue[n]) - 1 /\ Len(queue[n]) \in Nat
      /\ \A k \in 1 .. Len(queue[n]) - 1 : Tail(queue[n])[k] = queue[n][k + 1]
  BY <1>1, <1>3
<1>5. msg.id \in Nat /\ Known(n, msg.id)
  BY <1>4 DEF Messages, EInv, EIds
<1> DEFINE holding == Holding("token", msg)
<1>6. holding \in Holdings /\ holding # Idle /\ holding.pc = "token" /\ holding.msg = msg
  BY <1>4 DEF Holding, Holdings, Idle
<1> HIDE DEF msg, holding
<1>7. \A m \in Engines :
        /\ queue'[m] = IF m = n THEN Tail(queue[n]) ELSE queue[m]
        /\ main'[m] = main[m] \/ (m = n /\ main'[m] = holding)
  <2>1. main \in [Engines -> {Idle} \cup Holdings]
    BY DEF EInv, ETypes
  <2>2. main' = [main EXCEPT ![n] = Idle] \/ main' = [main EXCEPT ![n] = holding]
    BY <1>1 DEF holding
  <2> QED
    BY <1>1, <1>3, <2>1, <2>2
<1>8. ETypes'
  <2>1. queue' \in [Engines -> Seq(Messages)]
    BY <1>1, <1>3, <1>4
  <2>2. \A m \in Engines : Len(queue'[m]) <= QueueSize
    <3>1. Len(Tail(queue[n])) <= QueueSize
      BY <1>3, <1>4, ConsumerAssumption DEF ConsumerAssumption
    <3> QED
      BY <1>7, <3>1 DEF EInv, ETypes
  <2>3. main' \in [Engines -> {Idle} \cup Holdings]
    <3>1. main' = [main EXCEPT ![n] = Idle] \/ main' = [main EXCEPT ![n] = holding]
      BY <1>1 DEF holding
    <3> QED
      BY <1>6, <3>1 DEF EInv, ETypes
  <2>4. cancelled' \in [Engines -> SUBSET Nat]
    <3>1. cancelled \in [Engines -> SUBSET Nat]
      BY DEF EInv, ETypes
    <3>2. cancelled[n] \in SUBSET Nat /\ cancelled[n] \cup {msg.id} \in SUBSET Nat
      BY <1>5, <3>1
    <3> QED
      BY <1>1, <3>1, <3>2
  <2> QED
    BY <1>1, <2>1, <2>2, <2>3, <2>4 DEF EInv, ETypes
<1>9. EIds'
  <2>1. \A m \in Engines : \A k \in 1 .. Len(queue'[m]) : Known(m, queue'[m][k].id)
    <3>1. \A k \in 1 .. Len(Tail(queue[n])) : Known(n, Tail(queue[n])[k].id)
      BY <1>4 DEF EInv, EIds
    <3> QED
      BY <1>7, <3>1 DEF EInv, EIds
  <2>2. \A m \in Engines : main'[m] # Idle => Known(m, main'[m].msg.id)
    BY <1>5, <1>6, <1>7 DEF EInv, EIds
  <2> QED
    BY <1>1, <2>1, <2>2, SameIdsKnown DEF EInv, EIds, Known
<1>10. EWorkers'
  BY <1>1, <1>2, StandingWorkersKnow
<1>11. EClaims'
  <2>1. \A m \in Engines : main'[m].pc = "check" => main'[m] = main[m]
    BY <1>6, <1>7
  <2> QED
    BY <1>1, <2>1 DEF EInv, EClaims, OneWorkerPerOp, Busy
<1> QED
  BY <1>1, <1>2, <1>8, <1>9, <1>10, <1>11 DEF EInv, Frame

LEMMA TokensCount == Tokens # {} /\ Cardinality(Tokens) = MaxWorkers
<1>1. 1 \in Int /\ MaxWorkers \in Int /\ MaxWorkers >= 1
  BY ConsumerAssumption DEF ConsumerAssumption
<1>2. Cardinality(1 .. MaxWorkers) = MaxWorkers - 1 + 1
  BY <1>1, FS_Interval
<1> QED
  BY <1>1, <1>2 DEF Tokens

LEMMA TakeTokenKeepsEInv ==
  ASSUME EInv, NEW n \in Engines, TakeToken(n)
  PROVE  UNCHANGED storeVars /\ EInv'
<1> DEFINE id == main[n].msg.id
           claiming == [main[n] EXCEPT !.pc = "check"]
<1>1. /\ UNCHANGED storeVars /\ main[n].pc = "token" /\ Cardinality(Busy(n)) < MaxWorkers
      /\ \/ main' = [main EXCEPT ![n] = Idle] /\ inFlight' = inFlight
         \/ /\ id \notin inFlight[n] /\ main' = [main EXCEPT ![n] = claiming]
            /\ inFlight' = [inFlight EXCEPT ![n] = inFlight[n] \cup {id}]
      /\ view' = view /\ queue' = queue /\ workers' = workers
      /\ cancelled' = cancelled /\ backoff' = backoff
  BY DEF TakeToken
<1>2. Frame /\ StatesKept({})
  BY <1>1, UnchangedFrame
<1>3. main[n] \in Holdings /\ main[n] # Idle /\ id \in Nat /\ Known(n, id)
  BY <1>1 DEF EInv, ETypes, EIds, Idle, Holdings, Messages
<1>4. claiming \in Holdings /\ claiming # Idle /\ claiming.pc = "check" /\ claiming.msg = main[n].msg
  BY <1>3 DEF Holdings, Idle
<1>5. Busy(n) # Tokens
  BY <1>1, TokensCount, ConsumerAssumption DEF ConsumerAssumption
<1> HIDE DEF claiming
<1>6. main \in [Engines -> {Idle} \cup Holdings] /\ inFlight \in [Engines -> SUBSET Nat]
  BY DEF EInv, ETypes
<1>7. ETypes'
  <2>1. main' \in [Engines -> {Idle} \cup Holdings]
    BY <1>1, <1>4, <1>6
  <2>2. inFlight' \in [Engines -> SUBSET Nat]
    BY <1>1, <1>3, <1>6
  <2> QED
    BY <1>1, <2>1, <2>2 DEF EInv, ETypes
<1>8. EIds'
  <2>1. \A m \in Engines : main'[m] # Idle => Known(m, main'[m].msg.id)
    BY <1>1, <1>3, <1>4, <1>6 DEF EInv, EIds
  <2> QED
    BY <1>1, <2>1, SameIdsKnown DEF EInv, EIds, Known
<1>9. EWorkers'
  BY <1>1, <1>2, StandingWorkersKnow
<1>10. EClaims'
  <2>1. ASSUME NEW m \in Engines, m # n
        PROVE  main'[m] = main[m] /\ inFlight'[m] = inFlight[m]
    BY <1>1, <1>6, <2>1
  <2>2. inFlight[n] \subseteq inFlight'[n]
    BY <1>1, <1>6
  <2>3. ASSUME main'[n].pc = "check"
        PROVE  id \notin inFlight[n] /\ id \in inFlight'[n] /\ main'[n].msg.id = id
    BY <1>1, <1>4, <1>6, <2>3 DEF Idle
  <2>4. OneWorkerPerOp'
    <3>1. OneWorkerPerOp
      BY DEF EInv, EClaims
    <3> QED
      BY <1>1, <3>1, <2>1, <2>2, <2>3 DEF OneWorkerPerOp, Busy
  <2>5. \A m \in Engines : main'[m].pc = "check" => main'[m].msg.id \in inFlight'[m]
    BY <2>1, <2>3 DEF EInv, EClaims
  <2>6. \A m \in Engines : main'[m].pc = "check" => Busy(m) # Tokens
    BY <1>5, <2>1 DEF EInv, EClaims
  <2> QED
    BY <1>1, <2>4, <2>5, <2>6 DEF EClaims, Busy
<1> QED
  BY <1>1, <1>2, <1>7, <1>8, <1>9, <1>10 DEF EInv, Frame

LEMMA BackoffExpiresKeepsEInv ==
  ASSUME EInv, NEW n \in Engines, NEW id, BackoffExpires(n, id)
  PROVE  UNCHANGED storeVars /\ EInv'
<1>1. /\ UNCHANGED storeVars /\ backoff' = [backoff EXCEPT ![n] = backoff[n] \ {id}]
      /\ view' = view /\ queue' = queue /\ main' = main /\ workers' = workers
      /\ inFlight' = inFlight /\ cancelled' = cancelled
  BY DEF BackoffExpires
<1>2. Frame /\ StatesKept({})
  BY <1>1, UnchangedFrame
<1>3. ETypes'
  BY <1>1 DEF EInv, ETypes
<1>4. EIds' /\ EWorkers'
  BY <1>1, <1>2, IdsKept, StandingWorkersKnow
<1>5. EClaims'
  BY <1>1 DEF EInv, EClaims, OneWorkerPerOp, Busy
<1> QED
  BY <1>1, <1>2, <1>3, <1>4, <1>5 DEF EInv, Frame

\* The message starts a worker that knows its operation.
LEMMA NewWorkerKnows ==
  ASSUME EInv, NEW n \in Engines, main[n].pc = "check", main[n].msg.id \in Ids,
         StateOf(main[n].msg.id) = main[n].msg.status.state
  PROVE  /\ NewWorker(main[n].msg) \in Workers
         /\ WorkerKnows(n, NewWorker(main[n].msg))
         /\ NewWorker(main[n].msg).id = main[n].msg.id
<1> DEFINE msg == main[n].msg
<1>1. main[n] \in Holdings /\ main[n] # Idle
  BY DEF EInv, ETypes, Idle
<1>2. msg \in Messages /\ Known(n, msg.id)
  BY <1>1 DEF Holdings, EInv, EIds
<1>3. /\ msg.id \in Nat /\ msg.id < nextId /\ msg.status \in Briefs
      /\ msg.id \in Ids /\ StateOf(msg.id) = msg.status.state
      /\ opsById[msg.id] \in Op /\ opsById[msg.id].target = n
  BY <1>2 DEF Messages, Known, EInv, StoreInv, IInv, TypeOK
<1> HIDE DEF msg
<1>4. NewWorker(msg) \in Workers
  BY <1>3 DEF NewWorker, Workers, WorkerPcs
<1>5. WorkerKnows(n, NewWorker(msg))
  BY <1>3 DEF NewWorker, WorkerKnows, PcStates, Briefs
<1>6. NewWorker(msg).id = msg.id
  BY DEF NewWorker
<1> QED
  BY <1>4, <1>5, <1>6 DEF msg

LEMMA CheckLeaderKeepsEInv ==
  ASSUME EInv, NEW n \in Engines, CheckLeader(n)
  PROVE  UNCHANGED storeVars /\ EInv'
<1> DEFINE msg == main[n].msg
           free == CHOOSE t \in Tokens : t \notin Busy(n)
           w == NewWorker(msg)
<1>1. /\ UNCHANGED storeVars /\ main[n].pc = "check" /\ main' = [main EXCEPT ![n] = Idle]
      /\ view' = view /\ queue' = queue /\ cancelled' = cancelled /\ backoff' = backoff
  BY DEF CheckLeader
<1>2. Frame /\ StatesKept({})
  BY <1>1, UnchangedFrame
<1>3. /\ main \in [Engines -> {Idle} \cup Holdings]
      /\ inFlight \in [Engines -> SUBSET Nat]
      /\ workers \in [Engines -> [Tokens -> {Idle} \cup Workers]]
  BY DEF EInv, ETypes
<1>4. \A m \in Engines : main'[m] = IF m = n THEN Idle ELSE main[m]
  BY <1>1, <1>3
<1>5. main' \in [Engines -> {Idle} \cup Holdings] /\ EIds'
  BY <1>1, <1>2, <1>3, <1>4, IdsKept
<1>6. OneWorkerPerOp /\ msg.id \in inFlight[n] /\ Busy(n) # Tokens
  BY <1>1 DEF EInv, EClaims
<1>7. CASE /\ msg.id \in Ids /\ StateOf(msg.id) = msg.status.state
           /\ workers' = [workers EXCEPT ![n][free] = w]
           /\ inFlight' = inFlight
  <2>1. w \in Workers /\ WorkerKnows(n, w) /\ w.id = msg.id
    BY <1>1, <1>7, NewWorkerKnows
  <2>2. free \in Tokens /\ free \notin Busy(n)
    <3>1. \E t \in Tokens : t \notin Busy(n)
      BY <1>6 DEF Busy
    <3> QED
      BY <3>1
  <2>3. w.op.target = n
    BY <2>1 DEF WorkerKnows
  <2> HIDE DEF w, free, msg
  <2>4. w # Idle
    BY <2>1, IdleIsNoWorker
  <2>5. \A m \in Engines, u \in Tokens :
          workers'[m][u] = IF m = n /\ u = free THEN w ELSE workers[m][u]
    BY <1>3, <1>7, <2>2
  <2>6. ETypes'
    <3>1. workers' \in [Engines -> [Tokens -> {Idle} \cup Workers]]
      BY <1>3, <1>7, <2>1, <2>2
    <3> QED
      BY <1>1, <1>5, <1>7, <3>1 DEF EInv, ETypes
  <2>7. EWorkers'
    <3> SUFFICES ASSUME NEW m \in Engines, NEW u \in Tokens, workers'[m][u] # Idle
                 PROVE  KnowsNext(m, workers'[m][u])
      BY DEF EWorkers, KnowsNext, WorkerKnows, StateOf, Busy
    <3>1. CASE m = n /\ u = free
      BY <1>2, <2>1, <2>5, <3>1, KnowsKept
    <3>2. CASE m # n \/ u # free
      <4>1. u \in Busy(m) /\ workers'[m][u] = workers[m][u]
        BY <2>5, <3>2 DEF Busy
      <4>2. workers[m][u] \in Workers /\ WorkerKnows(m, workers[m][u])
        BY <4>1, WorkersAreWorkers DEF EInv, EWorkers
      <4> QED
        BY <1>2, <4>1, <4>2, KnowsKept
    <3> QED
      BY <3>1, <3>2
  <2>8. EClaims'
    <3>1. \A u \in Busy(n) : workers[n][u].id # msg.id
      BY <1>1, <1>6 DEF OneWorkerPerOp, msg
    <3>2. \A m \in Engines : main'[m].pc = "check" => m # n /\ main'[m] = main[m]
      BY <1>4 DEF Idle
    <3>3. OneWorkerPerOp'
      <4> SUFFICES ASSUME NEW m \in Engines, NEW t \in Tokens, workers'[m][t] # Idle
                   PROVE  /\ workers'[m][t].op.target = m
                          /\ workers'[m][t].id \in inFlight'[m]
                          /\ main'[m].pc = "check" => workers'[m][t].id # main'[m].msg.id
                          /\ \A u \in Tokens : workers'[m][u] # Idle =>
                               (workers'[m][t].id = workers'[m][u].id => t = u)
        BY DEF OneWorkerPerOp, Busy
      <4>1. CASE m # n
        BY <1>6, <1>7, <2>5, <3>2, <4>1 DEF OneWorkerPerOp, Busy
      <4>2. CASE m = n
        <5>1. main'[m].pc # "check"
          BY <3>2, <4>2
        <5>2. CASE t = free
          BY <1>6, <1>7, <2>1, <2>3, <2>5, <3>1, <4>2, <5>1, <5>2 DEF Busy
        <5>3. CASE t # free
          BY <1>6, <1>7, <2>1, <2>5, <3>1, <4>2, <5>1, <5>3 DEF Busy, OneWorkerPerOp
        <5> QED
          BY <5>2, <5>3
      <4> QED
        BY <4>1, <4>2
    <3>4. \A m \in Engines : main'[m].pc = "check" =>
            main'[m].msg.id \in inFlight'[m] /\ Busy(m) # Tokens
      BY <1>7, <3>2 DEF EInv, EClaims
    <3>5. \A m \in Engines : m # n => Busy(m)' = Busy(m)
      BY <2>5 DEF Busy
    <3> QED
      BY <3>2, <3>3, <3>4, <3>5 DEF EClaims
  <2> QED
    BY <1>1, <1>2, <1>5, <2>6, <2>7, <2>8 DEF EInv, Frame
<1>8. CASE inFlight' = [inFlight EXCEPT ![n] = inFlight[n] \ {msg.id}] /\ workers' = workers
  <2>1. ETypes'
    <3>1. inFlight' \in [Engines -> SUBSET Nat]
      BY <1>3, <1>8
    <3> QED
      BY <1>1, <1>5, <1>8, <3>1 DEF EInv, ETypes
  <2>2. EWorkers'
    BY <1>2, <1>8, StandingWorkersKnow
  <2>3. \A m \in Engines : main'[m].pc = "check" => m # n /\ main'[m] = main[m]
    BY <1>4 DEF Idle
  <2>4. \A m \in Engines : m # n => inFlight'[m] = inFlight[m]
    BY <1>3, <1>8
  <2>5. \A t \in Busy(n) : workers[n][t].id # msg.id
    BY <1>1, <1>6 DEF OneWorkerPerOp
  <2>6. inFlight'[n] = inFlight[n] \ {msg.id}
    BY <1>3, <1>8
  <2> HIDE DEF msg
  <2>7. OneWorkerPerOp'
    BY <1>6, <1>8, <2>3, <2>4, <2>5, <2>6 DEF OneWorkerPerOp, Busy
  <2>8. EClaims'
    BY <1>8, <2>3, <2>4, <2>7 DEF EInv, EClaims, Busy
  <2> QED
    BY <1>1, <1>2, <1>5, <2>1, <2>2, <2>8 DEF EInv, Frame
<1> QED
  BY <1>7, <1>8 DEF CheckLeader

LEMMA RestartKeepsEInv ==
  ASSUME EInv, NEW n \in Engines, Restart(n)
  PROVE  UNCHANGED storeVars /\ EInv'
<1> DEFINE idle == [t \in Tokens |-> Idle]
<1>1. /\ UNCHANGED storeVars /\ view' = view
      /\ queue' = [queue EXCEPT ![n] = <<>>] /\ main' = [main EXCEPT ![n] = Idle]
      /\ workers' = [workers EXCEPT ![n] = idle] /\ inFlight' = [inFlight EXCEPT ![n] = {}]
      /\ cancelled' = [cancelled EXCEPT ![n] = {}] /\ backoff' = [backoff EXCEPT ![n] = {}]
  BY DEF Restart
<1>2. Frame /\ StatesKept({})
  BY <1>1, UnchangedFrame
<1>3. ETypes'
  <2>1. queue' \in [Engines -> Seq(Messages)]
    BY <1>1 DEF EInv, ETypes
  <2>2. \A m \in Engines : Len(queue'[m]) <= QueueSize
    <3>1. Len(<<>>) <= QueueSize
      BY ConsumerAssumption DEF ConsumerAssumption
    <3> QED
      BY <1>1, <3>1 DEF EInv, ETypes
  <2>3. main' \in [Engines -> {Idle} \cup Holdings]
    BY <1>1 DEF EInv, ETypes
  <2>4. workers' \in [Engines -> [Tokens -> {Idle} \cup Workers]]
    BY <1>1 DEF EInv, ETypes
  <2>5. /\ inFlight' \in [Engines -> SUBSET Nat] /\ cancelled' \in [Engines -> SUBSET Nat]
        /\ backoff' \in [Engines -> SUBSET Nat]
    BY <1>1 DEF EInv, ETypes
  <2> QED
    BY <1>1, <2>1, <2>2, <2>3, <2>4, <2>5 DEF EInv, ETypes
<1>4. \A m \in Engines :
        IF m = n THEN queue'[m] = <<>> /\ main'[m] = Idle /\ workers'[m] = idle
        ELSE /\ queue'[m] = queue[m] /\ main'[m] = main[m] /\ workers'[m] = workers[m]
             /\ inFlight'[m] = inFlight[m]
  BY <1>1 DEF EInv, ETypes
<1>5. EIds'
  <2>1. \A m \in Engines :
          /\ \A k \in 1 .. Len(queue'[m]) : Known(m, queue'[m][k].id)
          /\ main'[m] # Idle => Known(m, main'[m].msg.id)
    BY <1>4 DEF EInv, EIds
  <2> QED
    BY <1>1, <2>1, SameIdsKnown DEF EInv, EIds, Known
<1>6. \A m \in Engines : \A t \in Tokens : workers'[m][t] # Idle =>
        m # n /\ t \in Busy(m) /\ workers'[m][t] = workers[m][t]
  BY <1>4 DEF Busy
<1>7. EWorkers'
  <2> SUFFICES ASSUME NEW m \in Engines, NEW t \in Tokens, workers'[m][t] # Idle
               PROVE  KnowsNext(m, workers'[m][t])
    BY DEF EWorkers, KnowsNext, WorkerKnows, StateOf, Busy
  <2>1. t \in Busy(m) /\ workers'[m][t] = workers[m][t]
    BY <1>6
  <2>2. workers[m][t] \in Workers /\ WorkerKnows(m, workers[m][t])
    BY <2>1, WorkersAreWorkers DEF EInv, EWorkers
  <2> QED
    BY <1>2, <2>1, <2>2, KnowsKept
<1>8. EClaims'
  <2>1. \A m \in Engines : main'[m].pc = "check" => m # n
    BY <1>4 DEF Idle
  <2>2. OneWorkerPerOp'
    BY <1>4, <1>6, <2>1 DEF EInv, EClaims, OneWorkerPerOp, Busy
  <2> QED
    BY <1>4, <2>1, <2>2 DEF EInv, EClaims, Busy
<1> QED
  BY <1>1, <1>2, <1>3, <1>5, <1>7, <1>8 DEF EInv, Frame

----------------------------------------------------------------------------
(* The theorems *)

LEMMA InitEInv == ConsumerInit => EInv
<1> SUFFICES ASSUME ConsumerInit PROVE EInv
  OBVIOUS
<1>1. StoreInv
  BY InitStoreInv DEF ConsumerInit
<1>2. \A n \in Engines : view[n].ops = [i \in opsByTarget[n] |-> Brief(statusById[i])]
  BY DEF ConsumerInit, Applied
<1>3. \A n \in Engines : opsByTarget[n] = {}
  BY ConsumerAssumption DEF ConsumerAssumption, ConsumerInit, StoreInit, Init
<1>4. \A n \in Engines : DOMAIN view[n].ops = {}
  BY <1>2, <1>3
<1>5. ETypes
  <2>1. DOMAIN view = Engines
    BY DEF ConsumerInit
  <2>2. queue \in [Engines -> Seq(Messages)] /\ \A n \in Engines : Len(queue[n]) <= QueueSize
    BY ConsumerAssumption DEF ConsumerAssumption, ConsumerInit
  <2>3. /\ main \in [Engines -> {Idle} \cup Holdings]
        /\ workers \in [Engines -> [Tokens -> {Idle} \cup Workers]]
        /\ inFlight \in [Engines -> SUBSET Nat]
        /\ cancelled \in [Engines -> SUBSET Nat]
        /\ backoff \in [Engines -> SUBSET Nat]
    BY DEF ConsumerInit
  <2> QED
    BY <1>4, <2>1, <2>2, <2>3 DEF ETypes
<1>6. \A n \in Engines : queue[n] = <<>> /\ main[n] = Idle /\ Busy(n) = {}
  BY DEF ConsumerInit, Busy
<1>7. EIds /\ EWorkers
  BY <1>4, <1>6 DEF EIds, EWorkers
<1>8. EClaims
  BY <1>6 DEF EClaims, OneWorkerPerOp, Idle
<1> QED
  BY <1>1, <1>5, <1>7, <1>8 DEF EInv

LEMMA ConsumerStepKeepsEInv ==
  EInv /\ [ConsumerNext]_vars => EInv' /\ [StoreNext]_storeVars
<1> SUFFICES ASSUME EInv, [ConsumerNext]_vars PROVE EInv' /\ [StoreNext]_storeVars
  OBVIOUS
<1>1. CASE UserStep
  BY <1>1, UserStepKeepsEInv
<1>2. ASSUME NEW n \in Engines, MainLoop(n) PROVE EInv' /\ [StoreNext]_storeVars
  BY <1>2, ReceiveKeepsEInv, TakeTokenKeepsEInv, CheckLeaderKeepsEInv DEF MainLoop
<1>3. ASSUME NEW n \in Engines,
             \/ CatchUp(n) \/ Restart(n)
             \/ \E id \in Ids : Produce(n, id)
             \/ \E id \in backoff[n] : BackoffExpires(n, id)
      PROVE  EInv' /\ [StoreNext]_storeVars
  BY <1>3, CatchUpKeepsEInv, RestartKeepsEInv, ProduceKeepsEInv, BackoffExpiresKeepsEInv
<1>4. ASSUME NEW n \in Engines, NEW t \in Tokens, WorkerStep(n, t) \/ External(n, t)
      PROVE  EInv' /\ [StoreNext]_storeVars
  BY <1>4, WorkerKeepsEInv
<1>5. CASE UNCHANGED vars
  <2>1. /\ UNCHANGED storeVars
        /\ view' = view /\ queue' = queue /\ main' = main /\ workers' = workers
        /\ inFlight' = inFlight /\ cancelled' = cancelled /\ backoff' = backoff
    BY <1>5 DEF vars, localVars
  <2>2. Frame /\ StatesKept({})
    BY <2>1, UnchangedFrame
  <2>3. EIds' /\ EWorkers'
    BY <2>1, <2>2, IdsKept, StandingWorkersKnow
  <2>4. ETypes' /\ EClaims'
    BY <2>1 DEF EInv, ETypes, EClaims, OneWorkerPerOp, Busy
  <2> QED
    BY <2>1, <2>2, <2>3, <2>4 DEF EInv, Frame
<1> QED
  BY <1>1, <1>2, <1>3, <1>4, <1>5 DEF ConsumerNext

\* The invariant of the engine, for any messages, restarts and failing calls.
THEOREM EngineInvariance == ConsumerSpec => []EInv
<1> QED
  BY InitEInv, ConsumerStepKeepsEInv, PTL DEF ConsumerSpec

\* The engine drives the store by the store's own commands, hence has all the
\* safety properties of ReplicationStore and of ShardReplicationFSM.
THEOREM EngineImplementsStore == ConsumerSpec => StoreSpec
<1>1. ConsumerInit => StoreInit
  BY DEF ConsumerInit
<1> QED
  BY <1>1, ConsumerStepKeepsEInv, EngineInvariance, PTL DEF ConsumerSpec, StoreSpec

\* An operation has at most one worker, on its target node, and while the main
\* loop checks an operation at the leader nobody else works on it.
THEOREM OneWorker == ConsumerSpec => []OneWorkerPerOp
<1>1. EInv => OneWorkerPerOp
  BY DEF EInv, EClaims
<1> QED
  BY <1>1, EngineInvariance, PTL

\* The engine's variables keep their types; the channel keeps its capacity, and
\* a worker that is about to start finds a free token.
THEOREM EngineTypeCorrect == ConsumerSpec => []ConsumerTypeOK
<1>1. ASSUME EInv PROVE ConsumerTypeOK
  <2>1. StoreTypeOK
    BY <1>1 DEF EInv, StoreInv, IInv, ReplicasFinite, StoreTypeOK
  <2>2. ASSUME NEW n \in Engines
        PROVE  /\ Len(queue[n]) <= QueueSize
               /\ main[n].pc \in {"idle", "token", "check"}
               /\ \A t \in Busy(n) : workers[n][t].pc \in WorkerPcs
    <3>1. main[n] \in {Idle} \cup Holdings /\ Len(queue[n]) <= QueueSize
      BY <1>1 DEF EInv, ETypes
    <3>2. main[n].pc \in {"idle", "token", "check"}
      BY <3>1 DEF Idle, Holdings
    <3>3. \A t \in Busy(n) : workers[n][t].pc \in WorkerPcs
      BY <1>1, WorkersAreWorkers DEF EInv, Workers
    <3> QED
      BY <3>1, <3>2, <3>3
  <2>3. ASSUME NEW n \in Engines, main[n].pc = "check"
        PROVE  Cardinality(Busy(n)) < MaxWorkers
    <3>1. Busy(n) \in SUBSET Tokens /\ Busy(n) # Tokens
      BY <1>1, <2>3 DEF EInv, EClaims, Busy
    <3>2. IsFiniteSet(Tokens)
      <4>1. 1 \in Int /\ MaxWorkers \in Int
        BY ConsumerAssumption DEF ConsumerAssumption
      <4> QED
        BY <4>1, FS_Interval DEF Tokens
    <3>3. /\ Cardinality(Busy(n)) <= Cardinality(Tokens)
          /\ Cardinality(Tokens) # Cardinality(Busy(n))
          /\ IsFiniteSet(Busy(n))
      BY <3>1, <3>2, FS_Subset
    <3>4. Cardinality(Busy(n)) \in Nat /\ Cardinality(Tokens) \in Nat
      BY <3>2, <3>3, FS_CardinalityType
    <3> QED
      BY <3>3, <3>4, TokensCount
  <2> QED
    BY <2>1, <2>2, <2>3 DEF ConsumerTypeOK
<1> QED
  BY <1>1, EngineInvariance, PTL

----------------------------------------------------------------------------
(* How the states of operations change *)

\* The steps of a worker that change no state.
QuietWorkerStep(n, t) ==
  \/ Start(n, t) \/ Handle(n, t) \/ HandleReady(n, t) \/ Activate(n, t)
  \/ AddReplica(n, t) \/ DropReplica(n, t) \/ Sync(n, t) \/ Remove(n, t)
  \/ RegisterErrorAndFail(n, t) \/ Leave(n, t) \/ External(n, t)

LEMMA QuietStepKeepsStates ==
  ASSUME EInv, NEW n \in Engines, NEW t \in Tokens, QuietWorkerStep(n, t)
  PROVE  StatesKept({})
<1>1. ASSUME UNCHANGED storeVars PROVE StatesKept({})
  BY <1>1, UnchangedFrame
<1>2. CASE Start(n, t) \/ Handle(n, t) \/ HandleReady(n, t) \/ Leave(n, t) \/ Sync(n, t)
           \/ External(n, t)
  BY <1>1, <1>2 DEF Start, Handle, HandleReady, Leave, Sync, LostCall, External,
     CopyReplicaFiles, WaitForAsyncReplication, ExternalFails
<1>3. CASE Activate(n, t)
  BY <1>1, <1>3, SchemaVersionKeepsStates DEF Activate, EInv, StoreInv
<1>4. CASE AddReplica(n, t)
  BY <1>1, <1>4, AddReplicaKeepsStates DEF AddReplica, LostCall, EInv, StoreInv
<1>5. CASE DropReplica(n, t)
  BY <1>1, <1>5, DropReplicaKeepsStates DEF DropReplica, LostCall
<1>6. CASE Remove(n, t)
  BY <1>1, <1>6, RemoveOpKeepsStates DEF Remove, LostCall, EInv, StoreInv
<1>7. CASE RegisterErrorAndFail(n, t)
  BY <1>1, <1>7, RegisterErrorKeepsStates DEF RegisterErrorAndFail, EInv, StoreInv
<1> QED
  BY <1>2, <1>3, <1>4, <1>5, <1>6, <1>7 DEF QuietWorkerStep

\* A step changes at most the state of one operation, along an edge of its type.
Advances(i) ==
  /\ i \in Ids /\ i \in Ids' /\ StatesKept({i})
  /\ <<StateOf(i), statusById'[i].state>> \in Movement!Edges(opsById[i].type)

EdgeStep == StatesKept({}) \/ \E i \in Ids : Advances(i)

\* Only a MOVE is ever DEHYDRATING.
OnlyMovesDehydrate == \A i \in Ids : StateOf(i) = "DEHYDRATING" => opsById[i].type = "MOVE"

LEMMA UpdateAdvances ==
  ASSUME EInv, OnlyMovesDehydrate, NEW n \in Engines, NEW t \in Tokens, At(n, t, "update"),
         UpdateReplicateOpState(Worker(n, t).id, NextState(Worker(n, t)), "ok")
  PROVE  Advances(Worker(n, t).id)
<1> DEFINE w == Worker(n, t)
<1>1. /\ w.id \in Ids /\ StateOf(w.id) # "CANCELLED" /\ w.id \in Ids'
      /\ statusById'[w.id].state = NextState(w)
  BY UpdateSetsState DEF EInv, StoreInv
<1>2. StatesKept({w.id})
  BY UpdateKeepsOtherStates DEF EInv, StoreInv
<1>3. /\ w.status.state = StateOf(w.id) /\ w.op = opsById[w.id]
      /\ w.status.state \in States \ {"READY"}
  BY <1>1, StateAt, AtIsBusy DEF Worker, WorkerKnows, PcStates
<1>4. w.op.type \in {"COPY", "MOVE"}
  BY AtIsBusy DEF Worker, Workers, Op
<1> HIDE DEF w
<1>5. <<w.status.state, NextState(w)>> \in Movement!Edges(w.op.type)
  <2>1. w.status.state \in {"REGISTERED", "HYDRATING", "FINALIZING", "DEHYDRATING"}
    BY <1>1, <1>3 DEF States
  <2>2. CASE w.status.state = "REGISTERED"
    BY <2>2 DEF NextState, Movement!Edges
  <2>3. CASE w.status.state = "HYDRATING"
    BY <2>3 DEF NextState, Movement!Edges
  <2>4. CASE w.status.state = "FINALIZING" /\ w.op.type = "COPY"
    BY <2>4 DEF NextState, Movement!Edges
  <2>5. CASE w.status.state = "FINALIZING" /\ w.op.type = "MOVE"
    BY <2>5 DEF NextState, Movement!Edges
  <2>6. CASE w.status.state = "DEHYDRATING"
    <3>1. w.op.type = "MOVE"
      BY <1>1, <1>3, <2>6 DEF OnlyMovesDehydrate
    <3> QED
      BY <2>6, <3>1 DEF NextState, Movement!Edges
  <2> QED
    BY <1>4, <2>1, <2>2, <2>3, <2>4, <2>5, <2>6
<1>6. Advances(w.id)
  BY <1>1, <1>2, <1>3, <1>5 DEF Advances
<1> QED
  BY <1>6 DEF w

LEMMA CancellationAdvances ==
  ASSUME EInv, NEW id, CompleteCancellationOf(id)
  PROVE  EdgeStep
<1>1. StatesKept({id})
  BY CompleteCancellationKeepsOtherStates DEF EInv, StoreInv
<1>2. CASE id \in Ids
  <2>1. id \in Ids' /\ statusById'[id] = CompleteCancellation(statusById[id])
    BY <1>2 DEF CompleteCancellationOf, CancellationComplete, ChangeStatus, EInv, StoreInv,
                IInv, TypeOK, Ids
  <2>2. statusById[id] \in Status
    BY <1>2 DEF EInv, StoreInv, IInv, TypeOK
  <2>3. statusById'[id].state = "CANCELLED"
    BY <2>1, <2>2 DEF CompleteCancellation, ChangeState, Status
  <2>4. StateOf(id) \in States
    BY <2>2 DEF StateOf, Status
  <2>5. CASE StateOf(id) = "CANCELLED"
    BY <1>1, <2>3, <2>5 DEF EdgeStep, StatesKept, StateOf
  <2>6. CASE StateOf(id) # "CANCELLED"
    <3>1. <<StateOf(id), "CANCELLED">> \in Movement!Edges(opsById[id].type)
      BY <2>4, <2>6 DEF Movement!Edges, Movement!Stages, States
    <3> QED
      BY <1>1, <1>2, <2>1, <2>3, <3>1 DEF EdgeStep, Advances
  <2> QED
    BY <2>5, <2>6
<1>3. CASE id \notin Ids
  BY <1>1, <1>3 DEF EdgeStep, StatesKept
<1> QED
  BY <1>2, <1>3

LEMMA ConsumerStepIsEdgeStep == EInv /\ OnlyMovesDehydrate /\ [ConsumerNext]_vars => EdgeStep
<1> SUFFICES ASSUME EInv, OnlyMovesDehydrate, [ConsumerNext]_vars PROVE EdgeStep
  OBVIOUS
<1>1. ASSUME UNCHANGED storeVars PROVE StatesKept({})
  BY <1>1, UnchangedFrame
<1>2. CASE UserStep
  BY <1>2, UserKeepsStates DEF UserStep, EInv, StoreInv, EdgeStep
<1>3. ASSUME NEW n \in Engines,
             \/ MainLoop(n) \/ CatchUp(n) \/ Restart(n)
             \/ \E id \in Ids : Produce(n, id)
             \/ \E id \in backoff[n] : BackoffExpires(n, id)
      PROVE  EdgeStep
  BY <1>1, <1>3 DEF MainLoop, Receive, TakeToken, CheckLeader, CatchUp, Restart, Produce,
     BackoffExpires, EdgeStep
<1>4. ASSUME NEW n \in Engines, NEW t \in Tokens, WorkerStep(n, t) \/ External(n, t)
      PROVE  EdgeStep
  <2>1. CASE QuietWorkerStep(n, t)
    BY <2>1, QuietStepKeepsStates DEF EdgeStep
  <2>2. CASE UpdateStatus(n, t)
    BY <2>2, UpdateAdvances DEF UpdateStatus, EdgeStep, Advances
  <2>3. CASE UpdateStatusFails(n, t)
    <3>1. CASE UpdateReplicateOpState(Worker(n, t).id, NextState(Worker(n, t)), "ok")
      BY <2>3, <3>1, UpdateAdvances DEF UpdateStatusFails, EdgeStep, Advances
    <3>2. CASE UpdateReplicateOpState(Worker(n, t).id, NextState(Worker(n, t)), "error")
      BY <1>1, <3>2 DEF UpdateReplicateOpState, EdgeStep
    <3>3. CASE UNCHANGED storeVars
      BY <1>1, <3>3 DEF EdgeStep
    <3> QED
      BY <2>3, <3>1, <3>2, <3>3 DEF UpdateStatusFails
  <2>4. CASE CancelOp(n, t)
    <3>1. CASE CompleteCancellationOf(Worker(n, t).id)
      BY <3>1, CancellationAdvances
    <3>2. CASE \E outcome \in {"ok", "error"} : RemoveReplicaOp(Worker(n, t).id, outcome)
      BY <3>2, RemoveOpKeepsStates DEF EInv, StoreInv, EdgeStep
    <3>3. CASE UNCHANGED storeVars
      BY <1>1, <3>3 DEF EdgeStep
    <3> QED
      BY <2>4, <3>1, <3>2, <3>3 DEF CancelOp
  <2> QED
    BY <1>4, <2>1, <2>2, <2>3, <2>4 DEF WorkerStep, QuietWorkerStep
<1>5. CASE UNCHANGED vars
  BY <1>1, <1>5 DEF vars, EdgeStep
<1> QED
  BY <1>2, <1>3, <1>4, <1>5 DEF ConsumerNext

LEMMA EdgeStepKeepsMoves ==
  ASSUME Frame, EInv, OnlyMovesDehydrate, EdgeStep
  PROVE  OnlyMovesDehydrate'
<1> SUFFICES ASSUME NEW i \in Ids', statusById'[i].state = "DEHYDRATING"
             PROVE  opsById'[i].type = "MOVE"
  BY DEF OnlyMovesDehydrate, StateOf
<1>1. i \in Ids /\ opsById'[i] = opsById[i]
  BY DEF Frame, IdsGrow, OpsKept
<1>2. opsById[i].type \in {"COPY", "MOVE"}
  BY <1>1 DEF EInv, StoreInv, IInv, TypeOK, Op
<1>3. CASE statusById'[i].state = StateOf(i)
  BY <1>1, <1>3 DEF OnlyMovesDehydrate
<1>4. CASE Advances(i)
  <2>1. <<StateOf(i), "DEHYDRATING">> \in Movement!Edges(opsById[i].type)
    BY <1>4 DEF Advances
  <2>2. opsById[i].type # "COPY"
    BY <2>1 DEF Movement!Edges
  <2> QED
    BY <1>1, <1>2, <2>2
<1> QED
  BY <1>1, <1>3, <1>4 DEF EdgeStep, StatesKept, StateOf, Advances

\* The invariant of the engine, and of the types of its operations.
EngineInv == EInv /\ OnlyMovesDehydrate

LEMMA ConsumerStepKeepsEngineInv == EngineInv /\ [ConsumerNext]_vars => EngineInv' /\ EdgeStep
<1> SUFFICES ASSUME EngineInv, [ConsumerNext]_vars PROVE EngineInv' /\ EdgeStep
  OBVIOUS
<1>1. EInv' /\ Frame /\ EdgeStep
  BY ConsumerStepKeepsEInv, ConsumerStepIsEdgeStep, StoreStepFrame DEF EngineInv, EInv
<1> QED
  BY <1>1, EdgeStepKeepsMoves DEF EngineInv

THEOREM EngineCorrect == ConsumerSpec => []EngineInv
<1>1. ConsumerInit => EngineInv
  BY InitEInv DEF EngineInv, OnlyMovesDehydrate, ConsumerInit, StoreInit, Init, Ids
<1> QED
  BY <1>1, ConsumerStepKeepsEngineInv, PTL DEF ConsumerSpec

EdgesKept ==
  \A i \in Ids \cap Ids' :
    StateOf(i)' # StateOf(i) => <<StateOf(i), StateOf(i)'>> \in Movement!Edges(opsById[i].type)

LEMMA EdgeStepKeepsEdges == EdgeStep => EdgesKept
  BY DEF EdgeStep, EdgesKept, Advances, StatesKept, StateOf

\* Whatever messages are stale and workers late, the states of an operation
\* follow the edges of its type.
THEOREM EdgesFollowed == ConsumerSpec => StatesFollowEdges
<1>1. EngineInv /\ [ConsumerNext]_vars => [EdgesKept]_vars
  BY ConsumerStepKeepsEngineInv, EdgeStepKeepsEdges
<1>2. ConsumerSpec => [][EdgesKept]_vars
  BY <1>1, EngineCorrect, PTL DEF ConsumerSpec
<1> QED
  BY <1>2 DEF StatesFollowEdges, EdgesKept

----------------------------------------------------------------------------
(* The engine implements ReplicaMovement *)

\* The kinds of steps of ReplicaMovement, without what it says of `departing`.
MoveStep ==
  \/ \E i \in Ids' : Movement!Register(i)
  \/ \E i \in Ids, stage \in States : Movement!Advance(i, stage)
  \/ \E I \in SUBSET Ids : Movement!Forget(I)
  \/ \E i \in Ids : Movement!Place(i)
  \/ \E r \in Departing : Movement!Drop(r[1], r[2])
  \/ \E S \in SUBSET Shards : Movement!DeleteShards(S)

DepartingStep == Departing' \subseteq Departing \cup (Movement!Dehydrating)'

LEMMA MoveStepIsMovement == MoveStep /\ DepartingStep => Movement!MovementNext
  BY DEF MoveStep, DepartingStep, Movement!MovementNext, States, Movement!Stages

LEMMA StagedKept ==
  ASSUME Frame, NEW i \in Ids, i \in Ids', statusById'[i].state = StateOf(i)
  PROVE  Staged(i)' = Staged(i)
  BY DEF Staged, Frame, OpsKept, StateOf

\* Commands that neither register, nor change a state, nor touch a replica set.
LEMMA QuietIsForget ==
  ASSUME Frame, StatesKept({}), Ids' \subseteq Ids, replicas' = replicas
  PROVE  MoveStep
<1> DEFINE I == Ids \ Ids'
<1>1. \A i \in Ids' : Staged(i)' = Staged(i)
  BY StagedKept DEF StatesKept, StateOf
<1>2. [i \in Ids' |-> Staged(i)'] = [i \in Ids \ I |-> [j \in Ids |-> Staged(j)][i]]
  BY <1>1
<1>3. Movement!Forget(I)
  BY <1>2 DEF Movement!Forget
<1>4. I \in SUBSET Ids
  OBVIOUS
<1> QED
  BY <1>3, <1>4 DEF MoveStep

LEMMA AdvanceIsAdvance ==
  ASSUME EInv, Frame, NEW i, Advances(i), Ids' = Ids, replicas' = replicas
  PROVE  MoveStep
<1>1. i \in Ids /\ statusById'[i].state \in States
  BY DEF Advances, Frame, StoreInv, IInv, TypeOK, Status
<1>2. \A j \in Ids : j # i => Staged(j)' = Staged(j)
  BY StagedKept DEF Advances, StatesKept, StateOf
<1>3. Staged(i)' = [Staged(i) EXCEPT !.stage = statusById'[i].state]
  BY <1>1 DEF Staged, Frame, OpsKept, StateOf
<1>4. [j \in Ids' |-> Staged(j)']
        = [[j \in Ids |-> Staged(j)] EXCEPT ![i] = [Staged(i) EXCEPT !.stage = statusById'[i].state]]
  BY <1>1, <1>2, <1>3
<1>5. Staged(i).stage = StateOf(i) /\ Staged(i).type = opsById[i].type
  BY DEF Staged
<1>6. Movement!Advance(i, statusById'[i].state)
  BY <1>1, <1>4, <1>5 DEF Movement!Advance, Advances
<1> QED
  BY <1>1, <1>6 DEF MoveStep

LEMMA ReplicateIsRegister ==
  ASSUME EInv, Frame, NEW op \in Op, ReplicateReplica(op)
  PROVE  MoveStep
<1> DEFINE i == nextId
<1>1. /\ Ids' = Ids \cup {i} /\ i \notin Ids
      /\ opsById'[i] = op /\ statusById'[i].state = "REGISTERED"
      /\ statusById' = Put(statusById, i, NewShardReplicationStatus("REGISTERED"))
      /\ DOMAIN statusById = Ids
      /\ op.source \in replicas[op.shard] /\ op.target \notin replicas[op.shard]
      /\ replicas' = replicas
  BY DEF ReplicateReplica, Replicate, WriteOpIntoFSM, Put, NewShardReplicationStatus, Ids,
         EInv, StoreInv, IInv, TypeOK
<1>2. \A j \in Ids : statusById'[j].state = StateOf(j)
  BY <1>1 DEF Put, StateOf
<1>3. \A j \in Ids : Staged(j)' = Staged(j)
  BY <1>1, <1>2, StagedKept
<1>4. [j \in Ids' |-> Staged(j)'][i]
        = [source |-> op.source, target |-> op.target, shard |-> op.shard,
           type |-> op.type, stage |-> "REGISTERED"]
  BY <1>1 DEF Staged, StateOf
<1>5. \A j \in Ids : [k \in Ids' |-> Staged(k)'][j] = [k \in Ids |-> Staged(k)][j]
  BY <1>1, <1>3
<1> HIDE DEF i
<1>6. Movement!Register(i)
  BY <1>1, <1>4, <1>5 DEF Movement!Register
<1> QED
  BY <1>1, <1>6 DEF MoveStep

\* Collections and tenants: the operations stay, marked to be deleted.
LEMMA EmptyingIsDeleteShards ==
  ASSUME Frame, StatesKept({}), Ids' = Ids, NEW S \in SUBSET Shards,
         replicas' = [s \in Shards |-> IF s \in S THEN {} ELSE replicas[s]]
  PROVE  MoveStep
<1>1. \A j \in Ids : Staged(j)' = Staged(j)
  BY StagedKept DEF StatesKept, StateOf
<1>2. [j \in Ids' |-> Staged(j)'] = [j \in Ids |-> Staged(j)]
  BY <1>1
<1>3. Movement!DeleteShards(S)
  BY <1>2 DEF Movement!DeleteShards
<1> QED
  BY <1>3 DEF MoveStep

LEMMA UserStepMoves ==
  ASSUME EInv, UserStep
  PROVE  MoveStep
<1>1. StoreUserStep /\ StatesKept({}) /\ Frame
  BY UserKeepsStates, StoreStepFrame DEF UserStep, StoreNext, EInv, StoreInv
<1>2. CASE \E op \in Op : ReplicateReplica(op)
  BY <1>1, <1>2, ReplicateIsRegister
<1>3. CASE UserDeletesAll \/ \E id \in Ids : UserCancels(id) \/ UserDeletes(id)
  <2>1. Ids' \subseteq Ids /\ replicas' = replicas
    BY <1>3 DEF UserCancels, UserDeletes, UserDeletesAll, CancelReplication, DeleteReplication,
                DeleteAllReplications, ChangeStatus, Ids
  <2> QED
    BY <1>1, <2>1, QuietIsForget
<1>4. CASE UserForceDeletes
  <2>1. ASSUME NEW ids, RemoveOps(ids) PROVE Ids' \subseteq Ids
    BY <2>1 DEF RemoveOps, Without, Ids
  <2>2. Ids' \subseteq Ids /\ replicas' = replicas
    BY <1>4, <2>1 DEF UserForceDeletes, ForceDeleteByUuid, ForceDeleteByCollection,
       ForceDeleteByCollectionAndShard, ForceDeleteByTargetNode, ForceDeleteAll
  <2> QED
    BY <1>1, <2>2, QuietIsForget
<1>5. ASSUME NEW c \in Collections, DeleteClass(c) PROVE MoveStep
  <2> DEFINE S == {s \in Shards : CollectionOf[s] = c}
  <2>1. Ids' = Ids /\ replicas' = [s \in Shards |-> IF s \in S THEN {} ELSE replicas[s]]
    BY <1>5 DEF DeleteClass, DeleteReplicationsByCollection, ChangeStatus, Ids
  <2>2. S \in SUBSET Shards
    OBVIOUS
  <2> HIDE DEF S
  <2> QED
    BY <1>1, <2>1, <2>2, EmptyingIsDeleteShards
<1>6. ASSUME NEW tenants \in SUBSET Shards, DeleteTenants(tenants) PROVE MoveStep
  <2>1. Ids' = Ids /\ replicas' = [s \in Shards |-> IF s \in tenants THEN {} ELSE replicas[s]]
    BY <1>6 DEF DeleteTenants, DeleteReplicationsByTenants, ChangeStatus, Ids
  <2> QED
    BY <1>1, <2>1, EmptyingIsDeleteShards
<1> QED
  BY <1>1, <1>2, <1>3, <1>4, <1>5, <1>6 DEF StoreUserStep

\* A worker that adds a replica adds that of its operation, which is FINALIZING
\* at the leader as well.
LEMMA AddReplicaMoves ==
  ASSUME EInv, Frame, NEW n \in Engines, NEW t \in Tokens, AddReplica(n, t)
  PROVE  MoveStep
<1> DEFINE w == Worker(n, t)
<1>1. /\ At(n, t, "add") /\ w.pc = "add" /\ w.status.state = "FINALIZING"
      /\ w.id \in Ids => w.op = opsById[w.id] /\ StateOf(w.id) = w.status.state
  BY StateAt, AtIsBusy DEF AddReplica, PcStates, Worker, WorkerKnows
<1>2. CASE UNCHANGED storeVars
  BY <1>2, UnchangedFrame, QuietIsForget DEF storeVars, fsmVars, Ids
<1>3. ASSUME NEW outcome \in {"ok", "exists", "error"},
             ReplicationAddReplicaToShard(w.id, w.op, outcome), ~UNCHANGED storeVars
      PROVE  MoveStep
  <2>1. w.id \in Ids /\ SetUnCancellable(w.id) /\ Ids' = Ids
    BY <1>3 DEF ReplicationAddReplicaToShard, SetUnCancellable, ChangeStatus, Ids
  <2>2. StatesKept({})
    BY <1>3, AddReplicaKeepsStates DEF EInv, StoreInv
  <2>3. CASE replicas' = replicas
    BY <2>1, <2>2, <2>3, QuietIsForget
  <2>4. CASE replicas' # replicas
    <3>1. /\ replicas[w.op.shard] # {}
          /\ replicas' = [replicas EXCEPT ![w.op.shard] = @ \cup {w.op.target}]
      BY <1>3, <2>1, <2>4 DEF ReplicationAddReplicaToShard, ShardExists
    <3>2. \A j \in Ids : Staged(j)' = Staged(j)
      BY <2>1, <2>2, StagedKept DEF StatesKept, StateOf
    <3>3. [j \in Ids' |-> Staged(j)'] = [j \in Ids |-> Staged(j)]
      BY <2>1, <3>2
    <3> DEFINE i == w.id
    <3>4. /\ i \in Ids /\ w.op = opsById[i] /\ StateOf(i) = "FINALIZING"
      BY <1>1, <2>1
    <3>5. /\ Staged(i).stage = "FINALIZING" /\ Staged(i).shard = w.op.shard
          /\ Staged(i).target = w.op.target
      BY <3>4 DEF Staged
    <3> HIDE DEF i, w
    <3>6. Movement!Place(i)
      BY <3>1, <3>3, <3>4, <3>5 DEF Movement!Place
    <3> QED
      BY <3>4, <3>6 DEF MoveStep
  <2> QED
    BY <2>3, <2>4
<1> QED
  BY <1>2, <1>3 DEF AddReplica, LostCall

\* A worker that drops a replica takes its operation to be DEHYDRATING.
LEMMA DropReplicaMoves ==
  ASSUME EInv, Frame, NEW n \in Engines, NEW t \in Tokens, DropReplica(n, t)
  PROVE  MoveStep
<1> DEFINE w == Worker(n, t)
           r == <<w.op.source, w.op.shard>>
<1>1. /\ At(n, t, "drop") /\ w.status.state = "DEHYDRATING" /\ w.op \in Op
      /\ t \in Busy(n) /\ w = workers[n][t]
  BY StateAt, AtIsBusy DEF DropReplica, PcStates, Worker, Workers
<1>2. CASE UNCHANGED storeVars
  BY <1>2, UnchangedFrame, QuietIsForget DEF storeVars, fsmVars, Ids
<1>3. ASSUME NEW outcome \in {"ok", "error"},
             DeleteReplicaFromShard(w.op.shard, w.op.source, outcome), ~UNCHANGED storeVars
      PROVE  MoveStep
  <2>1. /\ UNCHANGED fsmVars
        /\ ~(Cardinality(replicas[w.op.shard]) <= ReplicationFactor)
        /\ replicas' = [replicas EXCEPT ![w.op.shard] = @ \ {w.op.source}]
    BY <1>3 DEF DeleteReplicaFromShard, storeVars
  <2>2. Cardinality(replicas[w.op.shard]) > ReplicationFactor
    <3>1. w.op.shard \in Shards /\ IsFiniteSet(replicas[w.op.shard])
      BY <1>1 DEF Op, EInv, StoreInv, ReplicasFinite
    <3>2. Cardinality(replicas[w.op.shard]) \in Nat /\ ReplicationFactor \in Nat
      BY <3>1, FS_CardinalityType, StoreAssumption DEF StoreAssumption
    <3> QED
      BY <2>1, <3>2
  <2>3. r \in Departing
    BY <1>1 DEF Departing
  <2>4. [j \in Ids' |-> Staged(j)'] = [j \in Ids |-> Staged(j)]
    BY <2>1 DEF fsmVars, Ids, Staged, StateOf
  <2>5. r[1] = w.op.source /\ r[2] = w.op.shard
    OBVIOUS
  <2> HIDE DEF r, w
  <2>6. Movement!Drop(r[1], r[2])
    BY <2>1, <2>2, <2>3, <2>4, <2>5 DEF Movement!Drop, r, Movement!Cardinality, Cardinality
  <2> QED
    BY <2>3, <2>6 DEF MoveStep
<1> QED
  BY <1>2, <1>3 DEF DropReplica, LostCall

LEMMA UnchangedMoves ==
  ASSUME EInv, UNCHANGED storeVars
  PROVE  MoveStep
  BY UnchangedFrame, QuietIsForget DEF storeVars, fsmVars, Ids

LEMMA RemoveOpMoves ==
  ASSUME EInv, Frame, NEW id, NEW outcome, RemoveReplicaOp(id, outcome)
  PROVE  MoveStep
<1>1. CASE UNCHANGED storeVars
  BY <1>1, UnchangedMoves
<1>2. CASE id \in Ids /\ RemoveReplicationOp(id) /\ UNCHANGED replicas
  <2>1. Ids' \subseteq Ids
    BY <1>2 DEF RemoveReplicationOp, RemoveOps, Without, Ids
  <2> QED
    BY <1>2, <2>1, RemoveOpKeepsStates, QuietIsForget DEF EInv, StoreInv
<1> QED
  BY <1>1, <1>2 DEF RemoveReplicaOp

LEMMA RegisterErrorMoves ==
  ASSUME EInv, Frame, NEW id, ManagerRegisterError(id)
  PROVE  MoveStep
<1>1. Ids' \subseteq Ids /\ replicas' = replicas
  BY DEF ManagerRegisterError, RegisterError, CancelReplication, ChangeStatus, fsmVars, Ids
<1> QED
  BY <1>1, RegisterErrorKeepsStates, QuietIsForget DEF EInv, StoreInv

LEMMA CancellationMoves ==
  ASSUME EInv, Frame, NEW id, CompleteCancellationOf(id)
  PROVE  MoveStep
<1>1. Ids' = Ids /\ replicas' = replicas
  BY DEF CompleteCancellationOf, CancellationComplete, ChangeStatus, Ids, storeVars, fsmVars
<1>2. EdgeStep
  BY CancellationAdvances
<1> QED
  BY <1>1, <1>2, QuietIsForget, AdvanceIsAdvance DEF EdgeStep

LEMMA UpdateMoves ==
  ASSUME EInv, Frame, OnlyMovesDehydrate, NEW n \in Engines, NEW t \in Tokens,
         At(n, t, "update"), NEW outcome,
         UpdateReplicateOpState(Worker(n, t).id, NextState(Worker(n, t)), outcome)
  PROVE  MoveStep
<1>1. CASE UNCHANGED storeVars
  BY <1>1, UnchangedMoves
<1>2. CASE UpdateReplicateOpState(Worker(n, t).id, NextState(Worker(n, t)), "ok")
  <2>1. Ids' = Ids /\ replicas' = replicas
    BY <1>2 DEF UpdateReplicateOpState, UpdateReplicationOpStatus, ChangeStatus, Ids
  <2> QED
    BY <1>2, <2>1, UpdateAdvances, AdvanceIsAdvance
<1> QED
  BY <1>1, <1>2 DEF UpdateReplicateOpState

LEMMA WorkerStepMoves ==
  ASSUME EInv, Frame, OnlyMovesDehydrate, NEW n \in Engines, NEW t \in Tokens,
         WorkerStep(n, t) \/ External(n, t)
  PROVE  MoveStep
<1>1. CASE Start(n, t) \/ Handle(n, t) \/ HandleReady(n, t) \/ Leave(n, t) \/ Sync(n, t)
           \/ External(n, t)
  BY <1>1, UnchangedMoves DEF Start, Handle, HandleReady, Leave, Sync, LostCall, External,
     CopyReplicaFiles, WaitForAsyncReplication, ExternalFails
<1>2. CASE Activate(n, t)
  <2>1. ASSUME NEW v, StoreSchemaVersion(Worker(n, t).id, v), UNCHANGED replicas
        PROVE  MoveStep
    <3>1. Ids' = Ids
      BY <2>1 DEF StoreSchemaVersion, ChangeStatus, Ids
    <3> QED
      BY <2>1, <3>1, SchemaVersionKeepsStates, QuietIsForget DEF EInv, StoreInv
  <2> QED
    BY <1>2, <2>1, UnchangedMoves DEF Activate
<1>3. CASE AddReplica(n, t) \/ DropReplica(n, t)
  BY <1>3, AddReplicaMoves, DropReplicaMoves
<1>4. CASE Remove(n, t)
  BY <1>4, UnchangedMoves, RemoveOpMoves DEF Remove, LostCall
<1>5. CASE RegisterErrorAndFail(n, t)
  BY <1>5, UnchangedMoves, RegisterErrorMoves DEF RegisterErrorAndFail
<1>6. CASE CancelOp(n, t)
  BY <1>6, UnchangedMoves, CancellationMoves, RemoveOpMoves DEF CancelOp
<1>7. CASE UpdateStatus(n, t) \/ UpdateStatusFails(n, t)
  BY <1>7, UnchangedMoves, UpdateMoves DEF UpdateStatus, UpdateStatusFails
<1> QED
  BY <1>1, <1>2, <1>3, <1>4, <1>5, <1>6, <1>7 DEF WorkerStep

LEMMA ConsumerStepMoves ==
  ASSUME EngineInv, [ConsumerNext]_vars
  PROVE  MoveStep
<1>1. EInv /\ OnlyMovesDehydrate /\ Frame
  BY ConsumerStepKeepsEInv, StoreStepFrame DEF EngineInv, EInv
<1>2. CASE UserStep
  BY <1>1, <1>2, UserStepMoves
<1>3. ASSUME NEW n \in Engines,
             \/ MainLoop(n) \/ CatchUp(n) \/ Restart(n)
             \/ \E id \in Ids : Produce(n, id)
             \/ \E id \in backoff[n] : BackoffExpires(n, id)
      PROVE  MoveStep
  BY <1>1, <1>3, UnchangedMoves DEF MainLoop, Receive, TakeToken, CheckLeader, CatchUp, Restart,
     Produce, BackoffExpires
<1>4. ASSUME NEW n \in Engines, NEW t \in Tokens, WorkerStep(n, t) \/ External(n, t)
      PROVE  MoveStep
  BY <1>1, <1>4, WorkerStepMoves
<1>5. CASE UNCHANGED vars
  BY <1>1, <1>5, UnchangedMoves DEF vars
<1> QED
  BY <1>2, <1>3, <1>4, <1>5 DEF ConsumerNext

\* w, a worker after the step, has the operation and the state of the leader.
Rightly(w) ==
  w.id \in Ids' /\ w.op = opsById'[w.id] /\ statusById'[w.id].state = w.status.state

\* v, a worker after the step, is w with another pc; one that is past its
\* handlers does not go back to them.
Ended(w) == w.pc \in {"cancel", "leave"}
Follows(v, w) ==
  /\ v.id = w.id /\ v.op = w.op /\ v.status = w.status
  /\ Ended(w) => Ended(v)

\* After a step every worker has the operation and the status it had, or those
\* of the leader.
WorkersShift ==
  \A m \in Engines : \A u \in Tokens : workers'[m][u] # Idle =>
    \/ u \in Busy(m) /\ Follows(workers'[m][u], workers[m][u])
    \/ Rightly(workers'[m][u])

LEMMA ShiftDeparts == WorkersShift => DepartingStep
<1> SUFFICES ASSUME WorkersShift, NEW r \in Departing'
             PROVE  r \in Departing \/ r \in (Movement!Dehydrating)'
  BY DEF DepartingStep
<1>1. ASSUME NEW i \in Ids', statusById'[i].state = "DEHYDRATING"
      PROVE  <<opsById'[i].source, opsById'[i].shard>> \in (Movement!Dehydrating)'
  BY <1>1 DEF Movement!Dehydrating, Staged, StateOf
<1>2. CASE \E i \in Ids' : /\ statusById'[i].state = "DEHYDRATING"
                           /\ r = <<opsById'[i].source, opsById'[i].shard>>
  BY <1>1, <1>2
<1>3. ASSUME NEW m \in Engines, NEW u \in Tokens, workers'[m][u] # Idle,
             workers'[m][u].status.state = "DEHYDRATING",
             r = <<workers'[m][u].op.source, workers'[m][u].op.shard>>
      PROVE  r \in Departing \/ r \in (Movement!Dehydrating)'
  <2>1. CASE Rightly(workers'[m][u])
    BY <1>1, <1>3, <2>1 DEF Rightly
  <2>2. CASE u \in Busy(m) /\ Follows(workers'[m][u], workers[m][u])
    BY <1>3, <2>2 DEF Departing, Follows
  <2> QED
    BY <1>3, <2>1, <2>2 DEF WorkersShift
<1> QED
  BY <1>2, <1>3 DEF Departing, Busy, StateOf

LEMMA StandingShift == workers' = workers => WorkersShift
  BY DEF WorkersShift, Busy, Follows, Ended

\* One worker steps: it ends, keeps its operation and status, or has the leader's.
LEMMA OneShifts ==
  ASSUME EInv, NEW n \in Engines, NEW t \in Tokens, NEW v,
         workers' = [workers EXCEPT ![n][t] = v],
         \/ v = Idle
         \/ t \in Busy(n) /\ Follows(v, workers[n][t])
         \/ Rightly(v)
  PROVE  WorkersShift
<1>1. workers \in [Engines -> [Tokens -> {Idle} \cup Workers]]
  BY DEF EInv, ETypes
<1>2. \A m \in Engines, u \in Tokens :
        workers'[m][u] = IF m = n /\ u = t THEN v ELSE workers[m][u]
  BY <1>1
<1> SUFFICES ASSUME NEW m \in Engines, NEW u \in Tokens, workers'[m][u] # Idle
             PROVE  \/ u \in Busy(m) /\ Follows(workers'[m][u], workers[m][u])
                    \/ Rightly(workers'[m][u])
  BY DEF WorkersShift
<1>3. CASE m = n /\ u = t
  <2>1. workers'[m][u] = v /\ v # Idle
    BY <1>2, <1>3
  <2> QED
    BY <1>3, <2>1
<1>4. CASE m # n \/ u # t
  <2>1. workers'[m][u] = workers[m][u]
    BY <1>2, <1>4
  <2> QED
    BY <2>1 DEF Busy, Follows, Ended
<1> QED
  BY <1>3, <1>4

LEMMA ProceedShifts ==
  ASSUME EInv, NEW n \in Engines, NEW t \in Tokens, NEW from, from \notin {"idle", "cancel", "leave"},
         At(n, t, from), NEW pc, Proceed(n, t, pc)
  PROVE  WorkersShift
<1> DEFINE v == [workers[n][t] EXCEPT !.pc = IF Stopped(n, t) THEN "cancel" ELSE pc]
<1>1. t \in Busy(n) /\ workers[n][t] \in Workers /\ workers[n][t].pc = from
  BY AtIsBusy
<1>2. Follows(v, workers[n][t])
  BY <1>1 DEF Workers, Follows, Ended
<1>3. workers' = [workers EXCEPT ![n][t] = v]
  BY DEF Proceed, Advance, Worker
<1> HIDE DEF v
<1> QED
  BY <1>1, <1>2, <1>3, OneShifts

LEMMA ExitShifts ==
  ASSUME EInv, NEW n \in Engines, NEW t \in Tokens, NEW newBackoff, Exit(n, t, newBackoff)
  PROVE  WorkersShift
<1>1. workers' = [workers EXCEPT ![n][t] = Idle]
  BY DEF Exit
<1> QED
  BY <1>1, OneShifts

\* A worker goes to another pc, in whatever way that is written.
LEMMA PcShifts ==
  ASSUME EInv, NEW n \in Engines, NEW t \in Tokens, NEW from, from # "idle", At(n, t, from), NEW pc,
         from \in {"cancel", "leave"} => pc \in {"cancel", "leave"},
         workers' = [workers EXCEPT ![n][t].pc = pc]
  PROVE  WorkersShift
<1> DEFINE v == [workers[n][t] EXCEPT !.pc = pc]
<1>1. t \in Busy(n) /\ workers[n][t] \in Workers /\ workers[n][t].pc = from
  BY AtIsBusy
<1>2. Follows(v, workers[n][t])
  BY <1>1 DEF Workers, Follows, Ended
<1>3. workers' = [workers EXCEPT ![n][t] = v]
  BY DEF EInv, ETypes
<1> HIDE DEF v
<1> QED
  BY <1>1, <1>2, <1>3, OneShifts

LEMMA HandleShifts ==
  ASSUME EInv, NEW n \in Engines, NEW t \in Tokens, Handle(n, t)
  PROVE  WorkersShift
<1> DEFINE w == Worker(n, t)
           here == view[n].replicas[w.op.shard]
           x == [w EXCEPT !.skip = AlreadyDone(w, here)]
           v == [x EXCEPT !.pc = IF Stopped(n, t) THEN "cancel" ELSE FirstStep(w, here)]
<1>1. t \in Busy(n) /\ w \in Workers /\ w = workers[n][t] /\ w.pc = "handle"
  BY AtIsBusy DEF Handle, Worker
<1>2. Follows(v, workers[n][t])
  BY <1>1 DEF Workers, Follows, Ended
<1>3. workers' = [workers EXCEPT ![n][t] = v]
  BY DEF Handle, Advance
<1> HIDE DEF v
<1> QED
  BY <1>1, <1>2, <1>3, OneShifts

LEMMA UpdateStatusShifts ==
  ASSUME EInv, Frame, NEW n \in Engines, NEW t \in Tokens, UpdateStatus(n, t)
  PROVE  WorkersShift
<1> DEFINE w == Worker(n, t)
           next == NextState(w)
           x == [w EXCEPT !.status.state = next]
           v == [x EXCEPT !.pc = IF Stopped(n, t) THEN "cancel" ELSE "handle"]
<1>1. w \in Workers /\ w = workers[n][t]
  BY AtIsBusy DEF UpdateStatus, Worker
<1>2. CASE Succeed(n, t)
  BY <1>2, ExitShifts DEF Succeed
<1>3. CASE Advance(n, t, x, "handle")
  <2>1. w.id \in Ids /\ w.id \in Ids' /\ statusById'[w.id].state = next
    BY UpdateSetsState DEF UpdateStatus, EInv, StoreInv
  <2>2. w.op = opsById[w.id] /\ opsById'[w.id] = opsById[w.id]
    BY <2>1, AtIsBusy DEF UpdateStatus, Worker, WorkerKnows, Frame, OpsKept
  <2>3. v.id = w.id /\ v.op = w.op /\ v.status.state = next
    BY <1>1 DEF Workers, Briefs
  <2>4. Rightly(v)
    BY <2>1, <2>2, <2>3 DEF Rightly
  <2>5. workers' = [workers EXCEPT ![n][t] = v]
    BY <1>3 DEF Advance
  <2> HIDE DEF v
  <2> QED
    BY <2>4, <2>5, OneShifts
<1> QED
  BY <1>2, <1>3 DEF UpdateStatus

LEMMA WorkerStepShifts ==
  ASSUME EInv, Frame, NEW n \in Engines, NEW t \in Tokens, WorkerStep(n, t) \/ External(n, t)
  PROVE  WorkersShift
<1>1. CASE Start(n, t)
  <2> DEFINE pc == IF Stopped(n, t) THEN "cancel" ELSE "handle"
  <2>1. At(n, t, "start") /\ workers' = [workers EXCEPT ![n][t].pc = pc]
    BY <1>1 DEF Start
  <2>2. "start" \in {"cancel", "leave"} => pc \in {"cancel", "leave"}
    OBVIOUS
  <2> HIDE DEF pc
  <2> QED
    BY <2>1, <2>2, PcShifts
<1>2. CASE CancelOp(n, t)
  <2>1. At(n, t, "cancel") /\ workers' = [workers EXCEPT ![n][t].pc = "leave"]
    BY <1>2 DEF CancelOp
  <2> QED
    BY <2>1, PcShifts
<1>3. CASE Handle(n, t) \/ UpdateStatus(n, t)
  BY <1>3, HandleShifts, UpdateStatusShifts
<1>4. CASE HandleReady(n, t) \/ RegisterErrorAndFail(n, t) \/ Leave(n, t)
  BY <1>4, ExitShifts DEF HandleReady, RegisterErrorAndFail, Leave, Succeed, Fail
<1>5. CASE UpdateStatusFails(n, t)
  BY <1>5, ExitShifts, ProceedShifts DEF UpdateStatusFails, Fail
<1>6. CASE Activate(n, t)
  BY <1>6, ProceedShifts DEF Activate
<1>7. CASE AddReplica(n, t)
  BY <1>7, ProceedShifts DEF AddReplica, LostCall
<1>8. CASE DropReplica(n, t) \/ Sync(n, t) \/ Remove(n, t)
  BY <1>8, ProceedShifts DEF DropReplica, Sync, Remove, LostCall
<1>9. CASE External(n, t)
  BY <1>9, ProceedShifts DEF External, CopyReplicaFiles, WaitForAsyncReplication, ExternalFails
<1> QED
  BY <1>1, <1>2, <1>3, <1>4, <1>5, <1>6, <1>7, <1>8, <1>9 DEF WorkerStep

LEMMA CheckLeaderShifts ==
  ASSUME EInv, NEW n \in Engines, CheckLeader(n)
  PROVE  WorkersShift
<1> DEFINE msg == main[n].msg
           free == CHOOSE t \in Tokens : t \notin Busy(n)
           w == NewWorker(msg)
<1>1. UNCHANGED storeVars /\ main[n].pc = "check"
  BY DEF CheckLeader
<1>2. CASE workers' = workers
  BY <1>2, StandingShift
<1>3. CASE /\ msg.id \in Ids /\ StateOf(msg.id) = msg.status.state
           /\ workers' = [workers EXCEPT ![n][free] = w]
  <2>1. free \in Tokens
    <3>1. \E t \in Tokens : t \notin Busy(n)
      BY <1>1 DEF EInv, EClaims, Busy
    <3> QED
      BY <3>1
  <2>2. w.id = msg.id /\ w.op = opsById[msg.id] /\ w.status = msg.status
    BY DEF NewWorker
  <2>3. Rightly(w)
    BY <1>1, <1>3, <2>2 DEF Rightly, storeVars, fsmVars, Ids, StateOf
  <2> HIDE DEF w, free
  <2> QED
    BY <1>3, <2>1, <2>3, OneShifts
<1> QED
  BY <1>2, <1>3 DEF CheckLeader

LEMMA RestartShifts ==
  ASSUME EInv, NEW n \in Engines, Restart(n)
  PROVE  WorkersShift
<1>1. \A m \in Engines : \A u \in Tokens : workers'[m][u] # Idle =>
        workers'[m][u] = workers[m][u]
  BY DEF Restart, EInv, ETypes
<1> QED
  BY <1>1 DEF WorkersShift, Busy, Follows, Ended

LEMMA ConsumerStepDeparts ==
  ASSUME EngineInv, [ConsumerNext]_vars
  PROVE  DepartingStep
<1>1. EInv /\ Frame
  BY ConsumerStepKeepsEInv, StoreStepFrame DEF EngineInv, EInv
<1>2. CASE UserStep \/ UNCHANGED vars
  BY <1>2, StandingShift, ShiftDeparts DEF UserStep, vars, localVars
<1>3. ASSUME NEW n \in Engines, MainLoop(n) \/ Restart(n) PROVE DepartingStep
  BY <1>1, <1>3, StandingShift, CheckLeaderShifts, RestartShifts, ShiftDeparts
  DEF MainLoop, Receive, TakeToken
<1>4. ASSUME NEW n \in Engines,
             \/ CatchUp(n)
             \/ \E id \in Ids : Produce(n, id)
             \/ \E id \in backoff[n] : BackoffExpires(n, id)
      PROVE  DepartingStep
  BY <1>4, StandingShift, ShiftDeparts DEF CatchUp, Produce, BackoffExpires, localVars
<1>5. ASSUME NEW n \in Engines, NEW t \in Tokens, WorkerStep(n, t) \/ External(n, t)
      PROVE  DepartingStep
  BY <1>1, <1>5, WorkerStepShifts, ShiftDeparts
<1> QED
  BY <1>2, <1>3, <1>4, <1>5 DEF ConsumerNext

\* The engine of messages, workers, failures and restarts implements the
\* movement of replicas of ReplicaMovement.
THEOREM EngineMovesReplicas == ConsumerSpec => MovesReplicas
<1>1. ConsumerInit => Movement!MovementInit
  <2> SUFFICES ASSUME ConsumerInit PROVE Movement!MovementInit
    OBVIOUS
  <2>1. Ids = {} /\ replicas = InitialReplicas /\ \A n \in Engines : Busy(n) = {}
    BY DEF ConsumerInit, StoreInit, Init, Ids, Busy
  <2>2. Departing = {}
    BY <2>1 DEF Departing
  <2> QED
    BY <2>1, <2>2 DEF Movement!MovementInit
<1>2. EngineInv /\ [ConsumerNext]_vars => [Movement!MovementNext]_(Movement!movementVars)
  BY ConsumerStepMoves, ConsumerStepDeparts, MoveStepIsMovement
<1> QED
  BY <1>1, <1>2, EngineCorrect, PTL DEF ConsumerSpec, MovesReplicas, Movement!MovementSpec

----------------------------------------------------------------------------
(* Workers whose operation stays: nobody removes an operation by force *)

\* No operation is removed by force.  Force-deleting removes operations from the
\* state machine and leaves their workers at what they were doing.
NoForcedRemoval == "forceDelete" \notin UserCommands

\* A worker that may still work for an operation has it at the leader, too; the
\* exception is one that removes its operation because it was CANCELLED.
HasOp(w) == Ended(w) \/ w.status.state = "CANCELLED" \/ w.id \in Ids
HasOpNext(w) == Ended(w) \/ w.status.state = "CANCELLED" \/ w.id \in Ids'
WorkersHaveOps == \A n \in Engines : \A t \in Busy(n) : HasOp(workers[n][t])

LEMMA ShiftKeepsOps ==
  ASSUME EInv, WorkersHaveOps, WorkersShift,
         \A n \in Engines : \A t \in Busy(n) :
           \/ Ended(workers'[n][t]) \/ workers'[n][t].status.state = "CANCELLED"
           \/ workers[n][t].id \in Ids => workers[n][t].id \in Ids'
  PROVE  WorkersHaveOps'
<1> SUFFICES ASSUME NEW m \in Engines, NEW u \in Tokens, workers'[m][u] # Idle
             PROVE  HasOpNext(workers'[m][u])
  BY DEF WorkersHaveOps, Busy, HasOp, HasOpNext, Ended
<1> DEFINE w == workers[m][u]
           v == workers'[m][u]
<1>1. CASE Rightly(v)
  BY <1>1 DEF Rightly, HasOpNext
<1>2. CASE u \in Busy(m) /\ Follows(v, w)
  BY <1>2 DEF Follows, HasOp, HasOpNext, WorkersHaveOps
<1> QED
  BY <1>1, <1>2 DEF WorkersShift

\* The worker that removes its operation stops working for it.
LEMMA RemovalKeepsOps ==
  ASSUME EInv, WorkersHaveOps, WorkersShift, NEW n \in Engines, NEW t \in Busy(n),
         \A i \in Ids : i # workers[n][t].id => i \in Ids',
         Ended(workers'[n][t]) \/ workers'[n][t].status.state = "CANCELLED"
  PROVE  WorkersHaveOps'
<1>1. ASSUME NEW m \in Engines, NEW u \in Busy(m), workers[m][u].id \in Ids, ~(m = n /\ u = t)
      PROVE  workers[m][u].id \in Ids'
  <2>1. workers[m][u].id # workers[n][t].id
    BY <1>1, OneWorkerAnywhere
  <2> QED
    BY <1>1, <2>1
<1> QED
  BY <1>1, ShiftKeepsOps

LEMMA StayingKeepsOps ==
  ASSUME EInv, WorkersHaveOps, WorkersShift, Ids \subseteq Ids'
  PROVE  WorkersHaveOps'
  BY ShiftKeepsOps

LEMMA RemoveReplicaOpRemoves ==
  ASSUME NEW id, NEW outcome, RemoveReplicaOp(id, outcome)
  PROVE  \A i \in Ids : i # id => i \in Ids'
  BY DEF RemoveReplicaOp, RemoveReplicationOp, RemoveOps, Without, Ids, storeVars, fsmVars

LEMMA SameOpsStay ==
  ASSUME UNCHANGED storeVars
  PROVE  Ids' = Ids
  BY DEF storeVars, fsmVars, Ids

\* Only two steps of a worker remove operations.
LEMMA WorkerStepKeepsIds ==
  ASSUME NEW n \in Engines, NEW t \in Tokens, WorkerStep(n, t) \/ External(n, t),
         ~Remove(n, t), ~CancelOp(n, t)
  PROVE  Ids \subseteq Ids'
<1>1. CASE \/ Start(n, t) \/ Handle(n, t) \/ HandleReady(n, t) \/ Leave(n, t) \/ Sync(n, t)
           \/ External(n, t)
  BY <1>1, SameOpsStay DEF Start, Handle, HandleReady, Leave, Sync, LostCall, External,
     CopyReplicaFiles, WaitForAsyncReplication, ExternalFails
<1>2. CASE Activate(n, t) \/ RegisterErrorAndFail(n, t)
  BY <1>2, SameOpsStay DEF Activate, StoreSchemaVersion, RegisterErrorAndFail, ManagerRegisterError,
     RegisterError, CancelReplication, ChangeStatus, Ids, fsmVars
<1>3. CASE AddReplica(n, t) \/ DropReplica(n, t)
  BY <1>3, SameOpsStay DEF AddReplica, DropReplica, LostCall, ReplicationAddReplicaToShard,
     DeleteReplicaFromShard, SetUnCancellable, ChangeStatus, Ids, fsmVars
<1>4. CASE UpdateStatus(n, t) \/ UpdateStatusFails(n, t)
  BY <1>4, SameOpsStay DEF UpdateStatus, UpdateStatusFails, UpdateReplicateOpState,
     UpdateReplicationOpStatus, ChangeStatus, Ids
<1> QED
  BY <1>1, <1>2, <1>3, <1>4 DEF WorkerStep

LEMMA WorkerKeepsOps ==
  ASSUME EInv, Frame, WorkersHaveOps, NEW n \in Engines, NEW t \in Tokens,
         WorkerStep(n, t) \/ External(n, t)
  PROVE  WorkersHaveOps'
<1>1. WorkersShift
  BY WorkerStepShifts
<1>2. CASE Remove(n, t)
  <2>1. /\ At(n, t, "remove") /\ t \in Busy(n) /\ workers[n][t] \in Workers
        /\ workers[n][t].status.state = "CANCELLED"
    BY <1>2, AtIsBusy DEF Remove, WorkerKnows, PcStates
  <2>2. \A i \in Ids : i # workers[n][t].id => i \in Ids'
    BY <1>2, RemoveReplicaOpRemoves, SameOpsStay DEF Remove, LostCall, Worker
  <2>3. workers'[n][t].status.state = "CANCELLED"
    <3>1. PICK pc : workers' = [workers EXCEPT ![n][t] = [workers[n][t] EXCEPT !.pc = pc]]
      BY <1>2 DEF Remove, LostCall, Proceed, Advance, Worker
    <3>2. [workers[n][t] EXCEPT !.pc = pc].status = workers[n][t].status
      BY <2>1 DEF Workers
    <3>3. workers'[n][t] = [workers[n][t] EXCEPT !.pc = pc]
      BY <3>1 DEF EInv, ETypes
    <3> QED
      BY <2>1, <3>2, <3>3
  <2> QED
    BY <1>1, <2>1, <2>2, <2>3, RemovalKeepsOps
<1>3. CASE CancelOp(n, t)
  <2>1. t \in Busy(n) /\ workers[n][t] \in Workers
    BY <1>3, AtIsBusy DEF CancelOp
  <2>2. \A i \in Ids : i # workers[n][t].id => i \in Ids'
    <3>1. CASE CompleteCancellationOf(workers[n][t].id)
      BY <3>1, SameOpsStay DEF CompleteCancellationOf, CancellationComplete, ChangeStatus, Ids
    <3> QED
      BY <1>3, <3>1, RemoveReplicaOpRemoves, SameOpsStay DEF CancelOp, Worker
  <2>3. workers'[n][t].pc = "leave"
    <3>1. workers' = [workers EXCEPT ![n][t].pc = "leave"]
      BY <1>3 DEF CancelOp
    <3>2. [workers[n][t] EXCEPT !.pc = "leave"].pc = "leave"
      BY <2>1 DEF Workers
    <3> QED
      BY <3>1, <3>2 DEF EInv, ETypes
  <2> QED
    BY <1>1, <2>1, <2>2, <2>3, RemovalKeepsOps DEF Ended
<1>4. CASE ~Remove(n, t) /\ ~CancelOp(n, t)
  BY <1>1, <1>4, WorkerStepKeepsIds, StayingKeepsOps
<1> QED
  BY <1>2, <1>3, <1>4

LEMMA UserStepKeepsOps ==
  ASSUME EInv, NoForcedRemoval, WorkersHaveOps, UserStep
  PROVE  WorkersHaveOps'
<1>1. Ids \subseteq Ids'
  <2>1. StoreUserStep /\ ~("forceDelete" \in UserCommands)
    BY DEF UserStep, NoForcedRemoval
  <2>2. CASE \E op \in Op : ReplicateReplica(op)
    BY <2>2 DEF ReplicateReplica, Replicate, WriteOpIntoFSM, Put, Ids
  <2>3. CASE ~\E op \in Op : ReplicateReplica(op)
    BY <2>1, <2>3 DEF StoreUserStep, UserCancels, UserDeletes, UserDeletesAll, DeleteClass, DeleteTenants,
       CancelReplication, DeleteReplication, DeleteAllReplications, DeleteReplicationsByCollection,
       DeleteReplicationsByTenants, ChangeStatus, Ids
  <2> QED
    BY <2>2, <2>3
<1>2. WorkersShift
  BY StandingShift DEF UserStep, localVars
<1> QED
  BY <1>1, <1>2, StayingKeepsOps

LEMMA ConsumerStepKeepsOps ==
  ASSUME EngineInv, NoForcedRemoval, WorkersHaveOps, [ConsumerNext]_vars
  PROVE  WorkersHaveOps'
<1>1. EInv /\ Frame
  BY ConsumerStepKeepsEInv, StoreStepFrame DEF EngineInv, EInv
<1>2. ASSUME UNCHANGED storeVars, WorkersShift PROVE WorkersHaveOps'
  BY <1>1, <1>2, SameOpsStay, StayingKeepsOps
<1>3. CASE UserStep
  BY <1>1, <1>3, UserStepKeepsOps
<1>4. CASE UNCHANGED vars
  BY <1>2, <1>4, StandingShift DEF vars, localVars
<1>5. ASSUME NEW n \in Engines, MainLoop(n) \/ Restart(n) PROVE WorkersHaveOps'
  BY <1>1, <1>2, <1>5, StandingShift, CheckLeaderShifts, RestartShifts
  DEF MainLoop, Receive, TakeToken, CheckLeader, Restart
<1>6. ASSUME NEW n \in Engines,
             \/ CatchUp(n)
             \/ \E id \in Ids : Produce(n, id)
             \/ \E id \in backoff[n] : BackoffExpires(n, id)
      PROVE  WorkersHaveOps'
  BY <1>2, <1>6, StandingShift DEF CatchUp, Produce, BackoffExpires, localVars
<1>7. ASSUME NEW n \in Engines, NEW t \in Tokens, WorkerStep(n, t) \/ External(n, t)
      PROVE  WorkersHaveOps'
  BY <1>1, <1>7, WorkerKeepsOps
<1> QED
  BY <1>3, <1>4, <1>5, <1>6, <1>7 DEF ConsumerNext

----------------------------------------------------------------------------
(* The kinds of steps, with the operation that a replica is dropped for *)

RegisterStep == \E op \in Op : ReplicateReplica(op)

StandStep ==
  /\ Ids' \subseteq Ids /\ EdgeStep
  /\ \A s \in Shards : replicas'[s] = replicas[s] \/ replicas'[s] = {}

PlaceStep ==
  \E i \in Ids :
    /\ StateOf(i) = "FINALIZING" /\ ShardExists(opsById[i].shard) /\ Ids' = Ids /\ StatesKept({})
    /\ replicas' = [replicas EXCEPT ![opsById[i].shard] = @ \cup {opsById[i].target}]

DropStep ==
  \E i \in Ids :
    /\ StateOf(i) = "DEHYDRATING" /\ Ids' = Ids /\ StatesKept({})
    /\ replicas' = [replicas EXCEPT ![opsById[i].shard] = @ \ {opsById[i].source}]

LEMMA AddReplicaPlaces ==
  ASSUME EInv, EdgeStep, NEW n \in Engines, NEW t \in Tokens, AddReplica(n, t)
  PROVE  StandStep \/ PlaceStep
<1> DEFINE w == Worker(n, t)
<1>1. /\ w.pc = "add" /\ w.status.state = "FINALIZING"
      /\ w.id \in Ids => w.op = opsById[w.id] /\ StateOf(w.id) = w.status.state
  BY StateAt, AtIsBusy DEF AddReplica, PcStates, Worker, WorkerKnows
<1>2. CASE UNCHANGED storeVars
  BY <1>2, SameOpsStay DEF StandStep, storeVars
<1>3. ASSUME NEW outcome \in {"ok", "exists", "error"},
             ReplicationAddReplicaToShard(w.id, w.op, outcome), ~UNCHANGED storeVars
      PROVE  StandStep \/ PlaceStep
  <2>1. w.id \in Ids /\ Ids' = Ids
    BY <1>3 DEF ReplicationAddReplicaToShard, SetUnCancellable, ChangeStatus, Ids
  <2>2. StatesKept({})
    BY <1>3, AddReplicaKeepsStates DEF EInv, StoreInv
  <2>3. CASE replicas' = replicas
    BY <2>1, <2>3 DEF StandStep
  <2>4. CASE replicas' # replicas
    <3>1. /\ ShardExists(w.op.shard)
          /\ replicas' = [replicas EXCEPT ![w.op.shard] = @ \cup {w.op.target}]
      BY <1>3, <2>1, <2>4 DEF ReplicationAddReplicaToShard
    <3>2. w.op = opsById[w.id] /\ StateOf(w.id) = "FINALIZING"
      BY <1>1, <2>1
    <3> HIDE DEF w
    <3> QED
      BY <2>1, <2>2, <3>1, <3>2 DEF PlaceStep
  <2> QED
    BY <2>3, <2>4
<1> QED
  BY <1>2, <1>3 DEF AddReplica, LostCall

\* A worker drops a replica for an operation that is there and DEHYDRATING.
LEMMA DropReplicaDrops ==
  ASSUME EInv, EdgeStep, WorkersHaveOps, NEW n \in Engines, NEW t \in Tokens, DropReplica(n, t)
  PROVE  StandStep \/ DropStep
<1> DEFINE w == Worker(n, t)
<1>1. /\ w.pc = "drop" /\ w.status.state = "DEHYDRATING" /\ t \in Busy(n) /\ w = workers[n][t]
      /\ w.id \in Ids => w.op = opsById[w.id] /\ StateOf(w.id) = w.status.state
  BY StateAt, AtIsBusy DEF DropReplica, PcStates, Worker, WorkerKnows
<1>2. w.id \in Ids
  BY <1>1 DEF WorkersHaveOps, HasOp, Ended
<1>3. CASE UNCHANGED storeVars
  BY <1>3, SameOpsStay DEF StandStep, storeVars
<1>4. ASSUME NEW outcome \in {"ok", "error"},
             DeleteReplicaFromShard(w.op.shard, w.op.source, outcome), ~UNCHANGED storeVars
      PROVE  DropStep
  <2>1. UNCHANGED fsmVars /\ replicas' = [replicas EXCEPT ![w.op.shard] = @ \ {w.op.source}]
    BY <1>4 DEF DeleteReplicaFromShard, storeVars
  <2>2. StatesKept({}) /\ Ids' = Ids
    BY <2>1, UnchangedKeepsStates DEF fsmVars, Ids
  <2>3. w.op = opsById[w.id] /\ StateOf(w.id) = "DEHYDRATING"
    BY <1>1, <1>2
  <2> HIDE DEF w
  <2> QED
    BY <1>2, <2>1, <2>2, <2>3 DEF DropStep
<1> QED
  BY <1>3, <1>4 DEF DropReplica, LostCall

LEMMA UserStepShape ==
  ASSUME EInv, EdgeStep, UserStep
  PROVE  RegisterStep \/ StandStep
<1>1. CASE \E op \in Op : ReplicateReplica(op)
  BY <1>1 DEF RegisterStep
<1>2. CASE UserDeletesAll \/ \E id \in Ids : UserCancels(id) \/ UserDeletes(id)
  BY <1>2 DEF StandStep, UserCancels, UserDeletes, UserDeletesAll, CancelReplication, DeleteReplication,
     DeleteAllReplications, ChangeStatus, Ids
<1>3. CASE UserForceDeletes
  <2>1. ASSUME NEW ids, RemoveOps(ids) PROVE Ids' \subseteq Ids
    BY <2>1 DEF RemoveOps, Without, Ids
  <2> QED
    BY <1>3, <2>1 DEF StandStep, UserForceDeletes, ForceDeleteByUuid, ForceDeleteByCollection,
       ForceDeleteByCollectionAndShard, ForceDeleteByTargetNode, ForceDeleteAll
<1>4. CASE \/ \E c \in Collections : DeleteClass(c)
           \/ \E tenants \in SUBSET Shards : DeleteTenants(tenants)
  BY <1>4 DEF StandStep, DeleteClass, DeleteTenants, DeleteReplicationsByCollection,
     DeleteReplicationsByTenants, ChangeStatus, Ids
<1> QED
  BY <1>1, <1>2, <1>3, <1>4 DEF UserStep, StoreUserStep

LEMMA ConsumerStepShape ==
  ASSUME EngineInv, WorkersHaveOps, [ConsumerNext]_vars
  PROVE  RegisterStep \/ StandStep \/ PlaceStep \/ DropStep
<1>1. EInv /\ EdgeStep
  BY ConsumerStepIsEdgeStep DEF EngineInv
<1>2. ASSUME UNCHANGED storeVars PROVE StandStep
  BY <1>1, <1>2, SameOpsStay DEF StandStep, storeVars
<1>3. CASE UserStep
  BY <1>1, <1>3, UserStepShape
<1>4. CASE UNCHANGED vars
  BY <1>2, <1>4 DEF vars
<1>5. ASSUME NEW n \in Engines,
             \/ MainLoop(n) \/ CatchUp(n) \/ Restart(n)
             \/ \E id \in Ids : Produce(n, id)
             \/ \E id \in backoff[n] : BackoffExpires(n, id)
      PROVE  StandStep
  BY <1>2, <1>5 DEF MainLoop, Receive, TakeToken, CheckLeader, CatchUp, Restart, Produce,
     BackoffExpires
<1>6. ASSUME NEW n \in Engines, NEW t \in Tokens, WorkerStep(n, t) \/ External(n, t)
      PROVE  StandStep \/ PlaceStep \/ DropStep
  <2>1. CASE AddReplica(n, t) \/ DropReplica(n, t)
    BY <1>1, <2>1, AddReplicaPlaces, DropReplicaDrops
  <2>2. CASE \/ Start(n, t) \/ Handle(n, t) \/ HandleReady(n, t) \/ Leave(n, t) \/ Sync(n, t)
             \/ External(n, t)
    BY <1>2, <2>2 DEF Start, Handle, HandleReady, Leave, Sync, LostCall, External,
       CopyReplicaFiles, WaitForAsyncReplication, ExternalFails
  <2>3. CASE Activate(n, t) \/ RegisterErrorAndFail(n, t)
    BY <1>1, <1>2, <2>3 DEF StandStep, Activate, StoreSchemaVersion, RegisterErrorAndFail,
       ManagerRegisterError, RegisterError, CancelReplication, ChangeStatus, Ids, fsmVars
  <2>4. ASSUME NEW id, NEW outcome, RemoveReplicaOp(id, outcome) PROVE StandStep
    BY <1>1, <1>2, <2>4 DEF StandStep, RemoveReplicaOp, RemoveReplicationOp, RemoveOps, Without, Ids
  <2>5. CASE Remove(n, t)
    BY <1>2, <2>4, <2>5 DEF Remove, LostCall
  <2>6. CASE CancelOp(n, t)
    <3>1. ASSUME NEW id, CompleteCancellationOf(id) PROVE StandStep
      BY <1>1, <1>2, <3>1 DEF StandStep, CompleteCancellationOf, CancellationComplete, ChangeStatus, Ids
    <3> QED
      BY <1>2, <2>4, <2>6, <3>1 DEF CancelOp
  <2>7. CASE UpdateStatus(n, t) \/ UpdateStatusFails(n, t)
    BY <1>1, <1>2, <2>7 DEF StandStep, UpdateStatus, UpdateStatusFails, UpdateReplicateOpState,
       UpdateReplicationOpStatus, ChangeStatus, Ids
  <2> QED
    BY <1>6, <2>1, <2>2, <2>3, <2>5, <2>6, <2>7 DEF WorkerStep
<1> QED
  BY <1>3, <1>4, <1>5, <1>6 DEF ConsumerNext

----------------------------------------------------------------------------
(* How two movements of a shard stand to each other *)

UnfinishedStates == {"REGISTERED", "HYDRATING", "FINALIZING"}
Unfinished(i) == StateOf(i) \in UnfinishedStates

\* The replica of an operation is added only when it is FINALIZING.
PlacedLate ==
  \A i \in Ids :
    opsById[i].target \in replicas[opsById[i].shard] => StateOf(i) \notin {"REGISTERED", "HYDRATING"}

\* The source of an unfinished operation holds the shard.
SourcesStay ==
  \A i \in Ids :
    Unfinished(i) /\ ShardExists(opsById[i].shard) => opsById[i].source \in replicas[opsById[i].shard]

\* Of two operations from the same replica the earlier is over, or both are copies.
Shared(i, j) ==
  \/ StateOf(i) = "CANCELLED"
  \/ opsById[i].type = "COPY" /\ (StateOf(i) = "READY" \/ opsById[j].type = "COPY")
SourcesShared ==
  \A i, j \in Ids : i < j /\ SourceFQDN(opsById[i]) = SourceFQDN(opsById[j]) => Shared(i, j)

\* An unfinished operation reads from the replica of another one only if that
\* one was registered before: the replica was there.
SourcesOlder ==
  \A i, j \in Ids :
    Unfinished(i) /\ Unfinished(j) /\ TargetFQDN(opsById[i]) = SourceFQDN(opsById[j]) => i < j

MovesInv == PlacedLate /\ SourcesStay /\ SourcesShared /\ SourcesOlder

\* What a step leaves of the state of an operation.
Ages(i) ==
  /\ StateOf(i)' \in UnfinishedStates => Unfinished(i)
  /\ StateOf(i)' \in {"REGISTERED", "HYDRATING"} => StateOf(i) \in {"REGISTERED", "HYDRATING"}
  /\ StateOf(i) = "CANCELLED" => StateOf(i)' = "CANCELLED"
  /\ StateOf(i) = "READY" => StateOf(i)' \in {"READY", "CANCELLED"}

LEMMA EdgesAge ==
  ASSUME EdgeStep, NEW i \in Ids, i \in Ids'
  PROVE  Ages(i)
<1> DEFINE a == StateOf(i)
           b == StateOf(i)'
<1>1. b = a \/ <<a, b>> \in Movement!Edges(opsById[i].type)
  BY EdgeStepKeepsEdges DEF EdgesKept
<1> HIDE DEF a, b
<1>2. ASSUME NEW type, <<a, b>> \in Movement!Edges(type)
      PROVE  /\ a # "CANCELLED" /\ b # "REGISTERED"
             /\ b = "HYDRATING" => a = "REGISTERED"
             /\ b = "FINALIZING" => a = "HYDRATING"
             /\ a = "READY" => b = "CANCELLED"
  BY <1>2 DEF Movement!Edges, Movement!Stages
<1>3. b = a \/ /\ a # "CANCELLED" /\ b # "REGISTERED"
               /\ b = "HYDRATING" => a = "REGISTERED"
               /\ b = "FINALIZING" => a = "HYDRATING"
               /\ a = "READY" => b = "CANCELLED"
  BY <1>1, <1>2
<1>4. /\ b \in UnfinishedStates => a \in UnfinishedStates
      /\ b \in {"REGISTERED", "HYDRATING"} => a \in {"REGISTERED", "HYDRATING"}
      /\ a = "CANCELLED" => b = "CANCELLED"
      /\ a = "READY" => b \in {"READY", "CANCELLED"}
  BY <1>3 DEF UnfinishedStates
<1> QED
  BY <1>4 DEF Ages, Unfinished, a, b

\* Steps that register nothing keep what relates operations to each other.
LEMMA AgingKeepsShared ==
  ASSUME Frame, SourcesShared, Ids' \subseteq Ids, \A i \in Ids' : Ages(i)
  PROVE  SourcesShared'
<1> SUFFICES ASSUME NEW i \in Ids', NEW j \in Ids', i < j,
                    SourceFQDN(opsById'[i]) = SourceFQDN(opsById'[j])
             PROVE  Shared(i, j)'
  BY DEF SourcesShared, SourceFQDN
<1>1. \A k \in Ids' : k \in Ids /\ opsById'[k] = opsById[k]
  BY DEF Frame, OpsKept
<1>2. Shared(i, j)
  BY <1>1 DEF SourcesShared
<1> QED
  BY <1>1, <1>2 DEF Shared, Ages

LEMMA AgingKeepsPairs ==
  ASSUME Frame, SourcesShared, SourcesOlder, Ids' \subseteq Ids, \A i \in Ids' : Ages(i)
  PROVE  SourcesShared' /\ SourcesOlder'
<1>1. \A i \in Ids' : i \in Ids /\ opsById'[i] = opsById[i]
  BY DEF Frame, OpsKept
<1>2. SourcesOlder'
  BY <1>1 DEF SourcesOlder, Unfinished, Ages, TargetFQDN, SourceFQDN
<1> QED
  BY <1>2, AgingKeepsShared

\* A registration compares the new operation with all others.
LEMMA RegisterKeepsShared ==
  ASSUME IInv, SourcesShared, NEW op \in Op, Replicate(op)
  PROVE  SourcesShared'
<1>r. PICK r : r = nextId
  OBVIOUS
<1>1. r \in Nat /\ \A i \in Ids : i < r /\ i \in Nat
  BY <1>r, FSMAssumption DEF IInv, TypeOK, FSMAssumption
<1>2. /\ Writable(op, Ids) /\ r \notin Ids /\ DOMAIN statusById = Ids
      /\ opsById' = Put(opsById, r, op)
      /\ statusById' = Put(statusById, r, NewShardReplicationStatus("REGISTERED"))
  BY <1>r, <1>1 DEF Replicate, WriteOpIntoFSM, IInv, TypeOK
<1>3. Ids' = Ids \cup {r} /\ opsById'[r] = op
  BY <1>2 DEF Put, Ids
<1>4. \A i \in Ids : i \in Ids' /\ opsById'[i] = opsById[i] /\ StateOf(i)' = StateOf(i) /\ i # r
  BY <1>2, <1>3 DEF Put, Ids, StateOf
<1> SUFFICES ASSUME NEW i \in Ids', NEW j \in Ids', i < j,
                    SourceFQDN(opsById'[i]) = SourceFQDN(opsById'[j])
             PROVE  Shared(i, j)'
  BY DEF SourcesShared, SourceFQDN
<1>5. i \in Ids
  BY <1>1, <1>3
<1>6. CASE j \in Ids
  BY <1>4, <1>5, <1>6 DEF SourcesShared, Shared
<1>7. CASE j = r
  <2>1. MayShareSource(op, opsById[i], statusById[i])
    BY <1>2, <1>3, <1>4, <1>5, <1>7 DEF Writable
  <2> QED
    BY <1>3, <1>4, <1>5, <1>7, <2>1 DEF MayShareSource, Shared, StateOf
<1> QED
  BY <1>3, <1>6, <1>7

LEMMA KeptStatesAge ==
  ASSUME StatesKept({}), NEW i \in Ids, i \in Ids'
  PROVE  Ages(i)
  BY DEF StatesKept, Ages, Unfinished

LEMMA StandKeepsMoves ==
  ASSUME EInv, Frame, MovesInv, StandStep
  PROVE  MovesInv'
<1>1. \A i \in Ids' : i \in Ids /\ opsById'[i] = opsById[i] /\ Ages(i) /\ opsById[i].shard \in Shards
  BY EdgesAge DEF StandStep, Frame, OpsKept, EInv, StoreInv, IInv, TypeOK, Op
<1>2. SourcesShared' /\ SourcesOlder'
  BY <1>1, AgingKeepsPairs DEF MovesInv, StandStep
<1>3. PlacedLate'
  <2> SUFFICES ASSUME NEW i \in Ids', opsById'[i].target \in replicas'[opsById'[i].shard]
               PROVE  StateOf(i)' \notin {"REGISTERED", "HYDRATING"}
    BY DEF PlacedLate
  <2>1. opsById[i].target \in replicas[opsById[i].shard]
    BY <1>1 DEF StandStep
  <2> QED
    BY <1>1, <2>1 DEF MovesInv, PlacedLate, Ages
<1>4. SourcesStay'
  <2> SUFFICES ASSUME NEW i \in Ids', Unfinished(i)', replicas'[opsById'[i].shard] # {}
               PROVE  opsById'[i].source \in replicas'[opsById'[i].shard]
    BY DEF SourcesStay, ShardExists
  <2>1. replicas'[opsById[i].shard] = replicas[opsById[i].shard] /\ ShardExists(opsById[i].shard)
    BY <1>1 DEF StandStep, ShardExists
  <2>2. Unfinished(i)
    BY <1>1 DEF Ages, Unfinished
  <2> QED
    BY <1>1, <2>1, <2>2 DEF MovesInv, SourcesStay
<1> QED
  BY <1>2, <1>3, <1>4 DEF MovesInv

\* A replica that is added belongs to no other operation.
LEMMA PlaceKeepsMoves ==
  ASSUME EInv, Frame, MovesInv, PlaceStep
  PROVE  MovesInv'
<1>1. PICK k \in Ids :
        /\ StateOf(k) = "FINALIZING" /\ ShardExists(opsById[k].shard) /\ Ids' = Ids /\ StatesKept({})
        /\ replicas' = [replicas EXCEPT ![opsById[k].shard] = @ \cup {opsById[k].target}]
  BY DEF PlaceStep
<1>2. \A i \in Ids : opsById'[i] = opsById[i] /\ Ages(i) /\ StateOf(i)' = StateOf(i)
                     /\ opsById[i].shard \in Shards /\ opsById[i] \in Op
  BY <1>1, KeptStatesAge DEF StatesKept, Frame, OpsKept, EInv, StoreInv, IInv, TypeOK, Op
<1>3. SourcesShared' /\ SourcesOlder'
  BY <1>1, <1>2, AgingKeepsPairs DEF MovesInv
<1>4. \A s \in Shards : replicas'[s] = IF s = opsById[k].shard THEN replicas[s] \cup {opsById[k].target}
                                       ELSE replicas[s]
  BY <1>1 DEF EInv, StoreInv, ReplicasFinite
<1>5. PlacedLate'
  <2> SUFFICES ASSUME NEW i \in Ids, opsById[i].target \in replicas'[opsById[i].shard]
               PROVE  StateOf(i) \notin {"REGISTERED", "HYDRATING"}
    BY <1>1, <1>2 DEF PlacedLate
  <2>1. CASE opsById[i].target \in replicas[opsById[i].shard]
    BY <2>1 DEF MovesInv, PlacedLate
  <2>2. CASE opsById[i].target \notin replicas[opsById[i].shard]
    <3>1. TargetFQDN(opsById[i]) = TargetFQDN(opsById[k])
      BY <1>2, <1>4, <2>2 DEF TargetFQDN
    <3>2. i = k
      BY <3>1 DEF EInv, StoreInv, IInv, IndexesAgree
    <3> QED
      BY <1>1, <3>2
  <2> QED
    BY <2>1, <2>2
<1>6. SourcesStay'
  <2> SUFFICES ASSUME NEW i \in Ids, Unfinished(i), replicas'[opsById[i].shard] # {}
               PROVE  opsById[i].source \in replicas'[opsById[i].shard]
    BY <1>1, <1>2 DEF SourcesStay, Unfinished, ShardExists
  <2>1. ShardExists(opsById[i].shard)
    BY <1>1, <1>2, <1>4 DEF ShardExists
  <2> QED
    BY <1>2, <1>4, <2>1 DEF MovesInv, SourcesStay
<1> QED
  BY <1>3, <1>5, <1>6 DEF MovesInv

\* What a MOVE drops is not the source of an unfinished operation.
LEMMA DropKeepsMoves ==
  ASSUME EngineInv, Frame, MovesInv, DropStep
  PROVE  MovesInv'
<1>1. PICK k \in Ids :
        /\ StateOf(k) = "DEHYDRATING" /\ Ids' = Ids /\ StatesKept({})
        /\ replicas' = [replicas EXCEPT ![opsById[k].shard] = @ \ {opsById[k].source}]
  BY DEF DropStep
<1>2. \A i \in Ids : opsById'[i] = opsById[i] /\ Ages(i) /\ StateOf(i)' = StateOf(i)
                     /\ opsById[i].shard \in Shards /\ opsById[i] \in Op /\ i \in Nat
  BY <1>1, KeptStatesAge DEF StatesKept, Frame, OpsKept, EngineInv, EInv, StoreInv, IInv, TypeOK, Op
<1>3. SourcesShared' /\ SourcesOlder'
  BY <1>1, <1>2, AgingKeepsPairs DEF MovesInv
<1>4. \A s \in Shards : replicas'[s] = IF s = opsById[k].shard THEN replicas[s] \ {opsById[k].source}
                                       ELSE replicas[s]
  BY <1>1 DEF EngineInv, EInv, StoreInv, ReplicasFinite
<1>5. PlacedLate'
  <2> SUFFICES ASSUME NEW i \in Ids, opsById[i].target \in replicas'[opsById[i].shard]
               PROVE  StateOf(i) \notin {"REGISTERED", "HYDRATING"}
    BY <1>1, <1>2 DEF PlacedLate
  <2>1. opsById[i].target \in replicas[opsById[i].shard]
    BY <1>2, <1>4
  <2> QED
    BY <2>1 DEF MovesInv, PlacedLate
<1>6. opsById[k].type = "MOVE"
  BY <1>1 DEF EngineInv, OnlyMovesDehydrate
<1>7. SourcesStay'
  <2> SUFFICES ASSUME NEW i \in Ids, Unfinished(i), replicas'[opsById[i].shard] # {}
               PROVE  opsById[i].source \in replicas'[opsById[i].shard]
    BY <1>1, <1>2 DEF SourcesStay, Unfinished, ShardExists
  <2>1. opsById[i].source \in replicas[opsById[i].shard]
    BY <1>2, <1>4 DEF MovesInv, SourcesStay, ShardExists
  <2>2. ASSUME SourceFQDN(opsById[i]) = SourceFQDN(opsById[k]) PROVE FALSE
    <3>1. i # k /\ StateOf(i) # "CANCELLED" /\ StateOf(i) # "READY"
      BY <1>1 DEF Unfinished, UnfinishedStates
    <3>2. ~Shared(i, k) /\ ~Shared(k, i)
      BY <1>1, <1>6, <3>1 DEF Shared
    <3>3. i < k \/ k < i
      BY <1>2, <3>1
    <3> QED
      BY <2>2, <3>2, <3>3 DEF MovesInv, SourcesShared
  <2>3. ~(opsById[i].shard = opsById[k].shard /\ opsById[i].source = opsById[k].source)
    BY <2>2 DEF SourceFQDN
  <2> QED
    BY <1>2, <1>4, <2>1, <2>3
<1> QED
  BY <1>3, <1>5, <1>7 DEF MovesInv

\* A new operation reads from a replica that holds the shard, and creates one
\* that does not.
LEMMA RegisterKeepsMoves ==
  ASSUME EngineInv, Frame, MovesInv, RegisterStep
  PROVE  MovesInv'
<1>1. PICK op \in Op : ReplicateReplica(op)
  BY DEF RegisterStep
<1>r. PICK r : r = nextId
  OBVIOUS
<1>2. /\ r \in Nat /\ r \notin Ids /\ Ids = DOMAIN opsById /\ DOMAIN statusById = Ids /\ op.shard \in Shards
      /\ \A i \in Ids : i < r /\ i \in Nat /\ opsById[i] \in Op
  <2>1. IInv
    BY DEF EngineInv, EInv, StoreInv
  <2>2. r \in Nat /\ \A i \in Ids : i < r /\ i \in Nat
    BY <1>r, <2>1, FSMAssumption DEF IInv, TypeOK, FSMAssumption
  <2> QED
    BY <2>1, <2>2 DEF IInv, TypeOK, Op, Ids
<1>3. /\ op.source \in replicas[op.shard] /\ op.target \notin replicas[op.shard]
      /\ op.source # op.target /\ Writable(op, Ids) /\ replicas' = replicas
      /\ opsById' = Put(opsById, r, op)
      /\ statusById' = Put(statusById, r, NewShardReplicationStatus("REGISTERED"))
  BY <1>r, <1>1 DEF ReplicateReplica, Replicate, WriteOpIntoFSM
<1>4. Ids' = Ids \cup {r} /\ opsById'[r] = op /\ StateOf(r)' = "REGISTERED"
  <2>1. DOMAIN opsById' = Ids \cup {r} /\ opsById'[r] = op
    BY <1>3, <1>2 DEF Put
  <2>2. statusById'[r] = NewShardReplicationStatus("REGISTERED")
    BY <1>3, <1>2 DEF Put
  <2> QED
    BY <2>1, <2>2 DEF Ids, StateOf, NewShardReplicationStatus
<1>5. \A i \in Ids : i \in Ids' /\ opsById'[i] = opsById[i] /\ StateOf(i)' = StateOf(i) /\ i # r
  BY <1>3, <1>2, <1>4 DEF Put, Ids, StateOf
<1>6. PlacedLate'
  BY <1>2, <1>3, <1>4, <1>5 DEF MovesInv, PlacedLate
<1>7. SourcesStay'
  BY <1>2, <1>3, <1>4, <1>5 DEF MovesInv, SourcesStay, Unfinished, ShardExists
<1>8. SourcesShared'
  <2>1. Replicate(op)
    BY <1>1 DEF ReplicateReplica
  <2>2. IInv /\ SourcesShared
    BY DEF MovesInv, EngineInv, EInv, StoreInv
  <2> QED
    BY <2>1, <2>2, RegisterKeepsShared
<1>9. SourcesOlder'
  <2> SUFFICES ASSUME NEW i \in Ids', NEW j \in Ids', Unfinished(i)', Unfinished(j)',
                      TargetFQDN(opsById'[i]) = SourceFQDN(opsById'[j])
               PROVE  i < j
    BY DEF SourcesOlder, SourceFQDN, TargetFQDN, Unfinished
  <2>1. CASE i \in Ids /\ j \in Ids
    BY <1>5, <2>1 DEF MovesInv, SourcesOlder, Unfinished
  <2>2. CASE i \in Ids /\ j = r
    BY <1>2, <2>2
  <2>3. CASE i = r
    <3>1. op.source # op.target
      BY <1>3
    <3>2. j \in Ids /\ j # r
      BY <1>2, <1>3, <1>4, <1>5, <2>3, <3>1 DEF TargetFQDN, SourceFQDN
    <3>3. op.shard = opsById[j].shard /\ op.target = opsById[j].source
      BY <1>2, <1>3, <1>4, <1>5, <2>3, <3>2 DEF TargetFQDN, SourceFQDN
    <3>4. Unfinished(j) /\ ShardExists(opsById[j].shard)
      BY <1>2, <1>3, <1>4, <1>5, <3>2, <3>3 DEF Unfinished, ShardExists
    <3> QED
      BY <1>3, <3>2, <3>3, <3>4 DEF MovesInv, SourcesStay
  <2> QED
    BY <1>4, <2>1, <2>2, <2>3
<1> QED
  BY <1>6, <1>7, <1>8, <1>9 DEF MovesInv

ReadsInv == EngineInv /\ WorkersHaveOps /\ MovesInv

LEMMA ConsumerStepKeepsReadsInv ==
  ASSUME NoForcedRemoval, ReadsInv, [ConsumerNext]_vars
  PROVE  ReadsInv'
<1>1. EInv /\ Frame /\ EngineInv' /\ WorkersHaveOps'
  BY ConsumerStepKeepsEInv, ConsumerStepKeepsEngineInv, StoreStepFrame, ConsumerStepKeepsOps
  DEF ReadsInv, EngineInv, EInv
<1>2. MovesInv'
  BY <1>1, ConsumerStepShape, StandKeepsMoves, PlaceKeepsMoves, DropKeepsMoves, RegisterKeepsMoves
  DEF ReadsInv
<1> QED
  BY <1>1, <1>2 DEF ReadsInv

----------------------------------------------------------------------------
(* Some replica serves *)

\* The first registered of the operations whose replica is added but not
\* finished reads from a replica that is none of these.
LEMMA SomeReplicaIsFinished ==
  ASSUME ReadsInv, NEW s \in Shards, ShardExists(s)
  PROVE  \E n \in replicas[s] :
           \A i \in Ids : TargetFQDN(opsById[i]) = <<n, s>> => ~Unfinished(i)
<1> DEFINE Late == {i \in Ids : opsById[i].shard = s /\ Unfinished(i)}
           less == OpToRel(<, Nat)
<1>1. \A i \in Ids : i \in Nat /\ opsById[i] \in Op
  BY DEF ReadsInv, EngineInv, EInv, StoreInv, IInv, TypeOK
<1>2. CASE Late = {}
  BY <1>2, <1>1 DEF ShardExists, TargetFQDN
<1>3. CASE Late # {}
  <2>1. Late \subseteq Nat
    BY <1>1
  <2> HIDE DEF less
  <2>2. PICK first \in Late : \A i \in Late : <<i, first>> \notin less
    BY <1>3, <2>1, WFMin, NatLessThanWellFounded DEF less
  <2>3. \A i \in Late : ~(i < first)
    BY <2>1, <2>2 DEF less, OpToRel
  <2>4. opsById[first].source \in replicas[s]
    BY DEF ReadsInv, MovesInv, SourcesStay
  <2>5. ASSUME NEW i \in Ids, TargetFQDN(opsById[i]) = <<opsById[first].source, s>>, Unfinished(i)
        PROVE  FALSE
    <3>1. i < first /\ opsById[i].shard = s
      BY <2>5 DEF ReadsInv, MovesInv, SourcesOlder, TargetFQDN, SourceFQDN
    <3> QED
      BY <2>3, <2>5, <3>1
  <2> QED
    BY <2>4, <2>5
<1> QED
  BY <1>2, <1>3

LEMMA ReadsInvServes ==
  ASSUME ReadsInv
  PROVE  SomeReplicaServesReads
<1> SUFFICES ASSUME NEW s \in Shards, ShardExists(s),
                    \A i \in opsByCollectionAndShard[s] :
                      ~CancelledButPlaced(i) /\ ~DehydratingButDropped(i)
             PROVE  FilterOneShardReplicasRead(s, replicas[s]) # {}
  BY DEF SomeReplicaServesReads
<1>1. /\ \A i \in Ids : opsById[i] \in Op /\ StateOf(i) \in States
      /\ opsByCollectionAndShard[s] = {i \in Ids : opsById[i].shard = s}
      /\ \A n \in Nodes : opsBySourceFQDN[<<n, s>>] = {i \in Ids : SourceFQDN(opsById[i]) = <<n, s>>}
      /\ DOMAIN opsByTargetFQDN = {TargetFQDN(opsById[i]) : i \in Ids}
      /\ \A i \in Ids : opsByTargetFQDN[TargetFQDN(opsById[i])] = i
      /\ replicas[s] \subseteq Nodes
  BY DEF ReadsInv, EngineInv, EInv, StoreInv, IInv, TypeOK, IndexesAgree, Replica, Status, StateOf,
         ReplicasFinite
<1>2. PICK n \in replicas[s] : \A i \in Ids : TargetFQDN(opsById[i]) = <<n, s>> => ~Unfinished(i)
  BY SomeReplicaIsFinished
\* The replica of an operation that is DEHYDRATING or READY serves.
<1>3. ASSUME NEW i \in Ids, opsById[i].shard = s, opsById[i].target \in replicas[s],
             StateOf(i) \in {"READY", "DEHYDRATING"}
      PROVE  FilterOneShardReplicasRead(s, replicas[s]) # {}
  <2>1. TargetFQDN(opsById[i]) = <<opsById[i].target, s>>
    BY <1>3 DEF TargetFQDN
  <2>2. ReplicaUsable(opsById[i].target, s)
    BY <1>1, <1>3, <2>1 DEF ReplicaUsable
  <2> QED
    BY <1>3, <2>2 DEF FilterOneShardReplicasRead
<1>4. ASSUME NEW i \in Ids, TargetFQDN(opsById[i]) = <<n, s>>
      PROVE  FilterOneShardReplicasRead(s, replicas[s]) # {}
  <2>1. opsById[i].shard = s /\ opsById[i].target = n
    BY <1>4 DEF TargetFQDN
  <2>2. StateOf(i) # "CANCELLED"
    BY <1>1, <2>1 DEF CancelledButPlaced
  <2>3. StateOf(i) \in {"READY", "DEHYDRATING"}
    BY <1>1, <1>2, <1>4, <2>2 DEF Unfinished, UnfinishedStates, States
  <2> QED
    BY <1>3, <2>1, <2>3
<1>5. ASSUME NEW i \in Ids, SourceFQDN(opsById[i]) = <<n, s>>, StateOf(i) = "DEHYDRATING"
      PROVE  FilterOneShardReplicasRead(s, replicas[s]) # {}
  <2>1. opsById[i].shard = s
    BY <1>5 DEF SourceFQDN
  <2>2. opsById[i].target \in replicas[s]
    BY <1>1, <1>5, <2>1 DEF DehydratingButDropped
  <2> QED
    BY <1>3, <1>5, <2>1, <2>2
<1>6. ASSUME <<n, s>> \notin DOMAIN opsByTargetFQDN,
             \A i \in Ids : SourceFQDN(opsById[i]) = <<n, s>> => StateOf(i) # "DEHYDRATING"
      PROVE  FilterOneShardReplicasRead(s, replicas[s]) # {}
  <2>1. ReplicaUsable(n, s)
    BY <1>1, <1>6 DEF ReplicaUsable
  <2> QED
    BY <2>1 DEF FilterOneShardReplicasRead
<1> QED
  BY <1>1, <1>4, <1>5, <1>6

LEMMA InitReadsInv ==
  ASSUME ConsumerInit
  PROVE  ReadsInv
<1>1. EngineInv /\ Ids = {} /\ \A n \in Engines : Busy(n) = {}
  BY InitEInv DEF EngineInv, OnlyMovesDehydrate, ConsumerInit, StoreInit, Init, Ids, Busy
<1> QED
  BY <1>1 DEF ReadsInv, WorkersHaveOps, MovesInv, PlacedLate, SourcesStay, SourcesShared, SourcesOlder

\* Unless operations are removed by force, a shard keeps a replica that serves
\* reads, for any number of movements, cancellations, deletions, failing calls
\* and restarts, with the two exceptions.
THEOREM SomeReplicaServes ==
  ASSUME NoForcedRemoval
  PROVE  ConsumerSpec => []SomeReplicaServesReads
<1>1. ReadsInv /\ [ConsumerNext]_vars => ReadsInv'
  BY ConsumerStepKeepsReadsInv
<1> QED
  BY <1>1, InitReadsInv, ReadsInvServes, PTL DEF ConsumerSpec

LEMMA RefusedHasEnded ==
  ASSUME IInv, SourcesShared
  PROVE  RestoreRefusesOnlyEnded
<1> SUFFICES ASSUME NEW order \in Orders, NEW i \in Ids, Refused(order, i)
             PROVE  \/ StateOf(i) = "CANCELLED"
                    \/ StateOf(i) = "READY" /\ opsById[i].type = "COPY"
  BY DEF RestoreRefusesOnlyEnded
<1>1. /\ \A j \in Ids : opsByTargetFQDN[TargetFQDN(opsById[j])] = j
      /\ Ids \subseteq Int
  BY DEF IInv, TypeOK, IndexesAgree
<1>2. PICK j \in Ids :
        /\ order[j] < order[i]
        /\ \/ TargetFQDN(opsById[j]) = TargetFQDN(opsById[i])
           \/ /\ SourceFQDN(opsById[j]) = SourceFQDN(opsById[i])
              /\ ~MayShareSource(opsById[i], opsById[j], statusById[j])
  BY DEF Refused, Writable
<1>3. order[i] \in Int
  BY <1>1 DEF Orders
<1>4. j # i
  BY <1>2, <1>3
<1>5. /\ SourceFQDN(opsById[j]) = SourceFQDN(opsById[i])
      /\ ~MayShareSource(opsById[i], opsById[j], statusById[j])
  BY <1>1, <1>2, <1>4
<1>6. ~Shared(j, i)
  BY <1>5 DEF Shared, MayShareSource, StateOf
<1>7. ~(j < i)
  BY <1>1, <1>5, <1>6 DEF SourcesShared
<1>8. Shared(i, j)
  BY <1>1, <1>4, <1>5, <1>7 DEF SourcesShared
<1> QED
  BY <1>5, <1>8 DEF Shared, MayShareSource

LEMMA NextRegistersOrShrinks == [Next]_fsmVars => Ids' \subseteq Ids \/ \E op \in Op : Replicate(op)
<1> SUFFICES ASSUME [Next]_fsmVars, ~\E op \in Op : Replicate(op)
             PROVE  Ids' \subseteq Ids
  OBVIOUS
<1>1. CASE \/ \E id \in Ids :
                \/ RegisterError(id)
                \/ \E state \in UpdateStates : UpdateReplicationOpStatus(id, state)
                \/ \E version \in SchemaVersions : StoreSchemaVersion(id, version)
                \/ SetUnCancellable(id) \/ CancelReplication(id) \/ DeleteReplication(id)
                \/ CancellationComplete(id)
           \/ \E c \in Collections : DeleteReplicationsByCollection(c)
           \/ \E tenants \in SUBSET Shards : DeleteReplicationsByTenants(tenants)
           \/ DeleteAllReplications
  BY <1>1 DEF RegisterError, UpdateReplicationOpStatus, StoreSchemaVersion, SetUnCancellable,
     CancelReplication, DeleteReplication, CancellationComplete, DeleteReplicationsByCollection,
     DeleteReplicationsByTenants, DeleteAllReplications, ChangeStatus, Ids
<1>2. ASSUME NEW ids, RemoveOps(ids) PROVE Ids' \subseteq Ids
  BY <1>2 DEF RemoveOps, Without, Ids
<1>3. CASE \/ \E id \in Ids : RemoveReplicationOp(id) \/ ForceDeleteByUuid(id)
           \/ \E c \in Collections : ForceDeleteByCollection(c)
           \/ \E s \in Shards : ForceDeleteByCollectionAndShard(s)
           \/ \E n \in Nodes : ForceDeleteByTargetNode(n)
           \/ ForceDeleteAll
  BY <1>2, <1>3
  DEF RemoveReplicationOp, ForceDeleteByUuid, ForceDeleteByCollection,
      ForceDeleteByCollectionAndShard, ForceDeleteByTargetNode, ForceDeleteAll
<1>4. CASE \E order \in Orders : Restore(order)
  BY <1>4 DEF Restore, Restored, Ids
<1>5. CASE UNCHANGED fsmVars
  BY <1>5 DEF fsmVars, Ids
<1> QED
  BY <1>1, <1>3, <1>4, <1>5 DEF Next

LEMMA ConsumerStepKeepsShared ==
  ASSUME EngineInv, SourcesShared, [ConsumerNext]_vars
  PROVE  SourcesShared'
<1>1. EInv /\ IInv /\ Frame /\ EdgeStep /\ [Next]_fsmVars
  BY ConsumerStepKeepsEInv, ConsumerStepIsEdgeStep, StoreStepFrame, StoreStepIsFSMStep
  DEF EngineInv, EInv, StoreInv
<1>2. CASE Ids' \subseteq Ids
  <2>1. \A i \in Ids' : Ages(i)
    BY <1>1, <1>2, EdgesAge
  <2> QED
    BY <1>1, <1>2, <2>1, AgingKeepsShared
<1>3. CASE \E op \in Op : Replicate(op)
  BY <1>1, <1>3, RegisterKeepsShared
<1> QED
  BY <1>1, <1>2, <1>3, NextRegistersOrShrinks

\* A restore refuses an operation only when it is cancelled or a copy that is
\* READY, whatever the order of its map, however many operations there are and
\* however they are cancelled, deleted or removed: of two operations from the
\* same replica the one registered first is over or both are copies, so only
\* the first can be refused, when the second comes before it in the map.
THEOREM RefusedIsOver == ConsumerSpec => []RestoreRefusesOnlyEnded
<1>1. ConsumerInit => EngineInv /\ SourcesShared
  BY InitReadsInv DEF ReadsInv, MovesInv
<1>2. EngineInv /\ SourcesShared /\ [ConsumerNext]_vars => EngineInv' /\ SourcesShared'
  BY ConsumerStepKeepsEngineInv, ConsumerStepKeepsShared
<1>3. EngineInv /\ SourcesShared => RestoreRefusesOnlyEnded
  BY RefusedHasEnded DEF EngineInv, EInv, StoreInv
<1> QED
  BY <1>1, <1>2, <1>3, PTL DEF ConsumerSpec

----------------------------------------------------------------------------
(* What is READY was placed: the movements that explain what a worker saw *)

\* Operations are deleted with their collection or tenant only.
OnlyWithTheShard == UserCommands \cap {"delete", "deleteAll", "forceDelete"} = {}

\* Replica m of shard s is here or has been moved away; it is not here, or an
\* operation has brought it back.
Came(m, s) ==
  \/ m \in replicas[s]
  \/ \E j \in Ids : opsById[j].type = "MOVE" /\ SourceFQDN(opsById[j]) = <<m, s>>
Went(m, s) ==
  \/ m \notin replicas[s]
  \/ \E j \in Ids : TargetFQDN(opsById[j]) = <<m, s>>

\* The shard of operation id is gone, if the operation itself is not.
Doomed(id) == id \in Ids => ~ShardExists(opsById[id].shard)

Travels == \A i \in Ids : opsById[i].source # opsById[i].target

DeletionsDoomed == \A i \in Ids : statusById[i].shouldDelete => Doomed(i)

MessagesDoomed ==
  \A n \in Engines :
    /\ \A i \in DOMAIN view[n].ops : view[n].ops[i].shouldDelete => Doomed(i)
    /\ \A k \in 1 .. Len(queue[n]) : queue[n][k].status.shouldDelete => Doomed(queue[n][k].id)
    /\ main[n] # Idle => (main[n].msg.status.shouldDelete => Doomed(main[n].msg.id))

\* What a node sees was so, and what is different now was moved.
ViewsPast ==
  \A n \in Engines : \A s \in Shards : ShardExists(s) =>
    \A m \in Nodes : IF m \in view[n].replicas[s] THEN Came(m, s) ELSE Went(m, s)

DehydratingCame ==
  \A i \in Ids :
    StateOf(i) = "DEHYDRATING" /\ ShardExists(opsById[i].shard)
      => Came(opsById[i].target, opsById[i].shard)

\* A worker that has nothing left to add (drop) in this state.
NothingToAdd(w) ==
  /\ w.status.state = "FINALIZING"
  /\ w.pc \in {"sync", "update"} \/ (w.pc = "wait" /\ w.skip)
NothingToDrop(w) == w.status.state = "DEHYDRATING" /\ w.pc \in {"sync", "update"}

WorkerRight(w) ==
  /\ w.status.shouldDelete => Doomed(w.id)
  /\ w.pc = "remove" => w.status.shouldDelete
  /\ ShardExists(w.op.shard) =>
       /\ NothingToAdd(w) => Came(w.op.target, w.op.shard)
       /\ NothingToDrop(w) => Went(w.op.source, w.op.shard)

WorkersRight == \A n \in Engines : \A t \in Busy(n) : WorkerRight(workers[n][t])

----------------------------------------------------------------------------
(* What a step leaves as it was *)

RemovesDoomed == \A i \in Ids : i \notin Ids' => Doomed(i)

Steady ==
  /\ \A s \in Shards :
       ShardExists(s)' =>
         /\ ShardExists(s)
         /\ \A m \in Nodes : (Came(m, s) => Came(m, s)') /\ (Went(m, s) => Went(m, s)')
  /\ \A id \in Nat : id < nextId /\ Doomed(id) => Doomed(id)'

\* The operation that explains a replica stays as long as the shard does.
LEMMA WitnessStays ==
  ASSUME EInv, Frame, RemovesDoomed, NEW s \in Shards, ShardExists(s), NEW j \in Ids, opsById[j].shard = s
  PROVE  j \in Ids' /\ opsById'[j] = opsById[j]
<1>1. ~Doomed(j)
  BY DEF Doomed
<1> QED
  BY <1>1 DEF RemovesDoomed, Frame, OpsKept

\* The replicas of a shard that is there change only by its operations.
ReplicasMove ==
  \A s \in Shards : ShardExists(s)' =>
    /\ ShardExists(s)
    /\ \A m \in Nodes :
         /\ m \in replicas[s] /\ m \notin replicas'[s] =>
              \E j \in Ids : opsById[j].type = "MOVE" /\ SourceFQDN(opsById[j]) = <<m, s>>
         /\ m \notin replicas[s] /\ m \in replicas'[s] =>
              \E j \in Ids : TargetFQDN(opsById[j]) = <<m, s>>

LEMMA StepMovesReplicas ==
  ASSUME EngineInv, RegisterStep \/ StandStep \/ PlaceStep \/ DropStep
  PROVE  ReplicasMove
<1>1. /\ replicas \in [Shards -> SUBSET Nodes]
      /\ \A i \in Ids : opsById[i] \in Op /\ opsById[i].shard \in Shards
  BY DEF EngineInv, EInv, StoreInv, ReplicasFinite, IInv, TypeOK, Op
<1>2. CASE RegisterStep
  BY <1>2 DEF RegisterStep, ReplicateReplica, ReplicasMove, ShardExists
<1>3. CASE StandStep
  BY <1>3 DEF StandStep, ReplicasMove, ShardExists
<1>4. CASE PlaceStep
  <2>1. PICK k \in Ids :
          /\ ShardExists(opsById[k].shard)
          /\ replicas' = [replicas EXCEPT ![opsById[k].shard] = @ \cup {opsById[k].target}]
    BY <1>4 DEF PlaceStep
  <2>2. \A s \in Shards : replicas'[s] = IF s = opsById[k].shard THEN replicas[s] \cup {opsById[k].target}
                                         ELSE replicas[s]
    BY <1>1, <2>1
  <2> QED
    BY <2>1, <2>2 DEF ReplicasMove, ShardExists, TargetFQDN
<1>5. CASE DropStep
  <2>1. PICK k \in Ids :
          /\ StateOf(k) = "DEHYDRATING"
          /\ replicas' = [replicas EXCEPT ![opsById[k].shard] = @ \ {opsById[k].source}]
    BY <1>5 DEF DropStep
  <2>2. \A s \in Shards : replicas'[s] = IF s = opsById[k].shard THEN replicas[s] \ {opsById[k].source}
                                         ELSE replicas[s]
    BY <1>1, <2>1
  <2>3. opsById[k].type = "MOVE"
    BY <2>1 DEF EngineInv, OnlyMovesDehydrate
  <2> QED
    BY <2>2, <2>3 DEF ReplicasMove, ShardExists, SourceFQDN
<1> QED
  BY <1>2, <1>3, <1>4, <1>5

LEMMA StepIsSteady ==
  ASSUME EngineInv, Frame, RemovesDoomed, ReplicasMove
  PROVE  Steady
<1>1. EInv
  BY DEF EngineInv
<1>2. ASSUME NEW s \in Shards, ShardExists(s)', NEW m \in Nodes, Came(m, s)
      PROVE  Came(m, s)'
  <2>1. ShardExists(s)
    BY <1>2 DEF ReplicasMove
  <2>2. CASE m \in replicas'[s]
    BY <2>2 DEF Came
  <2>3. ASSUME NEW j \in Ids, opsById[j].type = "MOVE", SourceFQDN(opsById[j]) = <<m, s>>
        PROVE  Came(m, s)'
    <3>1. j \in Ids' /\ opsById'[j] = opsById[j]
      BY <1>1, <2>1, <2>3, WitnessStays DEF SourceFQDN
    <3> QED
      BY <2>3, <3>1 DEF Came, SourceFQDN
  <2> QED
    BY <1>2, <2>2, <2>3 DEF Came, ReplicasMove
<1>3. ASSUME NEW s \in Shards, ShardExists(s)', NEW m \in Nodes, Went(m, s)
      PROVE  Went(m, s)'
  <2>1. ShardExists(s)
    BY <1>3 DEF ReplicasMove
  <2>2. CASE m \notin replicas'[s]
    BY <2>2 DEF Went
  <2>3. ASSUME NEW j \in Ids, TargetFQDN(opsById[j]) = <<m, s>>
        PROVE  Went(m, s)'
    <3>1. j \in Ids' /\ opsById'[j] = opsById[j]
      BY <1>1, <2>1, <2>3, WitnessStays DEF TargetFQDN
    <3> QED
      BY <2>3, <3>1 DEF Went, TargetFQDN
  <2> QED
    BY <1>3, <2>2, <2>3 DEF Went, ReplicasMove
<1>4. ASSUME NEW id \in Nat, id < nextId, Doomed(id), id \in Ids', ShardExists(opsById[id].shard)'
      PROVE  FALSE
  <2>1. id \in Ids /\ opsById'[id] = opsById[id]
    BY <1>4 DEF Frame, IdsGrow, OpsKept
  <2>2. opsById[id].shard \in Shards
    BY <1>1, <2>1 DEF EInv, StoreInv, IInv, TypeOK, Op
  <2>3. ShardExists(opsById[id].shard)
    BY <1>4, <2>1, <2>2 DEF ReplicasMove, ShardExists
  <2> QED
    BY <1>4, <2>1, <2>3 DEF Doomed
<1> QED
  BY <1>2, <1>3, <1>4 DEF Steady, Doomed, ReplicasMove

LEMMA WorkerRemovesDoomed ==
  ASSUME EInv, WorkersRight, NEW n \in Engines, NEW t \in Tokens, WorkerStep(n, t) \/ External(n, t)
  PROVE  RemovesDoomed
<1>1. CASE Remove(n, t)
  <2>1. /\ t \in Busy(n) /\ workers[n][t].pc = "remove"
    BY <1>1, AtIsBusy DEF Remove
  <2>2. Doomed(workers[n][t].id)
    BY <2>1 DEF WorkersRight, WorkerRight
  <2>3. \A i \in Ids : i # workers[n][t].id => i \in Ids'
    BY <1>1, RemoveReplicaOpRemoves, SameOpsStay DEF Remove, LostCall, Worker
  <2> QED
    BY <2>2, <2>3 DEF RemovesDoomed
<1>2. CASE CancelOp(n, t)
  <2>1. t \in Busy(n)
    BY <1>2, AtIsBusy DEF CancelOp
  <2>2. CASE CompleteCancellationOf(workers[n][t].id) \/ UNCHANGED storeVars
    BY <2>2, SameOpsStay DEF CompleteCancellationOf, CancellationComplete, ChangeStatus, Ids, RemovesDoomed
  <2>3. CASE workers[n][t].status.shouldDelete /\ \E outcome : RemoveReplicaOp(workers[n][t].id, outcome)
    <3>1. Doomed(workers[n][t].id)
      BY <2>1, <2>3 DEF WorkersRight, WorkerRight
    <3>2. \A i \in Ids : i # workers[n][t].id => i \in Ids'
      BY <2>3, RemoveReplicaOpRemoves
    <3> QED
      BY <3>1, <3>2 DEF RemovesDoomed
  <2> QED
    BY <1>2, <2>2, <2>3 DEF CancelOp, Worker
<1> QED
  BY <1>1, <1>2, WorkerStepKeepsIds DEF RemovesDoomed

LEMMA ConsumerStepRemovesDoomed ==
  ASSUME EInv, WorkersRight, OnlyWithTheShard, [ConsumerNext]_vars
  PROVE  RemovesDoomed
<1>1. ASSUME UNCHANGED storeVars PROVE RemovesDoomed
  BY <1>1, SameOpsStay DEF RemovesDoomed
<1>2. CASE UserStep
  <2>1. StoreUserStep /\ ~("forceDelete" \in UserCommands)
    BY <1>2 DEF UserStep, OnlyWithTheShard
  <2>2. CASE \E op \in Op : ReplicateReplica(op)
    BY <2>2 DEF ReplicateReplica, Replicate, WriteOpIntoFSM, Put, Ids, RemovesDoomed
  <2>3. CASE ~\E op \in Op : ReplicateReplica(op)
    BY <2>1, <2>3 DEF StoreUserStep, UserCancels, UserDeletes, UserDeletesAll, DeleteClass, DeleteTenants,
       CancelReplication, DeleteReplication, DeleteAllReplications, DeleteReplicationsByCollection,
       DeleteReplicationsByTenants, ChangeStatus, Ids, RemovesDoomed
  <2> QED
    BY <2>2, <2>3
<1>3. ASSUME NEW n \in Engines,
             \/ MainLoop(n) \/ CatchUp(n) \/ Restart(n)
             \/ \E id \in Ids : Produce(n, id)
             \/ \E id \in backoff[n] : BackoffExpires(n, id)
      PROVE  RemovesDoomed
  BY <1>1, <1>3 DEF MainLoop, Receive, TakeToken, CheckLeader, CatchUp, Restart, Produce, BackoffExpires
<1>4. ASSUME NEW n \in Engines, NEW t \in Tokens, WorkerStep(n, t) \/ External(n, t)
      PROVE  RemovesDoomed
  BY <1>4, WorkerRemovesDoomed
<1> QED
  BY <1>1, <1>2, <1>3, <1>4 DEF ConsumerNext, vars

----------------------------------------------------------------------------
(* The workers *)

\* A worker that stands still stays right, and so does one at another pc at
\* which it claims no more than it did.
LEMMA RightStays ==
  ASSUME EInv, Steady, NEW n \in Engines, NEW w \in Workers, WorkerKnows(n, w), NEW v \in Workers,
         v.id = w.id, v.op = w.op, v.status.shouldDelete = w.status.shouldDelete,
         WorkerRight(w), v.pc = "remove" => w.status.shouldDelete,
         NothingToAdd(v) => NothingToAdd(w) \/ Came(w.op.target, w.op.shard)',
         NothingToDrop(v) => NothingToDrop(w) \/ Went(w.op.source, w.op.shard)'
  PROVE  WorkerRight(v)'
<1>1. w.id \in Nat /\ w.id < nextId /\ w.op \in Op
  BY DEF Workers, WorkerKnows
<1>2. w.op.shard \in Shards /\ w.op.target \in Nodes /\ w.op.source \in Nodes
  BY <1>1 DEF Op
<1>3. v.status.shouldDelete => Doomed(v.id)'
  BY <1>1 DEF WorkerRight, Steady
<1>4. ASSUME ShardExists(w.op.shard)'
      PROVE  /\ NothingToAdd(v) => Came(w.op.target, w.op.shard)'
             /\ NothingToDrop(v) => Went(w.op.source, w.op.shard)'
  BY <1>2, <1>4 DEF Steady, WorkerRight
<1> QED
  BY <1>3, <1>4 DEF WorkerRight, NothingToAdd, NothingToDrop

\* One worker steps.
LEMMA OneStaysRight ==
  ASSUME EInv, Steady, WorkersRight, NEW n \in Engines, NEW t \in Tokens, NEW v,
         workers' = [workers EXCEPT ![n][t] = v], v = Idle \/ WorkerRight(v)'
  PROVE  WorkersRight'
<1>1. workers \in [Engines -> [Tokens -> {Idle} \cup Workers]]
  BY DEF EInv, ETypes
<1>2. \A m \in Engines, u \in Tokens :
        workers'[m][u] = IF m = n /\ u = t THEN v ELSE workers[m][u]
  BY <1>1
<1> SUFFICES ASSUME NEW m \in Engines, NEW u \in Tokens, NEW x, x = workers'[m][u], x # Idle
             PROVE  WorkerRight(x)'
  BY DEF WorkersRight, Busy
<1>3. CASE m = n /\ u = t
  BY <1>2, <1>3
<1>4. CASE m # n \/ u # t
  <2>1. x = workers[m][u] /\ u \in Busy(m) /\ x \in Workers
    BY <1>1, <1>2, <1>4 DEF Busy
  <2>2. WorkerKnows(m, x) /\ WorkerRight(x)
    BY <2>1 DEF EInv, EWorkers, WorkersRight
  <2> QED
    BY <2>1, <2>2, RightStays DEF WorkerRight
<1> QED
  BY <1>3, <1>4

\* A worker goes to another pc; Quiet are those where it claims nothing.
Quiet == {"start", "handle", "activate", "copy", "add", "drop", "error", "cancel", "leave"}

LEMMA PcRight ==
  ASSUME EInv, Steady, WorkersRight, NEW n \in Engines, NEW t \in Tokens, NEW from, from # "idle",
         At(n, t, from), NEW w, w = workers[n][t], NEW pc \in WorkerPcs,
         workers' = [workers EXCEPT ![n][t] = [w EXCEPT !.pc = pc]],
         pc # "remove",
         \/ pc \in Quiet
         \/ /\ w.status.state = "FINALIZING" => NothingToAdd(w) \/ Came(w.op.target, w.op.shard)'
            /\ w.status.state = "DEHYDRATING" => NothingToDrop(w) \/ Went(w.op.source, w.op.shard)'
  PROVE  WorkersRight'
<1>1. t \in Busy(n) /\ w \in Workers /\ WorkerKnows(n, w)
  BY AtIsBusy
<1>2. WorkerRight(w)
  BY <1>1 DEF WorkersRight
<1>v. PICK v : v = [w EXCEPT !.pc = pc]
  OBVIOUS
<1>3. v \in Workers /\ v.id = w.id /\ v.op = w.op /\ v.status = w.status /\ v.pc = pc
  BY <1>1, <1>v DEF Workers
<1>4. /\ NothingToAdd(v) => NothingToAdd(w) \/ Came(w.op.target, w.op.shard)'
      /\ NothingToDrop(v) => NothingToDrop(w) \/ Went(w.op.source, w.op.shard)'
  BY <1>3 DEF NothingToAdd, NothingToDrop, Quiet
<1>5. WorkerRight(v)'
  BY <1>1, <1>2, <1>3, <1>4, RightStays
<1> QED
  BY <1>5, <1>v, OneStaysRight

LEMMA ProceedRight ==
  ASSUME EInv, Steady, WorkersRight, NEW n \in Engines, NEW t \in Tokens, NEW from, from # "idle",
         At(n, t, from), NEW w, w = Worker(n, t), NEW pc \in WorkerPcs, Proceed(n, t, pc), pc # "remove",
         \/ pc \in Quiet
         \/ /\ w.status.state = "FINALIZING" => NothingToAdd(w) \/ Came(w.op.target, w.op.shard)'
            /\ w.status.state = "DEHYDRATING" => NothingToDrop(w) \/ Went(w.op.source, w.op.shard)'
  PROVE  WorkersRight'
<1>1. PICK q : q = (IF Stopped(n, t) THEN "cancel" ELSE pc)
  OBVIOUS
<1>2. workers' = [workers EXCEPT ![n][t] = [w EXCEPT !.pc = q]]
  BY <1>1 DEF Proceed, Advance
<1>3. q = "cancel" \/ q = pc
  BY <1>1
<1>4. CASE q = "cancel"
  BY <1>2, <1>4, PcRight DEF Quiet, WorkerPcs, Worker
<1>5. CASE q = pc
  BY <1>2, <1>5, PcRight DEF Worker
<1> QED
  BY <1>3, <1>4, <1>5

LEMMA QuietPcRight ==
  ASSUME EInv, Steady, WorkersRight, NEW n \in Engines, NEW t \in Tokens, NEW from, from # "idle",
         At(n, t, from), NEW w, w = workers[n][t], NEW pc \in Quiet,
         workers' = [workers EXCEPT ![n][t] = [w EXCEPT !.pc = pc]]
  PROVE  WorkersRight'
<1>1. pc \in WorkerPcs /\ pc # "remove"
  BY DEF Quiet, WorkerPcs
<1> QED
  BY <1>1, PcRight

LEMMA QuietlyRight ==
  ASSUME EInv, Steady, WorkersRight, NEW n \in Engines, NEW t \in Tokens, NEW from, from # "idle",
         At(n, t, from), NEW pc \in Quiet, Proceed(n, t, pc)
  PROVE  WorkersRight'
<1>w. PICK w : w = workers[n][t]
  OBVIOUS
<1>q. PICK q : q = (IF Stopped(n, t) THEN "cancel" ELSE pc)
  OBVIOUS
<1>1. workers' = [workers EXCEPT ![n][t] = [w EXCEPT !.pc = q]]
  BY <1>w, <1>q DEF Proceed, Advance, Worker
<1>2. q \in Quiet
  BY <1>q DEF Quiet
<1> QED
  BY <1>w, <1>1, <1>2, QuietPcRight

LEMMA ExitRight ==
  ASSUME EInv, Steady, WorkersRight, NEW n \in Engines, NEW t \in Tokens, NEW newBackoff,
         Exit(n, t, newBackoff)
  PROVE  WorkersRight'
<1>1. workers' = [workers EXCEPT ![n][t] = Idle]
  BY DEF Exit
<1> QED
  BY <1>1, OneStaysRight

\* What the handler sees in its node's view was moved if it is different now.
LEMMA HandleRight ==
  ASSUME EInv, Steady, WorkersRight, ViewsPast, NEW n \in Engines, NEW t \in Tokens, Handle(n, t)
  PROVE  WorkersRight'
<1>w. PICK w : w = Worker(n, t)
  OBVIOUS
<1>h. PICK here : here = view[n].replicas[w.op.shard]
  OBVIOUS
<1>1. /\ t \in Busy(n) /\ w \in Workers /\ w = workers[n][t] /\ w.pc = "handle" /\ WorkerKnows(n, w)
      /\ WorkerRight(w)
  BY <1>w, AtIsBusy DEF Handle, Worker, WorkersRight
<1>2. w.op.shard \in Shards /\ w.op.source \in Nodes /\ w.op.target \in Nodes
  BY <1>1 DEF Workers, Op
<1>v. PICK v : v = [w EXCEPT !.skip = AlreadyDone(w, here),
                              !.pc = IF Stopped(n, t) THEN "cancel" ELSE FirstStep(w, here)]
  OBVIOUS
<1>3. workers' = [workers EXCEPT ![n][t] = v] /\ w.status.state # "READY"
  BY <1>w, <1>h, <1>v, <1>1 DEF Handle, Advance
<1>4. w.status.state \in States
  BY <1>1 DEF Workers, Briefs
<1>5. FirstStep(w, here) \in WorkerPcs
  BY <1>3, <1>4 DEF FirstStep, States, WorkerPcs
<1>6. /\ v \in Workers /\ v.id = w.id /\ v.op = w.op /\ v.status = w.status
      /\ v.skip = AlreadyDone(w, here) /\ (v.pc = "cancel" \/ v.pc = FirstStep(w, here))
  BY <1>1, <1>v, <1>5 DEF Workers, AlreadyDone, WorkerPcs
<1>7. v.pc = "remove" => w.status.shouldDelete
  BY <1>3, <1>4, <1>6 DEF FirstStep, States
<1>8. ASSUME ShardExists(w.op.shard)
      PROVE  /\ w.op.target \in here => Came(w.op.target, w.op.shard)
             /\ w.op.source \notin here => Went(w.op.source, w.op.shard)
  BY <1>h, <1>2, <1>8 DEF ViewsPast
<1>9. NothingToAdd(v) => w.op.target \in here
  BY <1>4, <1>6 DEF NothingToAdd, FirstStep, AlreadyDone
<1>10. NothingToDrop(v) => w.op.source \notin here
  BY <1>4, <1>6 DEF NothingToDrop, FirstStep, AlreadyDone
<1>11. WorkerRight(v)'
  <2>1. w.id \in Nat /\ w.id < nextId
    BY <1>1 DEF Workers, WorkerKnows
  <2>2. v.status.shouldDelete => Doomed(v.id)'
    BY <1>1, <1>6, <2>1 DEF WorkerRight, Steady
  <2>3. ASSUME ShardExists(v.op.shard)'
        PROVE  /\ NothingToAdd(v) => Came(v.op.target, v.op.shard)'
               /\ NothingToDrop(v) => Went(v.op.source, v.op.shard)'
    BY <1>2, <1>6, <1>8, <1>9, <1>10, <2>3 DEF Steady
  <2> QED
    BY <1>6, <1>7, <2>2, <2>3 DEF WorkerRight, NothingToAdd, NothingToDrop
<1> QED
  BY <1>3, <1>11, OneStaysRight

LEMMA WaitRight ==
  ASSUME EInv, Steady, WorkersRight, NEW n \in Engines, NEW t \in Tokens, WaitForAsyncReplication(n, t)
  PROVE  WorkersRight'
<1>w. PICK w : w = Worker(n, t)
  OBVIOUS
<1>1. At(n, t, "wait") /\ Proceed(n, t, AfterWait(w)) /\ w \in Workers /\ w.pc = "wait"
  BY <1>w, AtIsBusy DEF WaitForAsyncReplication, Worker
<1>2. AfterWait(w) \in WorkerPcs /\ AfterWait(w) # "remove"
  BY DEF AfterWait, WorkerPcs
<1>3. CASE AfterWait(w) \in Quiet
  BY <1>1, <1>3, QuietlyRight
<1>4. CASE AfterWait(w) \notin Quiet
  <2>1. w.status.state # "DEHYDRATING" /\ w.skip
    BY <1>1, <1>4 DEF AfterWait, Quiet, Workers
  <2>2. w.status.state = "FINALIZING" => NothingToAdd(w)
    BY <1>1, <2>1 DEF NothingToAdd
  <2> QED
    BY <1>1, <1>2, <1>w, <2>1, <2>2, ProceedRight
<1> QED
  BY <1>3, <1>4

LEMMA ExternalRight ==
  ASSUME EInv, Steady, WorkersRight, NEW n \in Engines, NEW t \in Tokens, External(n, t)
  PROVE  WorkersRight'
<1>1. CASE CopyReplicaFiles(n, t)
  <2>w. PICK w : w = Worker(n, t)
    OBVIOUS
  <2>1. At(n, t, "copy") /\ Proceed(n, t, "update") /\ w.status.state = "HYDRATING"
    BY <1>1, <2>w, StateAt DEF CopyReplicaFiles, PcStates
  <2> QED
    BY <2>w, <2>1, ProceedRight DEF WorkerPcs
<1>2. CASE ExternalFails(n, t)
  BY <1>2, QuietlyRight DEF ExternalFails, Quiet
<1> QED
  BY <1>1, <1>2, WaitRight DEF External

\* The replica is there when the leader says so.
LEMMA AddReplicaRight ==
  ASSUME EInv, Steady, WorkersRight, NEW n \in Engines, NEW t \in Tokens, AddReplica(n, t)
  PROVE  WorkersRight'
<1>w. PICK w : w = Worker(n, t)
  OBVIOUS
<1>1. At(n, t, "add") /\ w \in Workers /\ w.status.state = "FINALIZING"
  BY <1>w, AtIsBusy, StateAt DEF AddReplica, PcStates, Worker
<1>2. CASE Proceed(n, t, "error")
  BY <1>1, <1>2, QuietlyRight DEF Quiet
<1>3. ASSUME NEW outcome \in {"ok", "exists"}, ReplicationAddReplicaToShard(w.id, w.op, outcome),
             NEW next \in {"sync", "update"}, Proceed(n, t, next)
      PROVE  WorkersRight'
  <2>1. w.op.target \in replicas'[w.op.shard]
    <3>1. replicas \in [Shards -> SUBSET Nodes] /\ w.op.shard \in Shards
      BY <1>1 DEF EInv, StoreInv, ReplicasFinite, Workers, Op
    <3> QED
      BY <1>3, <3>1 DEF ReplicationAddReplicaToShard
  <2>2. Came(w.op.target, w.op.shard)'
    BY <2>1 DEF Came
  <2> QED
    BY <1>w, <1>1, <1>3, <2>2, ProceedRight DEF WorkerPcs
<1> QED
  BY <1>w, <1>2, <1>3 DEF AddReplica, LostCall, Ends

LEMMA DropReplicaRight ==
  ASSUME EInv, Steady, WorkersRight, NEW n \in Engines, NEW t \in Tokens, DropReplica(n, t)
  PROVE  WorkersRight'
<1>w. PICK w : w = Worker(n, t)
  OBVIOUS
<1>1. At(n, t, "drop") /\ w \in Workers /\ w.status.state = "DEHYDRATING"
  BY <1>w, AtIsBusy, StateAt DEF DropReplica, PcStates, Worker
<1>2. CASE Proceed(n, t, "error")
  BY <1>1, <1>2, QuietlyRight DEF Quiet
<1>3. ASSUME DeleteReplicaFromShard(w.op.shard, w.op.source, "ok"), Proceed(n, t, "sync")
      PROVE  WorkersRight'
  <2>1. w.op.source \notin replicas'[w.op.shard]
    <3>1. replicas \in [Shards -> SUBSET Nodes] /\ w.op.shard \in Shards
      BY <1>1 DEF EInv, StoreInv, ReplicasFinite, Workers, Op
    <3> QED
      BY <1>3, <3>1 DEF DeleteReplicaFromShard
  <2>2. Went(w.op.source, w.op.shard)'
    BY <2>1 DEF Went
  <2> QED
    BY <1>w, <1>1, <1>3, <2>2, ProceedRight DEF WorkerPcs
<1> QED
  BY <1>w, <1>2, <1>3 DEF DropReplica, LostCall, Ends

LEMMA SyncRight ==
  ASSUME EInv, Steady, WorkersRight, NEW n \in Engines, NEW t \in Tokens, Sync(n, t)
  PROVE  WorkersRight'
<1>w. PICK w : w = Worker(n, t)
  OBVIOUS
<1>1. At(n, t, "sync") /\ w.pc = "sync"
  BY <1>w DEF Sync, At
<1>2. CASE Proceed(n, t, "error")
  BY <1>1, <1>2, QuietlyRight DEF Quiet
<1>3. CASE Proceed(n, t, "update")
  <2>1. /\ w.status.state = "FINALIZING" => NothingToAdd(w)
        /\ w.status.state = "DEHYDRATING" => NothingToDrop(w)
    BY <1>1 DEF NothingToAdd, NothingToDrop
  <2> QED
    BY <1>w, <1>1, <1>3, <2>1, ProceedRight DEF WorkerPcs
<1> QED
  BY <1>2, <1>3 DEF Sync, LostCall

LEMMA RemoveRight ==
  ASSUME EInv, Steady, WorkersRight, NEW n \in Engines, NEW t \in Tokens, Remove(n, t)
  PROVE  WorkersRight'
<1>w. PICK w : w = Worker(n, t)
  OBVIOUS
<1>1. At(n, t, "remove") /\ w.status.state = "CANCELLED"
  BY <1>w, StateAt DEF Remove, PcStates
<1>2. CASE Proceed(n, t, "error")
  BY <1>1, <1>2, QuietlyRight DEF Quiet
<1>3. CASE Proceed(n, t, "update")
  BY <1>w, <1>1, <1>3, ProceedRight DEF WorkerPcs
<1> QED
  BY <1>2, <1>3 DEF Remove, LostCall

\* In the next state of its operation a worker begins anew.
LEMMA UpdateStatusRight ==
  ASSUME EInv, Steady, WorkersRight, NEW n \in Engines, NEW t \in Tokens, UpdateStatus(n, t)
  PROVE  WorkersRight'
<1>w. PICK w : w = Worker(n, t)
  OBVIOUS
<1>1. /\ t \in Busy(n) /\ w \in Workers /\ w = workers[n][t] /\ WorkerKnows(n, w) /\ WorkerRight(w)
  BY <1>w, AtIsBusy DEF UpdateStatus, Worker, WorkersRight
<1>2. CASE Succeed(n, t)
  BY <1>2, ExitRight DEF Succeed
<1>3. CASE Advance(n, t, [w EXCEPT !.status.state = NextState(w)], "handle")
  <2>v. PICK v : v = [[w EXCEPT !.status.state = NextState(w)]
                        EXCEPT !.pc = IF Stopped(n, t) THEN "cancel" ELSE "handle"]
    OBVIOUS
  <2>1. workers' = [workers EXCEPT ![n][t] = v]
    BY <1>3, <2>v DEF Advance
  <2>2. NextState(w) \in States
    BY <1>w, UpdateStep DEF UpdateStatus, UpdateStates, States
  <2>3. /\ v \in Workers /\ v.id = w.id /\ v.op = w.op /\ v.status.shouldDelete = w.status.shouldDelete
        /\ v.pc \in {"cancel", "handle"}
    BY <1>1, <2>v, <2>2 DEF Workers, Briefs, WorkerPcs
  <2>4. WorkerRight(v)'
    BY <1>1, <2>3, RightStays DEF NothingToAdd, NothingToDrop
  <2> QED
    BY <2>1, <2>4, OneStaysRight
<1> QED
  BY <1>w, <1>2, <1>3 DEF UpdateStatus

LEMMA WorkerStepRight ==
  ASSUME EInv, Steady, WorkersRight, ViewsPast, NEW n \in Engines, NEW t \in Tokens,
         WorkerStep(n, t) \/ External(n, t)
  PROVE  WorkersRight'
<1>1. CASE Start(n, t)
  <2>1. PICK pc \in {"cancel", "handle"} : workers' = [workers EXCEPT ![n][t].pc = pc]
    BY <1>1 DEF Start
  <2>w. PICK w : w = workers[n][t]
    OBVIOUS
  <2>2. workers' = [workers EXCEPT ![n][t] = [w EXCEPT !.pc = pc]] /\ At(n, t, "start")
    BY <1>1, <2>w, <2>1 DEF EInv, ETypes, Start
  <2>3. pc \in Quiet
    BY DEF Quiet
  <2> QED
    BY <2>w, <2>2, <2>3, QuietPcRight
<1>2. CASE CancelOp(n, t)
  <2>w. PICK w : w = workers[n][t]
    OBVIOUS
  <2>1. workers' = [workers EXCEPT ![n][t] = [w EXCEPT !.pc = "leave"]] /\ At(n, t, "cancel")
    BY <1>2, <2>w DEF EInv, ETypes, CancelOp
  <2>2. "leave" \in Quiet
    BY DEF Quiet
  <2> QED
    BY <2>w, <2>1, <2>2, QuietPcRight
<1>3. CASE HandleReady(n, t) \/ RegisterErrorAndFail(n, t) \/ Leave(n, t)
  BY <1>3, ExitRight DEF HandleReady, RegisterErrorAndFail, Leave, Succeed, Fail
<1>4. CASE UpdateStatusFails(n, t)
  BY <1>4, ExitRight, QuietlyRight DEF UpdateStatusFails, Fail, Quiet
<1>5. CASE Activate(n, t)
  BY <1>5, QuietlyRight DEF Activate, Quiet
<1> QED
  BY <1>1, <1>2, <1>3, <1>4, <1>5, HandleRight, ExternalRight, AddReplicaRight, DropReplicaRight, SyncRight,
     RemoveRight, UpdateStatusRight
  DEF WorkerStep

\* Workers that do not step, or are lost in a restart.
LEMMA StandingRight ==
  ASSUME EInv, Steady, WorkersRight,
         \A n \in Engines, t \in Tokens : workers'[n][t] = Idle \/ workers'[n][t] = workers[n][t]
  PROVE  WorkersRight'
<1> SUFFICES ASSUME NEW n \in Engines, NEW t \in Tokens, NEW x, x = workers'[n][t], x # Idle
             PROVE  WorkerRight(x)'
  BY DEF WorkersRight, Busy
<1>1. x = workers[n][t] /\ t \in Busy(n)
  BY DEF Busy
<1>2. x \in Workers /\ WorkerKnows(n, x) /\ WorkerRight(x)
  BY <1>1, WorkersAreWorkers DEF EInv, EWorkers, WorkersRight
<1> QED
  BY <1>2, RightStays DEF WorkerRight

\* A new worker has the flags of its message.
LEMMA CheckLeaderRight ==
  ASSUME EInv, Steady, WorkersRight, MessagesDoomed, NEW n \in Engines, CheckLeader(n)
  PROVE  WorkersRight'
<1>m. PICK msg : msg = main[n].msg
  OBVIOUS
<1>1. main[n] # Idle /\ main[n] \in Holdings
  BY DEF CheckLeader, EInv, ETypes, Idle
<1>2. /\ msg \in Messages /\ msg.id < nextId
      /\ msg.status.shouldDelete => Doomed(msg.id)
  BY <1>m, <1>1 DEF Holdings, EInv, EIds, Known, MessagesDoomed
<1>3. msg.id \in Nat
  BY <1>2 DEF Messages
<1>4. CASE workers' = workers
  BY <1>4, StandingRight
<1>5. CASE \E t \in Tokens : workers' = [workers EXCEPT ![n][t] = NewWorker(msg)]
  <2>1. PICK t \in Tokens : workers' = [workers EXCEPT ![n][t] = NewWorker(msg)]
    BY <1>5
  <2>v. PICK v : v = NewWorker(msg)
    OBVIOUS
  <2>2. v.pc = "start" /\ v.id = msg.id /\ v.status = msg.status
    BY <2>v DEF NewWorker
  <2>3. v.status.shouldDelete => Doomed(v.id)'
    BY <1>2, <1>3, <2>2 DEF Steady
  <2>4. WorkerRight(v)'
    BY <2>2, <2>3 DEF WorkerRight, NothingToAdd, NothingToDrop
  <2> QED
    BY <2>1, <2>4, <2>v, OneStaysRight
<1>6. \E t \in Tokens : t \notin Busy(n)
  BY <1>1 DEF CheckLeader, EInv, EClaims, Busy
<1> QED
  BY <1>m, <1>4, <1>5, <1>6 DEF CheckLeader

LEMMA ConsumerStepRight ==
  ASSUME EInv, Steady, WorkersRight, MessagesDoomed, ViewsPast, [ConsumerNext]_vars
  PROVE  WorkersRight'
<1>1. ASSUME workers' = workers PROVE WorkersRight'
  BY <1>1, StandingRight
<1>2. CASE UserStep \/ UNCHANGED vars
  BY <1>1, <1>2 DEF UserStep, vars, localVars
<1>3. ASSUME NEW n \in Engines,
             \/ Receive(n) \/ TakeToken(n) \/ CatchUp(n)
             \/ \E id \in Ids : Produce(n, id)
             \/ \E id \in backoff[n] : BackoffExpires(n, id)
      PROVE  WorkersRight'
  BY <1>1, <1>3 DEF Receive, TakeToken, CatchUp, Produce, BackoffExpires, localVars
<1>4. ASSUME NEW n \in Engines, Restart(n) PROVE WorkersRight'
  <2>1. \A m \in Engines, t \in Tokens : workers'[m][t] = Idle \/ workers'[m][t] = workers[m][t]
    BY <1>4 DEF Restart, EInv, ETypes
  <2> QED
    BY <2>1, StandingRight
<1>5. ASSUME NEW n \in Engines, NEW t \in Tokens, WorkerStep(n, t) \/ External(n, t)
      PROVE  WorkersRight'
  BY <1>5, WorkerStepRight
<1> QED
  BY <1>2, <1>3, <1>4, <1>5, CheckLeaderRight DEF ConsumerNext, MainLoop

----------------------------------------------------------------------------
(* Deletions are those of collections and tenants *)

LEMMA DeletionsStayDoomed ==
  ASSUME EInv, Frame, Steady, DeletionsDoomed, NEW X, X \subseteq Ids',
         \A i \in X : statusById'[i].shouldDelete => i \in Ids /\ statusById[i].shouldDelete
  PROVE  \A i \in X : statusById'[i].shouldDelete => Doomed(i)'
<1>1. \A i \in Ids : i \in Nat /\ i < nextId
  BY DEF EInv, StoreInv, IInv, TypeOK
<1> QED
  BY <1>1 DEF DeletionsDoomed, Steady

\* The commands by which operations are deleted with their shards.
LEMMA EmptyingDooms ==
  ASSUME EInv, Frame, Steady, DeletionsDoomed, NEW S \in SUBSET Shards,
         ChangeStatus({i \in Ids : opsById[i].shard \in S}, TriggerDeletion),
         replicas' = [s \in Shards |-> IF s \in S THEN {} ELSE replicas[s]]
  PROVE  DeletionsDoomed'
<1>1. /\ Ids' = Ids /\ opsById' = opsById
      /\ \A i \in Ids : opsById[i].shard \notin S => statusById'[i] = statusById[i]
  BY DEF ChangeStatus, EInv, StoreInv, IInv, TypeOK, Ids
<1>2. \A i \in Ids : opsById[i].shard \in Shards
  BY DEF EInv, StoreInv, IInv, TypeOK, Op
<1>3. ASSUME NEW i \in Ids, opsById[i].shard \in S PROVE Doomed(i)'
  BY <1>1, <1>2, <1>3 DEF Doomed, ShardExists
<1>4. \A i \in {j \in Ids : opsById[j].shard \notin S} : statusById'[i].shouldDelete => Doomed(i)'
  BY <1>1, DeletionsStayDoomed
<1> QED
  BY <1>1, <1>3, <1>4 DEF DeletionsDoomed

LEMMA UserStepDooms ==
  ASSUME EInv, Frame, Steady, DeletionsDoomed, OnlyWithTheShard, UserStep
  PROVE  DeletionsDoomed'
<1>1. /\ statusById \in [Ids -> Status] /\ IndexesAgree
      /\ \A i \in Ids : opsById[i].shard \in Shards
  BY DEF EInv, StoreInv, IInv, TypeOK, Op
<1>2. ASSUME NEW op \in Op, ReplicateReplica(op) PROVE DeletionsDoomed'
  <2>1. \A i \in Ids' : statusById'[i].shouldDelete => i \in Ids /\ statusById[i].shouldDelete
    BY <1>1, <1>2 DEF ReplicateReplica, Replicate, WriteOpIntoFSM, Put, NewShardReplicationStatus, Ids
  <2> QED
    BY <2>1, DeletionsStayDoomed DEF DeletionsDoomed
<1>3. ASSUME NEW id \in Ids, UserCancels(id) PROVE DeletionsDoomed'
  <2>1. /\ Ids' = Ids
        /\ \A i \in Ids : statusById'[i] = IF i = id THEN TriggerCancellation(statusById[i]) ELSE statusById[i]
    BY <1>1, <1>3 DEF UserCancels, CancelReplication, ChangeStatus, Ids
  <2>2. ~TriggerCancellation(statusById[id]).shouldDelete
    BY <1>1, <1>3 DEF TriggerCancellation, Status
  <2>3. \A i \in Ids' : statusById'[i].shouldDelete => i \in Ids /\ statusById[i].shouldDelete
    BY <2>1, <2>2
  <2> QED
    BY <2>3, DeletionsStayDoomed DEF DeletionsDoomed
<1>4. ASSUME NEW c \in Collections, DeleteClass(c) PROVE DeletionsDoomed'
  <2>1. PICK S : S = {s \in Shards : CollectionOf[s] = c}
    OBVIOUS
  <2>2. opsByCollection[c] = {i \in Ids : opsById[i].shard \in S}
    BY <1>1, <2>1 DEF IndexesAgree
  <2>3. replicas' = [s \in Shards |-> IF s \in S THEN {} ELSE replicas[s]]
    BY <1>4, <2>1 DEF DeleteClass
  <2>4. S \in SUBSET Shards
    BY <2>1
  <2> QED
    BY <1>4, <2>2, <2>3, <2>4, EmptyingDooms DEF DeleteClass, DeleteReplicationsByCollection
<1>5. ASSUME NEW S \in SUBSET Shards, DeleteTenants(S) PROVE DeletionsDoomed'
  <2>1. UNION {opsByCollectionAndShard[s] : s \in S} = {i \in Ids : opsById[i].shard \in S}
    BY <1>1 DEF IndexesAgree
  <2> QED
    BY <1>5, <2>1, EmptyingDooms DEF DeleteTenants, DeleteReplicationsByTenants
<1> QED
  BY <1>2, <1>3, <1>4, <1>5 DEF UserStep, StoreUserStep, OnlyWithTheShard

\* A worker deletes nothing.
DeletesNone == \A i \in Ids' : statusById'[i].shouldDelete => i \in Ids /\ statusById[i].shouldDelete

LEMMA WorkerStepDeletesNone ==
  ASSUME EInv, NEW n \in Engines, NEW t \in Tokens, WorkerStep(n, t) \/ External(n, t)
  PROVE  DeletesNone
<1>s. statusById \in [Ids -> Status] /\ IInv
  BY DEF EInv, StoreInv, IInv, TypeOK
<1>0. ASSUME UNCHANGED storeVars PROVE DeletesNone
  BY <1>0 DEF DeletesNone, storeVars, fsmVars, Ids
<1>1. CASE \/ Start(n, t) \/ Handle(n, t) \/ HandleReady(n, t) \/ Leave(n, t) \/ Sync(n, t)
           \/ External(n, t)
  BY <1>0, <1>1 DEF Start, Handle, HandleReady, Leave, Sync, LostCall, External,
     CopyReplicaFiles, WaitForAsyncReplication, ExternalFails
<1>2. ASSUME NEW id, NEW v, StoreSchemaVersion(id, v) PROVE DeletesNone
  BY <1>s, <1>2 DEF StoreSchemaVersion, ChangeStatus, Status, DeletesNone, Ids
<1>3. ASSUME NEW id, SetUnCancellable(id) PROVE DeletesNone
  BY <1>s, <1>3 DEF SetUnCancellable, ChangeStatus, Status, DeletesNone, Ids
<1>4. ASSUME NEW id, RegisterError(id) PROVE DeletesNone
  BY <1>s, <1>4 DEF RegisterError, ChangeStatus, Status, DeletesNone, Ids
<1>5. ASSUME NEW id, CancelReplication(id) PROVE DeletesNone
  BY <1>s, <1>5 DEF CancelReplication, ChangeStatus, TriggerCancellation, Status, DeletesNone, Ids
<1>6. ASSUME NEW id, CancellationComplete(id) PROVE DeletesNone
  BY <1>s, <1>6 DEF CancellationComplete, ChangeStatus, CompleteCancellation, ChangeState, Status,
     DeletesNone, Ids
<1>7. ASSUME NEW id, NEW state, UpdateReplicationOpStatus(id, state) PROVE DeletesNone
  BY <1>s, <1>7 DEF UpdateReplicationOpStatus, ChangeStatus, ChangeState, Status, DeletesNone, Ids
<1>8. ASSUME NEW id, NEW outcome, RemoveReplicaOp(id, outcome) PROVE DeletesNone
  BY <1>s, <1>0, <1>8 DEF RemoveReplicaOp, RemoveReplicationOp, RemoveOps, Without, DeletesNone, Ids
<1>9. ASSUME UNCHANGED fsmVars PROVE DeletesNone
  BY <1>9 DEF DeletesNone, fsmVars, Ids
<1>10. CASE Activate(n, t)
  BY <1>0, <1>2, <1>10 DEF Activate
<1>11. CASE AddReplica(n, t) \/ DropReplica(n, t)
  BY <1>0, <1>3, <1>9, <1>11 DEF AddReplica, DropReplica, LostCall, ReplicationAddReplicaToShard,
     DeleteReplicaFromShard
<1>12. CASE Remove(n, t) \/ CancelOp(n, t)
  BY <1>0, <1>6, <1>8, <1>12 DEF Remove, CancelOp, LostCall, CompleteCancellationOf
<1>13. CASE UpdateStatus(n, t) \/ UpdateStatusFails(n, t)
  BY <1>0, <1>7, <1>13 DEF UpdateStatus, UpdateStatusFails, UpdateReplicateOpState
<1>14. CASE RegisterErrorAndFail(n, t)
  BY <1>0, <1>4, <1>5, <1>9, <1>14 DEF RegisterErrorAndFail, ManagerRegisterError
<1> QED
  BY <1>1, <1>10, <1>11, <1>12, <1>13, <1>14 DEF WorkerStep

LEMMA ConsumerStepDooms ==
  ASSUME EInv, Frame, Steady, DeletionsDoomed, OnlyWithTheShard, [ConsumerNext]_vars
  PROVE  DeletionsDoomed'
<1>0. ASSUME UNCHANGED storeVars PROVE DeletesNone
  BY <1>0 DEF DeletesNone, storeVars, fsmVars, Ids
<1>1. ASSUME DeletesNone PROVE DeletionsDoomed'
  BY <1>1, DeletionsStayDoomed DEF DeletesNone, DeletionsDoomed
<1>2. CASE UserStep
  BY <1>2, UserStepDooms
<1>3. ASSUME NEW n \in Engines,
             \/ MainLoop(n) \/ CatchUp(n) \/ Restart(n)
             \/ \E id \in Ids : Produce(n, id)
             \/ \E id \in backoff[n] : BackoffExpires(n, id)
      PROVE  DeletesNone
  BY <1>0, <1>3 DEF MainLoop, Receive, TakeToken, CheckLeader, CatchUp, Restart, Produce, BackoffExpires
<1>4. ASSUME NEW n \in Engines, NEW t \in Tokens, WorkerStep(n, t) \/ External(n, t)
      PROVE  DeletesNone
  BY <1>4, WorkerStepDeletesNone
<1> QED
  BY <1>0, <1>1, <1>2, <1>3, <1>4 DEF ConsumerNext, vars

----------------------------------------------------------------------------
(* What the nodes have heard *)

\* Messages that are only passed on.
LEMMA HeardStays ==
  ASSUME EInv, Steady, MessagesDoomed, ViewsPast, view' = view, queue' = queue, main' = main
  PROVE  MessagesDoomed' /\ ViewsPast'
<1>1. ASSUME NEW n \in Engines
      PROVE  /\ \A i \in DOMAIN view[n].ops : i \in Nat /\ i < nextId
             /\ \A k \in 1 .. Len(queue[n]) : queue[n][k].id \in Nat /\ queue[n][k].id < nextId
             /\ main[n] # Idle => main[n].msg.id \in Nat /\ main[n].msg.id < nextId
  <2>1. queue[n] \in Seq(Messages) /\ main[n] \in {Idle} \cup Holdings
    BY DEF EInv, ETypes
  <2>2. \A k \in 1 .. Len(queue[n]) : queue[n][k] \in Messages
    BY <2>1
  <2> QED
    BY <2>1, <2>2 DEF EInv, ETypes, EIds, Known, Messages, Holdings
<1>2. MessagesDoomed'
  BY <1>1 DEF MessagesDoomed, Steady
<1>3. ViewsPast'
  BY DEF ViewsPast, Steady
<1> QED
  BY <1>2, <1>3

\* When the store stands still so does what the messages are about.
LEMMA DoomedStands ==
  ASSUME UNCHANGED storeVars
  PROVE  \A id : Doomed(id)' <=> Doomed(id)
  BY DEF Doomed, ShardExists, storeVars, fsmVars, Ids

LEMMA CatchUpHears ==
  ASSUME EInv, Steady, DeletionsDoomed, MessagesDoomed, ViewsPast, NEW n \in Engines, CatchUp(n)
  PROVE  MessagesDoomed' /\ ViewsPast'
<1>1. /\ UNCHANGED storeVars /\ queue' = queue /\ main' = main
      /\ \A m \in Engines : view'[m] = IF m = n THEN Applied(n) ELSE view[m]
  BY DEF CatchUp, localVars, EInv, ETypes
<1>2. \A id : Doomed(id)' <=> Doomed(id)
  BY <1>1, DoomedStands
<1>3. \A i \in DOMAIN Applied(n).ops : Applied(n).ops[i].shouldDelete => Doomed(i)
  <2>1. opsByTarget[n] \subseteq Ids
    BY ConsumerAssumption DEF ConsumerAssumption, EInv, StoreInv, IInv, TypeOK
  <2> QED
    BY <2>1 DEF Applied, Brief, DeletionsDoomed
<1>4. MessagesDoomed'
  BY <1>1, <1>2, <1>3 DEF MessagesDoomed
<1>5. replicas' = replicas /\ Applied(n).replicas = replicas
  BY <1>1 DEF storeVars, Applied
<1>6. ViewsPast'
  <2> SUFFICES ASSUME NEW m \in Engines, NEW s \in Shards, ShardExists(s)', NEW k \in Nodes
               PROVE  IF k \in view'[m].replicas[s] THEN Came(k, s)' ELSE Went(k, s)'
    BY DEF ViewsPast
  <2>1. CASE m = n
    BY <1>1, <1>5, <2>1 DEF Came, Went
  <2>2. CASE m # n
    <3>1. view'[m] = view[m] /\ ShardExists(s)
      BY <1>1, <2>2 DEF Steady
    <3>2. IF k \in view[m].replicas[s] THEN Came(k, s) ELSE Went(k, s)
      BY <3>1 DEF ViewsPast
    <3> QED
      BY <3>1, <3>2 DEF Steady
  <2> QED
    BY <2>1, <2>2
<1> QED
  BY <1>4, <1>6

LEMMA ProduceHears ==
  ASSUME EInv, Steady, MessagesDoomed, ViewsPast, NEW n \in Engines, NEW id, Produce(n, id)
  PROVE  MessagesDoomed' /\ ViewsPast'
<1>m. PICK msg : msg = [id |-> id, status |-> view[n].ops[id]]
  OBVIOUS
<1>1. /\ UNCHANGED storeVars /\ view' = view /\ main' = main
      /\ queue' = [queue EXCEPT ![n] = Append(queue[n], msg)] /\ id \in DOMAIN view[n].ops
  BY <1>m DEF Produce
<1>2. \A i : Doomed(i)' <=> Doomed(i)
  BY <1>1, DoomedStands
<1>3. msg \in Messages /\ (msg.status.shouldDelete => Doomed(msg.id))
  BY <1>m, <1>1 DEF MessagesDoomed, EInv, ETypes, Messages
<1>4. queue[n] \in Seq(Messages) /\ \A m \in Engines : queue'[m] = IF m = n THEN Append(queue[n], msg) ELSE queue[m]
  BY <1>1 DEF EInv, ETypes
<1>5. \A k \in 1 .. Len(Append(queue[n], msg)) :
        \/ k \in 1 .. Len(queue[n]) /\ Append(queue[n], msg)[k] = queue[n][k]
        \/ Append(queue[n], msg)[k] = msg
  BY <1>3, <1>4
<1>6. MessagesDoomed'
  BY <1>1, <1>2, <1>3, <1>4, <1>5 DEF MessagesDoomed
<1>7. ViewsPast'
  BY <1>1 DEF ViewsPast, Steady
<1> QED
  BY <1>6, <1>7

LEMMA MainLoopHears ==
  ASSUME EInv, Steady, MessagesDoomed, ViewsPast, NEW n \in Engines, MainLoop(n) \/ Restart(n)
  PROVE  MessagesDoomed' /\ ViewsPast'
<1>1. UNCHANGED storeVars /\ view' = view
  BY DEF MainLoop, Receive, TakeToken, CheckLeader, Restart
<1>2. \A i : Doomed(i)' <=> Doomed(i)
  BY <1>1, DoomedStands
<1>3. /\ queue \in [Engines -> Seq(Messages)] /\ main \in [Engines -> {Idle} \cup Holdings]
  BY DEF EInv, ETypes
<1>4. \A m \in Engines : main'[m] # Idle =>
        \/ main[m] # Idle /\ main'[m].msg = main[m].msg
        \/ queue[m] # <<>> /\ main'[m].msg = Head(queue[m])
  <2>1. CASE Receive(n)
    BY <1>3, <2>1 DEF Receive, Holding
  <2>2. CASE TakeToken(n)
    <3>1. main[n] # Idle /\ main[n] \in Holdings
      BY <1>3, <2>2 DEF TakeToken, Idle
    <3>h. PICK h : h = main[n]
      OBVIOUS
    <3>2. main' = [main EXCEPT ![n] = Idle] \/ main' = [main EXCEPT ![n] = [h EXCEPT !.pc = "check"]]
      BY <2>2, <3>h DEF TakeToken
    <3>3. [h EXCEPT !.pc = "check"].msg = h.msg
      BY <3>1, <3>h DEF Holdings
    <3> QED
      BY <1>3, <3>1, <3>2, <3>3, <3>h
  <2>3. CASE CheckLeader(n) \/ Restart(n)
    BY <1>3, <2>3 DEF CheckLeader, Restart
  <2> QED
    BY <2>1, <2>2, <2>3 DEF MainLoop
<1>5. \A m \in Engines :
        \/ queue'[m] = queue[m] \/ queue'[m] = <<>>
        \/ queue[m] # <<>> /\ queue'[m] = Tail(queue[m])
  <2>1. CASE Receive(n)
    <3>1. queue[n] # <<>> /\ queue' = [queue EXCEPT ![n] = Tail(queue[n])]
      BY <2>1 DEF Receive
    <3>2. \A m \in Engines : queue'[m] = IF m = n THEN Tail(queue[n]) ELSE queue[m]
      BY <1>3, <3>1
    <3> QED
      BY <3>1, <3>2
  <2>2. CASE TakeToken(n) \/ CheckLeader(n)
    BY <2>2 DEF TakeToken, CheckLeader
  <2>3. CASE Restart(n)
    BY <1>3, <2>3 DEF Restart
  <2> QED
    BY <2>1, <2>2, <2>3 DEF MainLoop
<1>6. \A m \in Engines : queue[m] # <<>> => Head(queue[m]) = queue[m][1] /\ 1 \in 1 .. Len(queue[m])
  BY <1>3
<1>7. \A m \in Engines : \A k \in 1 .. Len(queue'[m]) : \E j \in 1 .. Len(queue[m]) : queue'[m][k] = queue[m][j]
  <2> SUFFICES ASSUME NEW m \in Engines, NEW k \in 1 .. Len(queue'[m])
               PROVE  \E j \in 1 .. Len(queue[m]) : queue'[m][k] = queue[m][j]
    OBVIOUS
  <2>q. PICK q : q = queue[m]
    OBVIOUS
  <2>1. q \in Seq(Messages)
    BY <1>3, <2>q
  <2>2. CASE queue'[m] = Tail(q) /\ q # <<>>
    <3>1. k + 1 \in 1 .. Len(q) /\ Tail(q)[k] = q[k + 1]
      BY <2>1, <2>2
    <3> QED
      BY <2>q, <2>2, <3>1
  <2> QED
    BY <1>5, <2>q, <2>2
<1>8. MessagesDoomed'
  BY <1>1, <1>2, <1>4, <1>6, <1>7 DEF MessagesDoomed
<1>9. ViewsPast'
  BY <1>1 DEF ViewsPast, Steady
<1> QED
  BY <1>8, <1>9

LEMMA ConsumerStepHears ==
  ASSUME EInv, Steady, DeletionsDoomed, MessagesDoomed, ViewsPast, [ConsumerNext]_vars
  PROVE  MessagesDoomed' /\ ViewsPast'
<1>1. CASE UserStep \/ UNCHANGED vars
  BY <1>1, HeardStays DEF UserStep, vars, localVars
<1>2. ASSUME NEW n \in Engines, NEW t \in Tokens, WorkerStep(n, t) \/ External(n, t)
      PROVE  MessagesDoomed' /\ ViewsPast'
  <2>1. view' = view /\ queue' = queue /\ main' = main
    BY <1>2 DEF WorkerStep, External, Start, Handle, HandleReady, Activate, AddReplica, DropReplica, Sync,
       Remove, UpdateStatus, UpdateStatusFails, RegisterErrorAndFail, CancelOp, Leave, CopyReplicaFiles,
       WaitForAsyncReplication, ExternalFails, LostCall, Proceed, Advance, Succeed, Fail, Exit
  <2> QED
    BY <2>1, HeardStays
<1>3. ASSUME NEW n \in Engines, \E id \in backoff[n] : BackoffExpires(n, id)
      PROVE  MessagesDoomed' /\ ViewsPast'
  BY <1>3, HeardStays DEF BackoffExpires
<1> QED
  BY <1>1, <1>2, <1>3, CatchUpHears, ProduceHears, MainLoopHears DEF ConsumerNext

----------------------------------------------------------------------------
(* How an operation becomes DEHYDRATING and READY *)

\* A worker that has done what its state asks for moves operation i on.
Turns(i) ==
  \E n \in Engines : \E t \in Busy(n) :
    /\ workers[n][t].pc = "update" /\ workers[n][t].op = opsById[i]
    /\ workers[n][t].status.state = StateOf(i) /\ StateOf(i) \in States \ {"READY"}
    /\ statusById'[i].state = NextState(workers[n][t])

StateTurned ==
  \A i \in Ids \cap Ids' :
    statusById'[i].state = StateOf(i) \/ statusById'[i].state = "CANCELLED" \/ Turns(i)

LEMMA KeptIsTurned ==
  ASSUME StatesKept({})
  PROVE  StateTurned
  BY DEF StatesKept, StateTurned, StateOf

LEMMA UpdateTurns ==
  ASSUME EInv, NEW n \in Engines, NEW t \in Tokens, At(n, t, "update"),
         UpdateReplicateOpState(Worker(n, t).id, NextState(Worker(n, t)), "ok")
  PROVE  StateTurned
<1>w. PICK w : w = workers[n][t]
  OBVIOUS
<1>1. /\ w.id \in Ids /\ StateOf(w.id) # "CANCELLED" /\ w.id \in Ids'
      /\ statusById'[w.id].state = NextState(w)
  BY <1>w, UpdateSetsState DEF EInv, StoreInv, Worker
<1>2. StatesKept({w.id})
  BY <1>w, UpdateKeepsOtherStates DEF EInv, StoreInv, Worker
<1>3. /\ t \in Busy(n) /\ w.pc = "update" /\ w.op = opsById[w.id] /\ w.status.state = StateOf(w.id)
      /\ StateOf(w.id) \in States \ {"READY"}
  BY <1>w, <1>1, StateAt, AtIsBusy DEF Worker, At, WorkerKnows, PcStates
<1>4. Turns(w.id)
  BY <1>w, <1>1, <1>3 DEF Turns
<1> QED
  BY <1>2, <1>4 DEF StatesKept, StateTurned, StateOf

LEMMA CancellationTurns ==
  ASSUME EInv, NEW id, CompleteCancellationOf(id)
  PROVE  StateTurned
<1>1. StatesKept({id})
  BY CompleteCancellationKeepsOtherStates DEF EInv, StoreInv
<1>2. ASSUME id \in Ids PROVE statusById'[id].state = "CANCELLED"
  <2>1. statusById'[id] = CompleteCancellation(statusById[id]) /\ statusById[id] \in Status
    BY <1>2 DEF CompleteCancellationOf, CancellationComplete, ChangeStatus, EInv, StoreInv, IInv, TypeOK, Ids
  <2> QED
    BY <2>1 DEF CompleteCancellation, ChangeState, Status
<1> QED
  BY <1>1, <1>2 DEF StatesKept, StateTurned, StateOf

LEMMA ConsumerStepTurns ==
  ASSUME EInv, [ConsumerNext]_vars
  PROVE  StateTurned
<1>1. ASSUME UNCHANGED storeVars PROVE StateTurned
  BY <1>1, UnchangedFrame, KeptIsTurned
<1>2. CASE UserStep
  BY <1>2, UserKeepsStates, KeptIsTurned DEF UserStep, EInv, StoreInv
<1>3. ASSUME NEW n \in Engines,
             \/ MainLoop(n) \/ CatchUp(n) \/ Restart(n)
             \/ \E id \in Ids : Produce(n, id)
             \/ \E id \in backoff[n] : BackoffExpires(n, id)
      PROVE  StateTurned
  BY <1>1, <1>3 DEF MainLoop, Receive, TakeToken, CheckLeader, CatchUp, Restart, Produce, BackoffExpires
<1>4. ASSUME NEW n \in Engines, NEW t \in Tokens, WorkerStep(n, t) \/ External(n, t)
      PROVE  StateTurned
  <2>1. CASE QuietWorkerStep(n, t)
    BY <2>1, QuietStepKeepsStates, KeptIsTurned
  <2>2. CASE UpdateStatus(n, t)
    BY <2>2, UpdateTurns DEF UpdateStatus
  <2>3. CASE UpdateStatusFails(n, t)
    BY <1>1, <2>3, UpdateTurns DEF UpdateStatusFails, UpdateReplicateOpState
  <2>4. CASE CancelOp(n, t)
    <3>1. CASE \E outcome \in {"ok", "error"} : RemoveReplicaOp(Worker(n, t).id, outcome)
      BY <3>1, RemoveOpKeepsStates, KeptIsTurned DEF EInv, StoreInv
    <3> QED
      BY <1>1, <2>4, <3>1, CancellationTurns DEF CancelOp
  <2> QED
    BY <1>4, <2>1, <2>2, <2>3, <2>4 DEF WorkerStep, QuietWorkerStep
<1> QED
  BY <1>1, <1>2, <1>3, <1>4 DEF ConsumerNext, vars

\* Where an operation goes to from FINALIZING, its replica has come.
LEMMA TurnedHasCome ==
  ASSUME EInv, WorkersRight, NEW i \in Ids, Turns(i), ShardExists(opsById[i].shard)
  PROVE  /\ statusById'[i].state = "DEHYDRATING" => Came(opsById[i].target, opsById[i].shard)
         /\ statusById'[i].state = "READY" =>
              \/ StateOf(i) = "FINALIZING" /\ opsById[i].type = "COPY"
                 /\ Came(opsById[i].target, opsById[i].shard)
              \/ StateOf(i) = "DEHYDRATING" /\ Went(opsById[i].source, opsById[i].shard)
<1>1. PICK n \in Engines : \E t \in Busy(n) :
        /\ workers[n][t].pc = "update" /\ workers[n][t].op = opsById[i]
        /\ workers[n][t].status.state = StateOf(i) /\ StateOf(i) \in States \ {"READY"}
        /\ statusById'[i].state = NextState(workers[n][t])
  BY DEF Turns
<1>2. PICK t \in Busy(n) :
        /\ workers[n][t].pc = "update" /\ workers[n][t].op = opsById[i]
        /\ workers[n][t].status.state = StateOf(i) /\ StateOf(i) \in States \ {"READY"}
        /\ statusById'[i].state = NextState(workers[n][t])
  BY <1>1
<1>w. PICK w : w = workers[n][t]
  OBVIOUS
<1>3. WorkerRight(w)
  BY <1>w DEF WorkersRight
<1>4. /\ StateOf(i) = "FINALIZING" => Came(opsById[i].target, opsById[i].shard)
      /\ StateOf(i) = "DEHYDRATING" => Went(opsById[i].source, opsById[i].shard)
  BY <1>2, <1>3, <1>w DEF WorkerRight, NothingToAdd, NothingToDrop
<1>5. /\ statusById'[i].state = "DEHYDRATING" => StateOf(i) = "FINALIZING"
      /\ statusById'[i].state = "READY" =>
           StateOf(i) = "DEHYDRATING" \/ (StateOf(i) = "FINALIZING" /\ opsById[i].type = "COPY")
  BY <1>2, <1>w DEF NextState, States
<1> QED
  BY <1>4, <1>5

LEMMA DehydratingStaysCame ==
  ASSUME EInv, Frame, Steady, StateTurned, WorkersRight, DehydratingCame
  PROVE  DehydratingCame'
<1> SUFFICES ASSUME NEW i \in Ids', statusById'[i].state = "DEHYDRATING", NEW op, op = opsById'[i],
                    ShardExists(op.shard)'
             PROVE  Came(op.target, op.shard)'
  BY DEF DehydratingCame, StateOf
<1>1. i \in Ids /\ op = opsById[i]
  BY DEF Frame, IdsGrow, OpsKept
<1>2. op.shard \in Shards /\ op.target \in Nodes
  BY <1>1 DEF EInv, StoreInv, IInv, TypeOK, Op
<1>3. ShardExists(op.shard)
  BY <1>2 DEF Steady
<1>4. Came(op.target, op.shard)
  <2>1. CASE statusById'[i].state = StateOf(i)
    BY <1>1, <1>3, <2>1 DEF DehydratingCame
  <2>2. CASE Turns(i)
    BY <1>1, <1>3, <2>2, TurnedHasCome
  <2> QED
    BY <1>1, <2>1, <2>2 DEF StateTurned
<1> QED
  BY <1>2, <1>4 DEF Steady

----------------------------------------------------------------------------
(* The invariant *)

ReadyInv ==
  /\ EngineInv /\ WorkersHaveOps
  /\ Travels /\ DeletionsDoomed /\ MessagesDoomed /\ ViewsPast /\ DehydratingCame /\ WorkersRight

LEMMA ConsumerStepKeepsReadyInv ==
  ASSUME OnlyWithTheShard, ReadyInv, [ConsumerNext]_vars
  PROVE  ReadyInv'
<1>0. NoForcedRemoval
  BY DEF OnlyWithTheShard, NoForcedRemoval
<1>1. EInv /\ Frame /\ EngineInv' /\ WorkersHaveOps'
  BY <1>0, ConsumerStepKeepsEInv, ConsumerStepKeepsEngineInv, StoreStepFrame, ConsumerStepKeepsOps
  DEF ReadyInv, EngineInv, EInv
<1>2. RemovesDoomed
  BY <1>1, ConsumerStepRemovesDoomed DEF ReadyInv
<1>3. RegisterStep \/ StandStep \/ PlaceStep \/ DropStep
  BY ConsumerStepShape DEF ReadyInv
<1>4. Steady
  BY <1>1, <1>2, <1>3, StepMovesReplicas, StepIsSteady DEF ReadyInv
<1>5. Travels'
  <2>1. CASE Ids' \subseteq Ids
    BY <1>1, <2>1 DEF Travels, Frame, OpsKept, ReadyInv
  <2>2. ASSUME NEW op \in Op, ReplicateReplica(op) PROVE Travels'
    BY <2>2 DEF ReplicateReplica, Replicate, WriteOpIntoFSM, Put, Travels, Ids, ReadyInv
  <2> QED
    BY <1>3, <2>1, <2>2 DEF RegisterStep, StandStep, PlaceStep, DropStep
<1>6. DeletionsDoomed'
  BY <1>1, <1>4, ConsumerStepDooms DEF ReadyInv
<1>7. MessagesDoomed' /\ ViewsPast'
  BY <1>1, <1>4, ConsumerStepHears DEF ReadyInv
<1>8. WorkersRight'
  BY <1>1, <1>4, ConsumerStepRight DEF ReadyInv
<1>9. DehydratingCame'
  BY <1>1, <1>4, ConsumerStepTurns, DehydratingStaysCame DEF ReadyInv
<1> QED
  BY <1>1, <1>5, <1>6, <1>7, <1>8, <1>9 DEF ReadyInv

LEMMA InitReadyInv == ConsumerInit => ReadyInv
<1> SUFFICES ASSUME ConsumerInit PROVE ReadyInv
  OBVIOUS
<1>1. EngineInv /\ Ids = {} /\ \A n \in Engines : Busy(n) = {}
  BY InitEInv DEF EngineInv, OnlyMovesDehydrate, ConsumerInit, StoreInit, Init, Ids, Busy
<1>2. \A n \in Engines : opsByTarget[n] = {}
  BY ConsumerAssumption DEF ConsumerAssumption, ConsumerInit, StoreInit, Init
<1>3. MessagesDoomed
  BY <1>2 DEF MessagesDoomed, ConsumerInit, Applied
<1>4. ViewsPast
  BY DEF ViewsPast, ConsumerInit, Applied, Came, Went
<1> QED
  BY <1>1, <1>3, <1>4 DEF ReadyInv, WorkersHaveOps, Travels, DeletionsDoomed, DehydratingCame, WorkersRight

ReadyStep ==
  \A i \in Ids \cap Ids' :
    LET op == opsById[i]
        others == {opsById[j] : j \in opsByCollectionAndShard[op.shard] \ {i}}
    IN StateOf(i)' = "READY" /\ StateOf(i) # "READY" /\ ShardExists(op.shard)
         => /\ \/ op.target \in replicas[op.shard]
               \/ \E o \in others : o.type = "MOVE" /\ o.source = op.target
            /\ op.type = "MOVE" => \/ op.source \notin replicas[op.shard]
                                   \/ \E o \in others : o.target = op.source

LEMMA TurnedIsPlaced ==
  ASSUME ReadyInv, StateTurned
  PROVE  ReadyStep
<1> SUFFICES ASSUME NEW i \in Ids, i \in Ids', statusById'[i].state = "READY", StateOf(i) # "READY",
                    ShardExists(opsById[i].shard),
                    NEW op, op = opsById[i],
                    NEW others, others = {opsById[j] : j \in opsByCollectionAndShard[op.shard] \ {i}}
             PROVE  /\ \/ op.target \in replicas[op.shard]
                       \/ \E o \in others : o.type = "MOVE" /\ o.source = op.target
                    /\ op.type = "MOVE" => \/ op.source \notin replicas[op.shard]
                                           \/ \E o \in others : o.target = op.source
  BY DEF ReadyStep, StateOf
<1>1. EInv /\ IInv /\ op \in Op
  BY DEF ReadyInv, EngineInv, EInv, StoreInv, IInv, TypeOK
<1>2. Turns(i)
  BY DEF StateTurned
<1>3. /\ StateOf(i) = "FINALIZING" /\ op.type = "COPY" => Came(op.target, op.shard)
      /\ StateOf(i) = "DEHYDRATING" => Came(op.target, op.shard) /\ Went(op.source, op.shard)
      /\ StateOf(i) = "DEHYDRATING" \/ (StateOf(i) = "FINALIZING" /\ op.type = "COPY")
  BY <1>1, <1>2, TurnedHasCome DEF ReadyInv, DehydratingCame
<1>4. op.source # op.target
  BY DEF ReadyInv, Travels
<1>5. \A j \in Ids : opsById[j].shard = op.shard /\ j # i => opsById[j] \in others
  BY <1>1 DEF IInv, IndexesAgree, Op
<1>6. Came(op.target, op.shard) =>
        op.target \in replicas[op.shard] \/ \E o \in others : o.type = "MOVE" /\ o.source = op.target
  BY <1>4, <1>5 DEF Came, SourceFQDN
<1>7. Went(op.source, op.shard) =>
        op.source \notin replicas[op.shard] \/ \E o \in others : o.target = op.source
  BY <1>4, <1>5 DEF Went, TargetFQDN
<1> QED
  BY <1>3, <1>6, <1>7

\* Where operations are deleted only with their collection or tenant, one becomes
\* READY only when its replica has been added, and a MOVE when its source has
\* been dropped, unless another movement of these replicas undid it: however far
\* the nodes lag behind, and whichever calls fail and workers are lost.
THEOREM ReadyReplicasArePlaced ==
  ASSUME OnlyWithTheShard
  PROVE  ConsumerSpec => ReadyIsPlaced
<1>1. ConsumerSpec => []ReadyInv
  <2>1. ReadyInv /\ [ConsumerNext]_vars => ReadyInv'
    BY ConsumerStepKeepsReadyInv
  <2> QED
    BY <2>1, InitReadyInv, PTL DEF ConsumerSpec
<1>2. ReadyInv /\ [ConsumerNext]_vars => [ReadyStep]_vars
  BY ConsumerStepTurns, TurnedIsPlaced DEF ReadyInv, EngineInv
<1>3. ConsumerSpec => [][ReadyStep]_vars
  BY <1>1, <1>2, PTL DEF ConsumerSpec
<1> QED
  BY <1>3 DEF ReadyIsPlaced, ReadyStep
=============================================================================
