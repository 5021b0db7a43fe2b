------------------------ MODULE ReplicationConsumer ------------------------
(***************************************************************************)
(* Replica movement end to end: the engine of each node (producer.go,      *)
(* consumer.go, consumer_ops_cache.go, consumer_ops_gateway.go) drives the *)
(* operations that the users register in ReplicationStore.                 *)
(*                                                                         *)
(* The store is what the leader has applied; `view` is what a node has     *)
(* applied of it, some earlier prefix.  On the target node of an           *)
(* operation the producer polls its view and sends a message (the          *)
(* operation with its status at that moment) over a bounded channel; the   *)
(* consumer's main loop marks cancellations, checks the leader's state and *)
(* starts a worker, which walks the states of the operation by calls to    *)
(* the leader.  A worker keeps the flags of its message to the end.        *)
(*                                                                         *)
(* A call to the leader is applied, refused, or fails on the way: then it  *)
(* has been applied or not, and the worker cannot tell.  A call that       *)
(* failed is assumed not to be applied later: the worker ends, and its     *)
(* operation backs off for some seconds (GatewayInitialBackoffPeriod).     *)
(* Copying files and async replication are external; they succeed or fail. *)
(***************************************************************************)
EXTENDS ReplicationStore, Sequences

CONSTANTS
  Engines,      \* bound: the nodes that users move replicas to
  MaxWorkers,   \* the tokens of a node's consumer
  QueueSize,    \* capacity of the channel (16 in the code)
  MaxRestarts,  \* bound: restarts of nodes
  CallsFail     \* bound: whether calls to the leader and external steps may fail

ASSUME ConsumerAssumption ==
  /\ Engines \subseteq Nodes
  /\ MaxWorkers \in Nat \ {0} /\ QueueSize \in Nat \ {0} /\ MaxRestarts \in Nat
  /\ CallsFail \in BOOLEAN

VARIABLES
  view,       \* what each node has applied: the states of its operations, the replicas
  queue,      \* opsChan of each node
  main,       \* Consume of each node: waiting for a message, or what it does with one
  workers,    \* one worker, or none, behind each token
  inFlight,   \* OpsCache.inFlight
  cancelled,  \* OpsCache.hasBeenCancelled
  backoff,    \* the operations OpsGateway does not schedule yet
  restarts

localVars == <<queue, main, workers, inFlight, cancelled, backoff>>
vars == <<storeVars, view, localVars, restarts>>

Tokens == 1 .. MaxWorkers

\* The part of a status that the producer and the consumer look at.
Brief(status) ==
  [state |-> status.state, schemaVersion |-> status.schemaVersion,
   shouldCancel |-> status.shouldCancel, shouldDelete |-> status.shouldDelete]

\* What node n sees once it has applied everything.
Applied(n) ==
  [ops |-> [i \in opsByTarget[n] |-> Brief(statusById[i])], replicas |-> replicas]

Idle == [pc |-> "idle"]

\* A message in the hands of the main loop, and a worker.
Holding(pc, msg) == [pc |-> pc, msg |-> msg]
NewWorker(msg) ==
  [pc |-> "start", id |-> msg.id, op |-> opsById[msg.id], status |-> msg.status, skip |-> FALSE]

Busy(n) == {t \in Tokens : workers[n][t] # Idle}

----------------------------------------------------------------------------
(* Nodes apply the log, the producer polls *)

CatchUp(n) ==
  /\ view[n] # Applied(n)
  /\ view' = [view EXCEPT ![n] = Applied(n)]
  /\ UNCHANGED <<storeVars, localVars, restarts>>

\* Seeded bug: the channel is not bounded.
Produce_Unbounded(n, id) ==
  /\ id \in DOMAIN view[n].ops
  /\ ShouldConsumeOps(view[n].ops[id])
  /\ queue' = [queue EXCEPT ![n] = Append(@, [id |-> id, status |-> view[n].ops[id]])]
  /\ UNCHANGED <<storeVars, view, main, workers, inFlight, cancelled, backoff, restarts>>

Produce(n, id) ==
  /\ id \in DOMAIN view[n].ops
  /\ ShouldConsumeOps(view[n].ops[id])
  /\ Len(queue[n]) < QueueSize
  /\ queue' = [queue EXCEPT ![n] = Append(@, [id |-> id, status |-> view[n].ops[id]])]
  /\ UNCHANGED <<storeVars, view, main, workers, inFlight, cancelled, backoff, restarts>>

----------------------------------------------------------------------------
(* Consume: the main loop *)

\* A message to cancel a running operation cancels its context; any other goes
\* on to a worker unless the operation is backing off.
Receive(n) ==
  /\ main[n] = Idle
  /\ queue[n] # <<>>
  /\ LET msg == Head(queue[n])
         mark == msg.status.shouldCancel /\ msg.id \notin cancelled[n]
         interrupt == mark /\ msg.id \in inFlight[n]
     IN /\ cancelled' = [cancelled EXCEPT ![n] = IF mark THEN @ \cup {msg.id} ELSE @]
        /\ main' = [main EXCEPT ![n] = IF interrupt \/ msg.id \in backoff[n]
                                       THEN Idle ELSE Holding("token", msg)]
  /\ queue' = [queue EXCEPT ![n] = Tail(@)]
  /\ UNCHANGED <<storeVars, view, workers, inFlight, backoff, restarts>>

\* Seeded bug: an operation that already has a worker is claimed again.
TakeToken_ClaimingTwice(n) ==
  /\ main[n].pc = "token"
  /\ Cardinality(Busy(n)) < MaxWorkers
  /\ main' = [main EXCEPT ![n].pc = "check"]
  /\ inFlight' = [inFlight EXCEPT ![n] = @ \cup {main[n].msg.id}]
  /\ UNCHANGED <<storeVars, view, queue, workers, cancelled, backoff, restarts>>

\* The loop blocks here until a token is free, then claims the operation.
TakeToken(n) ==
  /\ main[n].pc = "token"
  /\ Cardinality(Busy(n)) < MaxWorkers
  /\ LET id == main[n].msg.id
     IN IF id \in inFlight[n]
        THEN main' = [main EXCEPT ![n] = Idle] /\ UNCHANGED inFlight
        ELSE /\ main' = [main EXCEPT ![n].pc = "check"]
             /\ inFlight' = [inFlight EXCEPT ![n] = @ \cup {id}]
  /\ UNCHANGED <<storeVars, view, queue, workers, cancelled, backoff, restarts>>

\* Seeded bug: the state at the leader is not compared with that of the message.
CheckLeader_Unchecked(n) ==
  /\ main[n].pc = "check"
  /\ LET msg == main[n].msg
         free == CHOOSE t \in Tokens : t \notin Busy(n)
     IN IF msg.id \in Ids
        THEN /\ workers' = [workers EXCEPT ![n][free] = NewWorker(msg)]
             /\ UNCHANGED inFlight
        ELSE /\ inFlight' = [inFlight EXCEPT ![n] = @ \ {msg.id}]
             /\ UNCHANGED workers
  /\ main' = [main EXCEPT ![n] = Idle]
  /\ UNCHANGED <<storeVars, view, queue, cancelled, backoff, restarts>>

\* Seeded bug: an operation that is skipped stays claimed.
CheckLeader_KeepingClaim(n) ==
  /\ main[n].pc = "check"
  /\ LET msg == main[n].msg
         free == CHOOSE t \in Tokens : t \notin Busy(n)
     IN IF msg.id \in Ids /\ StateOf(msg.id) = msg.status.state
        THEN workers' = [workers EXCEPT ![n][free] = NewWorker(msg)]
        ELSE UNCHANGED workers
  /\ main' = [main EXCEPT ![n] = Idle]
  /\ UNCHANGED <<storeVars, view, queue, inFlight, cancelled, backoff, restarts>>

\* The leader must still have the operation in the state of the message.
CheckLeader(n) ==
  /\ main[n].pc = "check"
  /\ LET msg == main[n].msg
         current == msg.id \in Ids /\ StateOf(msg.id) = msg.status.state
     IN \/ /\ current
           /\ LET free == CHOOSE t \in Tokens : t \notin Busy(n)
              IN workers' = [workers EXCEPT ![n][free] = NewWorker(msg)]
           /\ UNCHANGED inFlight
        \/ /\ ~current \/ CallsFail      \* it has changed, or no answer
           /\ inFlight' = [inFlight EXCEPT ![n] = @ \ {msg.id}]
           /\ UNCHANGED workers
  /\ main' = [main EXCEPT ![n] = Idle]
  /\ UNCHANGED <<storeVars, view, queue, cancelled, backoff, restarts>>

BackoffExpires(n, id) ==
  /\ id \in backoff[n]
  /\ backoff' = [backoff EXCEPT ![n] = @ \ {id}]
  /\ UNCHANGED <<storeVars, view, queue, main, workers, inFlight, cancelled, restarts>>

----------------------------------------------------------------------------
(* The worker.  Its pc:                                                      *)
(*   start    the goroutine begins                                           *)
(*   handle   processStateAndTransition enters the handler of the state      *)
(*   activate, copy           HYDRATING: tenant made active, files copied    *)
(*   wait, add, drop, sync    FINALIZING and DEHYDRATING                     *)
(*   remove   CANCELLED: the operation is removed                            *)
(*   update   the handler succeeded: the leader is asked for the next state  *)
(*   error    the handler failed: the error is registered at the leader      *)
(*   cancel   cancelOp                                                       *)
(*   leave    cancelOp returned, its token and inFlight are still held       *)

Worker(n, t) == workers[n][t]
At(n, t, pc) == Worker(n, t).pc = pc

\* Between two calls the worker looks at hasBeenCancelled or at its context,
\* both set by Receive; if they are set the attempt counts as a failure
\* (backoff) and cancelOp follows.
Stopped(n, t) == Worker(n, t).id \in cancelled[n]

Advance(n, t, w, pc) ==
  /\ workers' = [workers EXCEPT ![n][t] = [w EXCEPT !.pc = IF Stopped(n, t) THEN "cancel" ELSE pc]]
  /\ backoff' = [backoff EXCEPT ![n] = IF Stopped(n, t) THEN @ \cup {w.id} ELSE @]
  /\ UNCHANGED <<view, queue, main, inFlight, cancelled, restarts>>

Proceed(n, t, pc) == Advance(n, t, Worker(n, t), pc)

\* Seeded bug: the token is not released.
Exit_KeepingToken(n, t, newBackoff) ==
  /\ workers' = [workers EXCEPT ![n][t].pc = "returned"]
  /\ inFlight' = [inFlight EXCEPT ![n] = @ \ {Worker(n, t).id}]
  /\ backoff' = [backoff EXCEPT ![n] = newBackoff]
  /\ UNCHANGED <<view, queue, main, cancelled, restarts>>

\* The goroutine returns: the token and inFlight are released.
Exit(n, t, newBackoff) ==
  /\ workers' = [workers EXCEPT ![n][t] = Idle]
  /\ inFlight' = [inFlight EXCEPT ![n] = @ \ {Worker(n, t).id}]
  /\ backoff' = [backoff EXCEPT ![n] = newBackoff]
  /\ UNCHANGED <<view, queue, main, cancelled, restarts>>

Succeed(n, t) == Exit(n, t, backoff[n] \ {Worker(n, t).id})
Fail(n, t) == Exit(n, t, backoff[n] \cup {Worker(n, t).id})

Start(n, t) ==
  /\ At(n, t, "start")
  /\ workers' = [workers EXCEPT ![n][t].pc = IF Stopped(n, t) THEN "cancel" ELSE "handle"]
  /\ UNCHANGED <<storeVars, view, queue, main, inFlight, cancelled, backoff, restarts>>

\* Seeded bug: a MOVE whose target is there has nothing left to do.
AlreadyDone_TargetOnly(w, here) ==
  w.status.state \in {"FINALIZING", "DEHYDRATING"} /\ w.op.target \in here

\* The handlers read the sharding state of their own node and decide from it,
\* once, whether the replica is still to be added (removed).
AlreadyDone(w, here) ==
  \/ w.status.state = "FINALIZING" /\ w.op.target \in here
  \/ w.status.state = "DEHYDRATING" /\ w.op.source \notin here

FirstStep(w, here) ==
  CASE w.status.state = "REGISTERED" -> "update"
    [] w.status.state = "HYDRATING" -> IF SchemaVersions = {0} THEN "copy" ELSE "activate"
    [] w.status.state = "FINALIZING" -> IF here = {} THEN "error" ELSE "wait"
    [] w.status.state = "DEHYDRATING" ->
         IF here = {} THEN "error" ELSE IF AlreadyDone(w, here) THEN "sync" ELSE "wait"
    [] w.status.state = "CANCELLED" -> IF w.status.shouldDelete THEN "remove" ELSE "error"

Handle(n, t) ==
  LET w == Worker(n, t)
      here == view[n].replicas[w.op.shard]
  IN /\ At(n, t, "handle")
     /\ w.status.state # "READY"
     /\ Advance(n, t, [w EXCEPT !.skip = AlreadyDone(w, here)], FirstStep(w, here))
     /\ UNCHANGED storeVars

\* dispatchReplicationOp has nothing to do for an operation that is READY.
HandleReady(n, t) ==
  /\ At(n, t, "handle")
  /\ Worker(n, t).status.state = "READY"
  /\ Succeed(n, t)
  /\ UNCHANGED storeVars

\* UpdateTenants makes the tenant active and returns a schema version, which is
\* stored with the operation at the leader; the worker's own status is not touched.
Activate(n, t) ==
  /\ At(n, t, "activate")
  /\ \/ /\ \E v \in SchemaVersions \ {0} : StoreSchemaVersion(Worker(n, t).id, v)
        /\ UNCHANGED replicas
        /\ Proceed(n, t, "copy") \/ (CallsFail /\ Proceed(n, t, "error"))
     \/ /\ Worker(n, t).id \notin Ids \/ CallsFail
        /\ UNCHANGED storeVars
        /\ Proceed(n, t, "error")

\* External: the files are copied; async replication reports that it caught up.
CopyReplicaFiles(n, t) ==
  /\ At(n, t, "copy")
  /\ Proceed(n, t, "update")
  /\ UNCHANGED storeVars

AfterWait(w) ==
  IF w.status.state = "DEHYDRATING" THEN "drop"
  ELSE IF ~w.skip THEN "add"
  ELSE IF w.op.type = "COPY" THEN "sync" ELSE "update"

WaitForAsyncReplication(n, t) ==
  /\ At(n, t, "wait")
  /\ Proceed(n, t, AfterWait(Worker(n, t)))
  /\ UNCHANGED storeVars

\* They fail, by themselves or because the context is cancelled.
ExternalFails(n, t) ==
  /\ At(n, t, "copy") \/ At(n, t, "wait")
  /\ CallsFail \/ Stopped(n, t)
  /\ Proceed(n, t, "error")
  /\ UNCHANGED storeVars

\* How a call that the leader applied may end: with its own outcome, or, when the
\* reply is lost, with an error; LostCall is the call that was not applied at all.
Ends(outcome, good) ==
  IF outcome \in good THEN {"ok"} \cup (IF CallsFail THEN {"error"} ELSE {}) ELSE {"error"}

LostCall(n, t) == CallsFail /\ UNCHANGED storeVars /\ Proceed(n, t, "error")

\* ReplicationAddReplicaToShard: "already exists" is as good as done.  A COPY
\* goes on to SyncShard within the handler; a MOVE is done with FINALIZING.
AddReplica(n, t) ==
  LET w == Worker(n, t)
      next == IF w.op.type = "COPY" THEN "sync" ELSE "update"
  IN /\ At(n, t, "add")
     /\ \/ \E outcome \in {"ok", "exists", "error"} :
             /\ ReplicationAddReplicaToShard(w.id, w.op, outcome)
             /\ \E end \in Ends(outcome, {"ok", "exists"}) :
                  Proceed(n, t, IF end = "ok" THEN next ELSE "error")
        \/ LostCall(n, t)

DropReplica(n, t) ==
  LET w == Worker(n, t)
  IN /\ At(n, t, "drop")
     /\ \/ \E outcome \in {"ok", "error"} :
             /\ DeleteReplicaFromShard(w.op.shard, w.op.source, outcome)
             /\ \E end \in Ends(outcome, {"ok"}) :
                  Proceed(n, t, IF end = "ok" THEN "sync" ELSE "error")
        \/ LostCall(n, t)

\* SyncShard loads or shuts down the local shards of both nodes; it changes
\* nothing that is modelled here.
Sync(n, t) ==
  /\ At(n, t, "sync")
  /\ \/ UNCHANGED storeVars /\ Proceed(n, t, "update")
     \/ LostCall(n, t)

\* processCancelledOp
Remove(n, t) ==
  /\ At(n, t, "remove")
  /\ \/ \E outcome \in {"ok", "error"} :
          /\ RemoveReplicaOp(Worker(n, t).id, outcome)
          /\ \E end \in Ends(outcome, {"ok"}) :
               Proceed(n, t, IF end = "ok" THEN "update" ELSE "error")
     \/ LostCall(n, t)

\* The next state of an operation whose handler has succeeded.
NextState(w) ==
  CASE w.status.state = "REGISTERED" -> "HYDRATING"
    [] w.status.state = "HYDRATING" -> "FINALIZING"
    [] w.status.state = "FINALIZING" -> IF w.op.type = "COPY" THEN "READY" ELSE "DEHYDRATING"
    [] w.status.state = "DEHYDRATING" -> "READY"
    [] w.status.state = "CANCELLED" -> "DELETED"

\* The leader moved the operation on: so does the worker, until READY.
UpdateStatus(n, t) ==
  LET w == Worker(n, t)
      next == NextState(w)
  IN /\ At(n, t, "update")
     /\ UpdateReplicateOpState(w.id, next, "ok")
     /\ IF next = "READY"
        THEN Succeed(n, t)
        ELSE Advance(n, t, [w EXCEPT !.status.state = next], "handle")

\* The update is refused (the operation is CANCELLED or gone) or the reply is
\* lost: the worker fails, without cancelOp unless the error says Canceled.
UpdateStatusFails(n, t) ==
  LET w == Worker(n, t)
  IN /\ At(n, t, "update")
     /\ \/ UpdateReplicateOpState(w.id, NextState(w), "error")
        \/ CallsFail /\ (UpdateReplicateOpState(w.id, NextState(w), "ok") \/ UNCHANGED storeVars)
     /\ \/ Fail(n, t)
        \/ Stopped(n, t) /\ Proceed(n, t, "cancel")

RegisterErrorAndFail(n, t) ==
  /\ At(n, t, "error")
  /\ ManagerRegisterError(Worker(n, t).id) \/ (CallsFail /\ UNCHANGED storeVars)
  /\ Fail(n, t)

\* The message that the worker was started with says what the leader is told;
\* a worker stopped half way has no flag set and tells nothing.
CancelOp(n, t) ==
  LET w == Worker(n, t)
  IN /\ At(n, t, "cancel")
     /\ \/ /\ w.status.shouldCancel /\ ~w.status.shouldDelete
           /\ CompleteCancellationOf(w.id)
        \/ /\ w.status.shouldDelete
           /\ \E outcome \in {"ok", "error"} : RemoveReplicaOp(w.id, outcome)
        \/ ~w.status.shouldCancel /\ UNCHANGED storeVars
        \/ CallsFail /\ UNCHANGED storeVars
     /\ cancelled' = [cancelled EXCEPT ![n] = @ \ {w.id}]
     /\ workers' = [workers EXCEPT ![n][t].pc = "leave"]
     /\ UNCHANGED <<view, queue, main, inFlight, backoff, restarts>>

Leave(n, t) ==
  /\ At(n, t, "leave")
  /\ Exit(n, t, backoff[n])
  /\ UNCHANGED storeVars

----------------------------------------------------------------------------
(* A node restarts: its engine starts empty; its view is what it had applied. *)

Restart(n) ==
  /\ restarts < MaxRestarts
  /\ restarts' = restarts + 1
  /\ queue' = [queue EXCEPT ![n] = <<>>]
  /\ main' = [main EXCEPT ![n] = Idle]
  /\ workers' = [workers EXCEPT ![n] = [t \in Tokens |-> Idle]]
  /\ inFlight' = [inFlight EXCEPT ![n] = {}]
  /\ cancelled' = [cancelled EXCEPT ![n] = {}]
  /\ backoff' = [backoff EXCEPT ![n] = {}]
  /\ UNCHANGED <<storeVars, view>>

----------------------------------------------------------------------------
(* The specification *)

ConsumerInit ==
  /\ StoreInit
  /\ view = [n \in Engines |-> Applied(n)]
  /\ queue = [n \in Engines |-> <<>>]
  /\ main = [n \in Engines |-> Idle]
  /\ workers = [n \in Engines |-> [t \in Tokens |-> Idle]]
  /\ inFlight = [n \in Engines |-> {}]
  /\ cancelled = [n \in Engines |-> {}]
  /\ backoff = [n \in Engines |-> {}]
  /\ restarts = 0

UserStep ==
  /\ StoreUserStep
  /\ \A i \in Ids' : opsById'[i].target \in Engines
  /\ UNCHANGED <<view, localVars, restarts>>

MainLoop(n) == Receive(n) \/ TakeToken(n) \/ CheckLeader(n)

\* The steps of a worker that succeed, and those that fail.
WorkerStep(n, t) ==
  \/ Start(n, t) \/ Handle(n, t) \/ HandleReady(n, t) \/ Activate(n, t)
  \/ AddReplica(n, t) \/ DropReplica(n, t) \/ Sync(n, t) \/ Remove(n, t)
  \/ UpdateStatus(n, t) \/ UpdateStatusFails(n, t) \/ RegisterErrorAndFail(n, t)
  \/ CancelOp(n, t) \/ Leave(n, t)

External(n, t) ==
  CopyReplicaFiles(n, t) \/ WaitForAsyncReplication(n, t) \/ ExternalFails(n, t)

ConsumerNext ==
  \/ UserStep
  \/ \E n \in Engines :
       \/ CatchUp(n)
       \/ \E id \in Ids : Produce(n, id)
       \/ MainLoop(n)
       \/ \E id \in backoff[n] : BackoffExpires(n, id)
       \/ \E t \in Tokens : WorkerStep(n, t) \/ External(n, t)
       \/ Restart(n)

ConsumerSpec == ConsumerInit /\ [][ConsumerNext]_vars

\* Goroutines are scheduled, raft entries reach every node, the timers of the
\* gateway expire, and a cancelled context makes an external step return.  The
\* producer's loop offers every operation in turn, so one that it can send
\* again and again is sent.  Only an external step may hang.
Fairness ==
  \A n \in Engines :
    /\ WF_vars(CatchUp(n)) /\ WF_vars(MainLoop(n))
    /\ \A id \in 1 .. MaxOps : SF_vars(Produce(n, id)) /\ WF_vars(BackoffExpires(n, id))
    /\ \A t \in Tokens : WF_vars(WorkerStep(n, t)) /\ WF_vars(External(n, t) /\ Stopped(n, t))

\* The operation timeout (24h) ends an external step that hangs.
ExternalFairness == \A n \in Engines : \A t \in Tokens : WF_vars(External(n, t))

FairSpec == ConsumerSpec /\ Fairness /\ ExternalFairness

----------------------------------------------------------------------------
(* The engine implements ReplicaMovement *)

\* A replica may still be dropped for an operation that is DEHYDRATING, and by a
\* worker that takes it to be, though the operation may be gone by now.
Departing ==
  {<<opsById[i].source, opsById[i].shard>> : i \in {j \in Ids : StateOf(j) = "DEHYDRATING"}}
  \cup {<<w.op.source, w.op.shard>> :
          w \in {v \in UNION {{workers[n][t] : t \in Busy(n)} : n \in Engines} :
                   v.status.state = "DEHYDRATING"}}

Staged(i) ==
  [source |-> opsById[i].source, target |-> opsById[i].target, shard |-> opsById[i].shard,
   type |-> opsById[i].type, stage |-> StateOf(i)]

Movement == INSTANCE ReplicaMovement
  WITH Factor <- ReplicationFactor, Initial <- InitialReplicas,
       ops <- [i \in Ids |-> Staged(i)], holders <- replicas, departing <- Departing

\* Whatever messages are stale or doubled, whichever calls fail and workers are
\* cancelled or lost, and however late a worker is: operations go through their
\* stages, replicas are added while FINALIZING and dropped after DEHYDRATING.
MovesReplicas == Movement!MovementSpec

----------------------------------------------------------------------------
(* Properties *)

WorkerPcs == {"start", "handle", "activate", "copy", "wait", "add", "drop", "sync",
              "remove", "update", "error", "cancel", "leave"}

\* The engines' variables have their types, and a token is never used twice.
ConsumerTypeOK ==
  /\ StoreTypeOK
  /\ \A n \in Engines :
       /\ Len(queue[n]) <= QueueSize
       /\ main[n].pc \in {"idle", "token", "check"}
       /\ \A t \in Busy(n) : workers[n][t].pc \in WorkerPcs
       /\ main[n].pc = "check" => Cardinality(Busy(n)) < MaxWorkers

\* An operation has at most one worker, whatever duplicates of its messages
\* were queued, and only on its target node; inFlight holds it throughout.
OneWorkerPerOp ==
  \A n \in Engines : \A t \in Busy(n) :
    /\ workers[n][t].op.target = n
    /\ workers[n][t].id \in inFlight[n]
    /\ main[n].pc = "check" => workers[n][t].id # main[n].msg.id
    /\ \A u \in Busy(n) : workers[n][t].id = workers[n][u].id => t = u

\* The states of an operation follow the edges of its type, though any state
\* could be asked for and workers come and go with stale messages.
StatesFollowEdges ==
  [][\A i \in Ids \cap Ids' :
       StateOf(i)' # StateOf(i) => <<StateOf(i), StateOf(i)'>> \in Movement!Edges(opsById[i].type)]_vars

\* Whatever is moved, cancelled or deleted, a shard keeps a replica that serves
\* reads, with two exceptions, in which its last replica serves nothing.  An
\* operation may be CANCELLED after its replica had been added: the request to
\* add does not look again at the operation the worker looked at before
\* (cluster/schema/manager.go:549).  And a worker that is started again for a
\* MOVE drops the source a second time though a MOVE back has added it since
\* (consumer.go:696): that one is then DEHYDRATING without its target.  An
\* operation that is removed by force leaves such a worker behind and no longer
\* makes the exception: of three operations, two of them removed by force, no
\* replica may serve.  One that is removed alone does no harm.
CancelledButPlaced(id) ==
  StateOf(id) = "CANCELLED" /\ opsById[id].target \in replicas[opsById[id].shard]

DehydratingButDropped(id) ==
  StateOf(id) = "DEHYDRATING" /\ opsById[id].target \notin replicas[opsById[id].shard]

SomeReplicaServesReads ==
  \A s \in Shards :
    ShardExists(s) => \/ FilterOneShardReplicasRead(s, replicas[s]) # {}
                      \/ \E i \in opsByCollectionAndShard[s] :
                           CancelledButPlaced(i) \/ DehydratingButDropped(i)

\* An operation becomes READY only when its replica has been added, and a MOVE
\* only when its source has been dropped as well, except for what another
\* movement of the same replicas, which must still be known, did in the
\* meantime.  A user who deletes that other operation takes the exception away.
ReadyIsPlaced ==
  [][\A i \in Ids \cap Ids' :
       LET op == opsById[i]
           others == {opsById[j] : j \in opsByCollectionAndShard[op.shard] \ {i}}
       IN StateOf(i)' = "READY" /\ StateOf(i) # "READY" /\ ShardExists(op.shard)
            => /\ \/ op.target \in replicas[op.shard]
                  \/ \E o \in others : o.type = "MOVE" /\ o.source = op.target
               /\ op.type = "MOVE" => \/ op.source \notin replicas[op.shard]
                                      \/ \E o \in others : o.target = op.source]_vars

\* A restore refuses only what is over. The checks of a registration do not treat
\* two operations alike, and a restore repeats them in the order of a map (Go's, any):
\* an operation that somebody may still execute, or a MOVE that is READY, is accepted
\* whichever others were inserted before it. What is refused ends the restore, and
\* what comes after it in the order is missing, whether it is over or not.
RestoreRefusesOnlyEnded ==
  \A order \in Orders : \A i \in Ids :
    Refused(order, i) => \/ StateOf(i) = "CANCELLED"
                         \/ StateOf(i) = "READY" /\ opsById[i].type = "COPY"

\* When calls do not fail every operation reaches READY or CANCELLED or is
\* removed, although the producer only polls, the channel is bounded and
\* duplicates, cancellations and other operations compete for the tokens.
EveryOpSettles ==
  \A i \in 1 .. MaxOps :
    i \in Ids ~> (i \notin Ids \/ StateOf(i) \in {"READY", "CANCELLED"})

\* An operation that is to be deleted is removed in the end, whichever state it
\* is in and whether or not it has a worker, unless a user asks to cancel it.
DeletedIsRemoved ==
  \A i \in 1 .. MaxOps :
    (i \in Ids /\ statusById[i].shouldDelete) ~> (i \notin Ids \/ ~statusById[i].shouldDelete)
=============================================================================
