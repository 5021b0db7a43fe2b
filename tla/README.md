# Weaviate's replicated core: specification, model checking and proofs

The repository packages a discourse and RAG stack: Ansible roles, shell scripts and compose files
(`ansible/`, `docker/`, `scripts/`, `cbw-opendiscourse.net/`, `local-ai-packaged/`), two Python
applications (`graphiti-main/`, `agentic-rag-knowledge-graph/`) and the Weaviate vector database
(`weaviate-main/`, about 774,000 lines of Go). What in it depends on concurrency and failures is in
Weaviate: the movement of shard replicas between nodes, the distributed tasks the nodes run
together, the reads and writes of a replicated object, and the LSM store under every shard. This
project models, model-checks and proves properties of these. Paths below are relative to
`src/weaviate-main/`.

## 1. Inventory

| Part | State it keeps | Operations | Talks to | Hard behaviour | Status |
|---|---|---|---|---|---|
| Replication FSM, `cluster/replication/shard_replication_{fsm,apply,op_state,fqdn}.go` | the operations, their status, eight maps over them, behind `opsLock` | register, error, change state, store schema version, make uncancellable, cancel, delete, complete a cancellation, remove, four forced deletions, snapshot and restore, replica filters for reads and writes | applied by the raft store; read by router, producer and schema manager | iteration over structures that the body changes; restore in map order; late commands of abandoned workers | modelled |
| Raft commands on operations and replica sets, `cluster/replication/{manager,validate}.go`, `cluster/schema/manager.go`, `usecases/sharding/state.go` | which nodes hold each shard | validate and register, cancel on too many errors, add or drop a replica, delete a class or tenants | both state machines change in one command | one half of a command fails; two movements of one shard | the commands that concern movement |
| Replication engine, `cluster/replication/{consumer,producer,consumer_ops_cache,consumer_ops_gateway,shard_replication_engine}.go` | bounded channel, tokens, workers, in-flight and cancelled operations, back-off | poll, dispatch, one handler per state, cancel, back off, stop and start | its node's FSM (reads), the leader (calls), the copier | stale polls, duplicate messages, lost replies, cancellation against a running handler, a busy main loop, restarts | modelled except for stopping a running engine |
| Distributed tasks, `cluster/distributedtask`, and the raft store under it, `cluster/store*.go` | tasks by namespace on every node; log, snapshot, configuration; handles and local state | add, complete, fail, cancel, clean up, snapshot and restore; scheduler start and tick | raft store, providers | a list read before the lock; a snapshot written while commands are applied; replay; membership change under a running task; two clocks | modelled |
| Replicated reads and writes, `usecases/replica`, `adapters/repos/db/{shard_replication,replication,shard_write_put,shard_write_delete}.go` | pending writes per replica, the objects | prepare, commit, abort, quorum read, read repair, overwrite | coordinators and replicas | partial success, lost replies, late commits, overwrite against commit | put, delete and read of one object |
| Asynchronous replication, `adapters/repos/db/shard_async_replication.go` | none of its own | compare, propagate, resolve a conflict with a deletion | other replicas | digests that are old when they are used | per object; hash tree left out |
| LSM store, `adapters/repos/db/lsmkv` | active and flushing memtable, segments, logs, files | put, delete, get, flush, compact, clean up, cursor, shutdown, recover | disk; background cycles | flush, compaction, cleanup, cursors and writers interleaved; a crash between any two file operations | one bucket of strategy *replace* |
| Copier, `cluster/replication/copier` | none | pause, list and read the files of the source shard, resume it; start async replication, report its progress | other nodes | a resume that never arrives | the calls to the source |
| Halts of a shard, `adapters/repos/db/shard_backup.go` | a count, a timer and its monitor, behind `haltForTransferMux` | halt, resume, list files, reset the timer | backups, copiers, the maintenance cycles | several halts of one shard, timer against mutex | modelled |
| Schema, `cluster/schema` | classes, tenants, versions | create, update, delete, wait for a version | raft store, database | a reader behind the version it must see | only replica sets |
| Backup of a node, `usecases/backup/{backupper,backend}.go`, `adapters/repos/db/backup.go` | the backup in progress per index, a channel of descriptors, what is uploaded | describe, upload and release class by class, abort | the halts of the shards | three goroutines per backup, releases out of order, aborts | from the commit to the metadata file |
| Backup coordinator, `usecases/backup/{coordinator,restorer,scheduler}.go` | one descriptor per node | can-commit, commit, abort, status, restore | all nodes | a node lost half way | not modelled |
| Cycle manager, `entities/cyclemanager` | running flag, callbacks | start, stop, stop and wait | all background work | stop against start | its effect only |
| Router, hash tree; dynamic users, RBAC, bootstrap, resolver (`cluster/`) | a map or a tree each | one update, pure functions | raft store | none beyond the lock | not modelled |
| Indexes, queues, vector indexes, the rest of `adapters/repos/db` | files and memory | storage, search | disk | I/O and data formats; vector search has statistical guarantees only | not modelled |
| Modules, REST and gRPC handlers, clients; the Python applications; deployment | – | – | – | I/O, generated code, no protocol state | not modelled |

### How the parts work

**A movement.** A user registers an operation (COPY or MOVE of a shard from a source to a target
node). The raft log gives it an id and every node's FSM records it as `REGISTERED`. The **producer** of
the target node polls its FSM and sends the operations that want work, with their status of that
moment, over a channel; the **consumer**'s main loop takes each message, notes cancellations, waits
for a token, claims the operation in `inFlight`, compares the state of the message with the leader's,
and starts a **worker**, which runs one handler per state and asks the leader for the next:

    REGISTERED -> HYDRATING -> FINALIZING -> READY                    (COPY)
                                          -> DEHYDRATING -> READY     (MOVE)

HYDRATING copies the files; FINALIZING waits for async replication and adds the target to the
sharding state, at which point the operation becomes *uncancellable*; DEHYDRATING waits again and
drops the source. Users may cancel (until then) or delete; the consumer notices at the next message
and sets a flag and a context that the worker looks at between calls. `CANCELLED` operations stay
until they are deleted. Reads and writes are routed by the filters of the FSM.

**A distributed task** is added through the raft log. The scheduler of every node lists the tasks of
the leader's manager at each tick, starts those that are STARTED and that this node has not finished,
terminates handles of the others, cleans up local state of those that are gone, and asks the cluster
to clean up those that ended longer than the TTL ago. A node's completion is a command of its own;
the one after which the number of finished nodes equals the number of nodes ends the task.

**A write** of a replicated object is prepared at every replica, and committed at every replica once
as many as its level asks for have accepted, else aborted. A **read** takes the object of one replica
and digests of others; when they differ, a repair compares, fetches the newest and sends it to those
that are behind, which check once more and overwrite. **Asynchronous replication** does the same in
the background between pairs of replicas.

**A backup** of a node runs in three goroutines. One describes the requested classes in turn: it marks the
index, halts the maintenance of its shards, lists their files and sends a descriptor. The uploader
receives the descriptors, uploads the files and releases each class; at its end, in whatever way, it
releases all of them, once or twice more. Each release marks the index as free and resumes its shards
in a goroutine of its own. The **copier** of another node's replication worker halts the same shards for
its own purposes, by calls that may be lost, which is why a halt by a copy is watched by a monitor that
resumes the maintenance when nothing was read for some time.

**A bucket** puts a record in the buffer of the active memtable's write-ahead log and in the memtable;
`WriteWAL` writes the buffer to the file before the write is acknowledged. The flush cycle switches to
a new memtable, closes the log, writes the memtable as a segment and deletes the log last. The
compaction cycle merges two neighbours of one level, or cleans a segment of keys that newer segments
hold, by writing a temporary file, marking the sources for deletion and renaming. `NewBucket` sorts
out what a crash left.

### Properties that make each part correct

* FSM and store: the indexes agree; one operation per target; a write reaches a replica once; an
  unfinished target serves no read; CANCELLED is final; uncancellable is final; a shard never falls
  below its replication factor.
* Engine: one worker per operation; legal state changes; some replica serves reads at every moment;
  READY means placed; a restore refuses nothing
  that is still to be executed; operations settle; what is to be deleted is removed.
* Tasks: nodes with the same log agree; FINISHED means that all nodes executed this run, as long as
  none comes or goes; what a node completed it does not start again; local state of a live task stays; a task
  ends, and what ended is forgotten.
* Object: a refused write leaves no trace; reads at quorum do not go back; deletions are not resolved
  unasked; replicas converge.
* Bucket: a get finds the last write; a recovery finds what had reached a file; a restart is always
  possible.
* Transfers: the files a backup or a copy reads are those it listed; a backup that reports success is
  complete; in the end nothing stays halted.

`PROJECT.json` lists the hazards behind these at their lines.

## 2. Plan, and what of it is done

1. The movement of replicas in three layers (`ShardReplicationFSM`, `ReplicationStore`,
   `ReplicationConsumer`), with runs and proofs: done.
2. `ReplicaMovement`, what the movement promises, and the engine shown to implement it, by TLC and by
   proof: done.
3. `DistributedTasks` over an explicit raft log with fuzzy snapshots, replay, membership and leader
   changes, composed with a scheduler per node: done.
4. `ReplicatedObject`, the two-phase write, repair and asynchronous replication: done for puts,
   deletes and reads of one object.
5. `Bucket`, the LSM store from the write to the recovery, and the proof that gets find the last
   write: done.
6. `ShardTransfers`, a node's backup and the copies from it over the halts of its shards, with the proof
   that they do not pull files from under each other: done.
7. Proofs about the tasks: what is finished was executed, what is completed stays so, nodes agree through
   any replay, local state of a live task stays: done.
8. Proofs about the replicated object: refused writes leave nothing, quorum reads do not go back, deletions
   are not resolved unasked: done.
9. Proofs about the recovery of the bucket (`RecoveryIsPossible`, `RecoveryKeepsLogged`) and about reads
   during movements (`SomeReplicaServesReads`, `ReadyIsPlaced`): done.
10. Left: the backup coordinator and the restore; stop and start of a running engine; `schemaOnly` replay
   of the movement commands.

`ReplicationStore` EXTENDS `ShardReplicationFSM`, and `ReplicationConsumer` EXTENDS
`ReplicationStore`: the commands are the operators of the module below, conjoined with what they do
to the state of the module above. The other modules stand by themselves. No module declares a
RECURSIVE operator.

## 3. The modules and the code

### ShardReplicationFSM

One action per raft command of `shard_replication_apply.go`, one variable per map of the FSM.
Commands are applied one at a time under `opsLock`, so each is one step. A command that returns an
error changes nothing and is not a step: the early returns are the guards.

* An operation's UUID is identified with its id, the log index of its registration.
* A slice of operations is the set of its ids; every slice keeps the order of insertion, which
  `rank` records once. The order matters in one place: the forced deletions range over a slice that
  `removeReplicationOp` compacts in place, so elements move into slots already visited
  (`VisitedByRange`). The forced deletions by collection, shard and target node share this.
* `Restore` inserts the operations in some order (Go iterates over a map), each by the same checks
  as a new registration, and stops at the first that is refused. `Refused` is the check in a given order;
  what may be refused is the property `RestoreRefusesOnlyEnded`.
* `AddError` is a count with the cap of the code (50 there, `MaxErrors` here); texts, times and the
  history of states are left out.
* `ReplicaUsable` is `filterOneReplicaReadWrite`, from which the router's read and write sets follow.

### ReplicationStore

Adds `replicas`, the nodes of each shard in the sharding state, and the commands that change both:
registering validates against it; adding a replica first makes the operation uncancellable and then
adds or refuses (the first half is kept: `cluster/schema/manager.go:549-561`); dropping compares the
number of replicas with the factor before it looks the replica up (`usecases/sharding/state.go`);
deleting a class or tenants empties the shards and marks their operations. A command of a worker has
an `outcome`, because the worker's next step depends on it. `StoreNext` lets any client and worker
send any command at any time, and a node restart from a snapshot between any two: more than the
program does, so what holds here holds whatever abandoned workers send.

### ReplicationConsumer

`view[n]` is what node `n` has applied of the store; `CatchUp` brings it up to date at any moment, in
one step, so a view is any earlier state of the leader, in order. `queue`, `main`, `workers`,
`inFlight`, `cancelled` and `backoff` are the engine's own. The main loop is split where the code
reads something another goroutine may change in between: taking the message, taking the token and
claiming, asking the leader. A worker has one step per call to the leader, one per external step, and
one for each read of its own view. It keeps the flags of the message it was started with, as the code
does, whose struct is a copy.

A call to the leader is applied, refused, or, where `CallsFail`, ends in an error with or without
having been applied. A failed call is assumed not to be applied later: the worker ends and its
operation backs off for some seconds (`consumer_ops_gateway.go:22-23`), longer than a proposal stays
around; within the attempt nothing is retried (`StopBackOff`, `service.go:87`). `UpdateTenants` and
the command that stores the version it returned are one step (`Activate`). `SyncShard` loads or drops
local shards and changes nothing that is modelled. A restart empties the engine; its view is what it
had applied.

### ReplicaMovement

What the three modules amount to, without messages, workers, views or failures: operations go through
their stages, a replica is added for an operation that is FINALIZING, one is dropped only after a MOVE
from it was DEHYDRATING, never below the factor. `ReplicationConsumer` instantiates it: its `ops` are
the operations with their states, its `holders` the replica sets, its `departing` the sources of
operations that are DEHYDRATING or that a worker still takes to be.

### DistributedTasks

The raft log is explicit: `todo[n]` is what node `n` has still to apply, `since[n]` what it applied
after the index of its last snapshot, so that a restart replays `since[n]` and the leader's snapshot
is installed at a member whose place in the log the leader no longer has. `Snapshot` and `Persist` are
two steps: the raft library takes the index when `Snapshot` returns, and the tasks are read when it is
persisted (`store_snapshot.go`); `ahead[n]` counts the commands the snapshot already contains and that
are replayed all the same. `Restore` of a member that is not empty merges. Completion counts against
`conf[n]`, the configuration the node knows when it applies the command; a member that installs a
snapshot may know the present one at once or learn of it from the log that follows. `clusters[d]`
collects the configurations that completions of `d` were counted against.

A scheduler's tick is three steps, as its lock and its calls divide it: it lists the leader's tasks,
then acts on the list, then asks for each cleanup. Time is an age per ended task, cut off above the
TTL. A provider may fail to start a task or to drop the state of one, and is asked again by the next
tick. `stale`, `completed`, `clusters`, `verdicts` and `gone`, and the fields of `listed` but the tasks, are
history variables of the properties. A version of a task is the log index of its submission in the code
and the number of the submission here, so a replayed submission has the version it had.

### ReplicatedObject

One object at `Replicas`. A write is its update time; a version is a time and a content, of which a
tombstone is one. `Prepare` puts the write in the replica's replication map, `Commit` takes it out and
stores it (with the exceptions of `shard_write_put.go` and `shard_write_delete.go`: an identical put
keeps the old time, a deletion of nothing leaves no tombstone), `CommitLate` is the commit whose
caller has given up (`coordinator.go` uses a background context). A read is the full object of one
replica and digests of others, `RepairOne` the repairer (`ReadFails` if it
cannot fetch the latest object), `Check` and `Overwrite` the two halves of
`OverwriteObjects`, which takes no lock between them. A hashbeat of a replica compares
with another (`CompareLocal`, `CompareRemote`), propagates, or resolves a conflict with a deletion.

### Bucket

A write is a number; memtables, logs and segments map each key to the newest write they hold. An
action is a step after which a crash leaves different files, or another goroutine may see different
memory: the file operations of a flush, the two markings and the renaming of a compaction, the two
halves of closing a cursor. A crash is one of the process; what was handed to the operating system
stays. Recovery is `LoadSegments`, the flush of all recovered logs but the last (in any order, as Go
ranges over a map), and `FinishRecovery`. Which segment is due for cleanup is left open.

`mishap` records that one of the known ways to lose data was taken; the properties say nothing after
it. They are in section 4.

### ShardTransfers

Backups of one node and copies from it. A class has one index and that one shard, so a class names all
three; the files of a shard are a generation, which maintenance (`Compact`) replaces by the next when
nothing halts it. `haltForTransferMux` makes each operation of a shard one step; a goroutine that waits
for ever with it held puts its shard in `lockedUp`, where nothing else gets the mutex.

* The halts: `HaltForTransfer`, `ResumeMaintenanceCycles` and `MayResetInactivityTimer` are the functions
  of these names; the monitor's receive, its forced resume and its deferred function are three steps,
  because it takes the mutex in between. The timer is absent, running, or stopped or received from; of
  the last `Stop` says false.
* The describer of a backup is split at `initBackup`, the halt and the listing. A failure after
  `initBackup` releases the class; a descriptor with an error is the last.
* The uploader's steps are the cases of its `select` loop, the upload of a class, and its end, which
  `Conclude` does together with the status: the number of releases of every class at the end (one to
  three) is counted from the paths through `all` and its deferred functions. A snapshot of roles or
  users that fails is one of them.
* A release is two steps, marking the index free and resuming its shard, as `ReleaseBackup` runs them in
  a goroutine without a lock between; `resets` and `resumes` count those still to run.
* A copy is the four calls of `CopyReplicaFiles` to the source: pause, list, read, and the deferred
  resume, of which the first and the last may be lost.

`holders`, `robbed`, `unwatched` and `leaked` are history variables of the properties.

Definitions named `X_Something` and marked "Seeded bug" are wrong variants of the definition `X`
next to them: replacing `X` by one must violate a property, which shows that the property depends on
the code it is about. No specification uses them.

## 4. The runs

Every run gives values to the constants only. `CHECK_DEADLOCK FALSE` because clients and users may
stop. Symmetry is used in safety runs only, over values that the initial state does not distinguish.

| Run | Instance | Shows |
|---|---|---|
| `StoreCommands` | 3 nodes, one shard on two of them, factor 2, 2 operations, all commands in any order, a restart from a snapshot anywhere | `TypeOK`, `IndexesAgree`, `OneOpPerTarget`, `WritesReachAReplicaOnce`, `UnfinishedReplicaServesNoRead`, `ReplicaFloor`, `PlacedIsUnCancellable`, `CancelledIsFinal`, `UnCancellableStaysUncancelled` |
| `ConsumerOneOp` | engine, one operation, two workers, cancel, force-delete, class deletion, failing calls, a restart | `ConsumerTypeOK`, `OneWorkerPerOp`, `SomeReplicaServesReads`, `StatesFollowEdges`, `MovesReplicas` |
| `ConsumerTwoOps` | two engines, three nodes, two movements of one shard | `SomeReplicaServesReads`, `RestoreRefusesOnlyEnded`, `ReadyIsPlaced` |
| `ConsumerSettles` | one engine with one worker, two shards, two operations, fair | `EveryOpSettles` |
| `ConsumerDeletes` | one operation, cancel and delete, two schema versions, a restart, fair | `DeletedIsRemoved`, `EveryOpSettles` |
| `TasksReplay` | two nodes, one task, one snapshot, one restart, change of leader or of members, lost reply, failing call or cancellation | `TasksTypeOK`, `NodesAgree`, `FinishedMeansExecuted`, `CompletedIsNotRunAgain`, `LiveTaskKeepsLocalState` |
| `TasksEnd` | the same without snapshots, fair | `EveryTaskEnds`, `EndedTaskIsForgotten` |
| `ObjectReads` | 3 replicas, quorum level, two writes, one read with repair, one fault, no resolution or deletion on conflict | `ReplicatedTypeOK`, `ReadsAreMonotonic`, `DeletionsAreNotResolvedUnasked` |
| `ObjectConverges` | 2 replicas, both with async replication, two writes, one fault, resolving strategies, fair | `RefusedWriteLeavesNoTrace`, `ReplicasConverge` |
| `ShardTransfers` | one backup of two classes, one copier that copies the first once, one compaction, one fault, an abort anywhere, fair | `TransfersTypeOK`, `HaltedWhileTransferring`, `BackupIsComplete`, `MaintenanceResumes` |
| `BucketCrashes` | two keys, four writes, four memtables, one failing flush, one crash or shutdown, size limit 2, cleanup on | `TypeOK`, `ReadsTheLast`, `RecoveryIsPossible`, `RecoveryKeepsLogged` |

Bounds. Two operations are the fewest that compete for a replica or a token, three nodes the fewest
for a chain a→b, b→c; one error reaches the cap; a channel of one message is already both full and
stale; one restart strikes at every step. Two nodes are enough for the tasks: every property compares
a node with the leader or with another node, and a lagging leader, a replaying node and a member that
left are each one of two. Three replicas are the fewest for which two quorums differ; two suffice for
convergence between pairs. Three segments are the fewest for which a tombstone can be dropped over an
older value, and four writes on two keys fill and delete them while a memtable is flushed;
`Explored` leaves the second key one put, so that segments differ in their keys, and stops after a
`mishap`. A compacted segment of two entries is at the limit. One writer at a time is enough for
these properties, none of which compares two pending writes. Two classes are the fewest of which one is
released while the other is described, and a backup and a copy the fewest transfers that halt one shard;
the safety properties were also checked with two copies, and with two backups of one class, which take
too long to stay among the runs, and are proved for any number.

Exceptions, each for something the code does. `SomeReplicaServesReads` excludes the shard of an operation
that was cancelled after it was placed, and of one that is DEHYDRATING without its target (both below). It
does not hold when operations are removed by force while their workers are about to drop a source (below);
`ConsumerOneOp`, with one operation, checks it with forced deletions, and the theorem assumes there are
none. `ReadyIsPlaced` excludes what another movement of the same replica does in the meantime, as long as
that operation is listed; it does not hold when users delete operations that have ended (below), which
`ConsumerTwoOps` leaves out and the theorem assumes away. `EveryOpSettles` and `DeletedIsRemoved` are
checked where calls do not fail: with failing calls an operation may retry until it has used up its errors,
which users see as CANCELLED. `NodesAgree` and `LiveTaskKeepsLocalState` exclude a task identifier of which
a run was counted against clusters of different sizes, or a submission refused once and accepted another time,
when it was replayed (`Consistent`), and one of which a member kept a run when it restored a snapshot
without it (`Concerns`); section 4 tells what the code does there. `FinishedMeansExecuted` compares the
nodes of a finished run with a cluster by their number, as the code does, and by their names only if one
cluster was counted against (below). `CompletedIsNotRunAgain` and
`LiveTaskKeepsLocalState` exclude what follows from the list of a leader that lags, `EveryTaskEnds` a change
of members or a scheduler that never started. `ReadsAreMonotonic` excludes reads that met a replica going
back in time (`tainted`). `HaltedWhileTransferring` excludes shards a halt of which was taken back for a
transfer under way (`robbed`): the monitor does that by design, and a release that takes the halt of another
transfer does it too. `MaintenanceResumes` excludes the three ways to stay halted that the code has (below).

### Where the code and its comments differ

One run ends in a counterexample.

| Run | What happens |
|---|---|
| `TransfersHang` | A copy halts a shard, its monitor ends and stops the timer. A backup of the shard, whose halt starts no monitor, lists the files, which puts the timer off: `Stop` says false of the stopped timer, and the receive that is to "drain the channel if necessary" (`shard_backup.go:112`) waits for a value that never comes, with the shard's mutex held. No halt, resume, copy or backup of the shard returns after that. The same happens when a listing comes between the monitor's receive and its taking of the mutex. |

Others were met while modelling and are described here without a run; the models do what the code
does.

Movement:
* A restore that meets a MOVE from a node before a READY COPY from the same node refuses the COPY
  (`shard_replication_fsm.go:139`) and ends there, so what comes after the COPY in the order of the map is
  missing as well, whatever its state. `RestoreRefusesOnlyEnded` says that the refused one itself is
  always over.
* With two operations, forcefully deleting a collection's operations removes the first only
  (`shard_replication_apply.go:339`).
* A cancellation accepted between the worker's look and its add is not noticed by the add
  (`cluster/schema/manager.go:549`, against the comment at `shard_replication_apply.go:198`): the
  operation ends CANCELLED with its replica in the sharding state, and the filters refuse that replica
  for good.
* A worker that is started again for a MOVE a→b in DEHYDRATING drops a again if its view has it
  (`consumer.go:696`), and a MOVE b→a may have added it since. When the first operation is READY and has
  been deleted by its user, only b is left, the source of the second, which is DEHYDRATING: the filter
  refuses it for reads, and its drop is refused at the replication factor. The second operation is
  UnCancellable, so only a forced deletion, or the deletion of the class or tenant, ends it. TLC finds
  this on two nodes with a factor of one, one restart and a deletion, in 57 states, when guided along this
  history; no run is large enough to meet it unguided. With the exception it finds nothing else along the
  way.
* The forced deletions take an operation away from under its worker, which goes on to drop the source.
  Three operations on three nodes, with a factor of one, are enough to leave a shard with no replica that
  serves reads. A MOVE n1→n2 has dropped n1 when n2 restarts, and the new worker is about to drop n1
  again; a MOVE n2→n1 has added n1 and is about to drop n2; both operations are force-deleted; a COPY
  n2→n3 adds n3 while FINALIZING; then the two late drops leave n3 alone. TLC finds this in 67 states when
  guided; no run is large enough to meet it.
* A MOVE n1→n2 has added n2 and dropped n1, and its worker is about to say so; meanwhile a MOVE n2→n3
  drops n2, becomes READY and is deleted by its user. The first one then becomes READY with neither of its
  replicas in place and no operation listed that tells where they went; the shard is on n3. TLC finds this
  in 51 states when guided.
* The source of a dehydrating MOVE that was created by an earlier operation is still written to: the
  filter asks the earlier operation only (`consumer.go:691`).
* The worker stores a schema version and copies with the version of its message (`consumer.go:571`),
  so the source does not wait for the one stored.
* When all workers are in an external step and the main loop waits for a token with another message, a
  cancellation behind it is not read until the operation timeout of 24 hours.
* Replay, and a metadata-only voter, leave the replication manager out of `DeleteClass` and
  `DeleteTenants` (`store_apply.go:104`).

Tasks:
* `Restore` of the task manager merges (`distributedtask/manager.go:260`) where
  `store_snapshot.go:101-102` says the old state is discarded.
* A leader that has not applied all that is committed answers a scheduler's list, which then cleans up
  local state of a live task (`scheduler.go:266-279`).
* Completion compares with `==` the present number of nodes (`manager.go:112-113`): after a node has
  joined or left, equality may never come.
* It may also come too early. `TaskStatusFinished` "means that the task was successfully executed by all
  nodes" (`types.go:66`), but only numbers are compared: of two nodes A completes the task and leaves, the
  reply is lost and its completion recorded again, and the one node counted equals the one that is left,
  B, which never executed it. TLC finds this in 7 states when a change of members and a lost reply may
  both happen; the runs have one fault.
* For the same reason a completion may end a task on one node and not on another that applies it with an
  older configuration. The next submission is then accepted by the one and refused by the other
  (`manager.go:64-72`), and after a change of leader local state of a live task is cleaned up.
* `Persist` stores the tasks as they are when it runs, later than the snapshot's index
  (`store_snapshot.go:29-51`). A submission that was refused because an older run had not ended is then
  replayed, after a restart, over tasks in which that run has ended, and is accepted: the node lists a task
  as STARTED that no other node has.
* A failing `Start` leaves the node's scheduler off until the process restarts
  (`scheduler.go:141-144`, `configure_api.go:771-774`).

Objects:
* `OverwriteObjects` checks and then writes without a lock (`replication.go:593-673`); a commit in
  between is overwritten.
* A late commit of an older acknowledged write overwrites a newer one; `putOne` does not compare times.
* A deletion of an object that is not there leaves no tombstone (`shard_write_delete.go:57-60`).
* A prepare whose answer is lost leaves its task in the replica's map.

Bucket, the four that set `mishap`: a memtable whose flush failed is forgotten at the next switch
(`bucket.go:1535`); a crash between the marking and the renaming of a cleaned segment loses it
(`segment_group_cleanup.go:633`); a restart in the middle of compacting a cleaned segment does not
find it under the name it expects (`segment_group.go:196`); and a recovery of two logs in the wrong
order. The last: a crash during a flush leaves two logs, which are recovered in map order
(`bucket_recover_from_wal.go:74`); if the older comes last it becomes the active memtable and hides the
newer segment. The comment at `bucket.go:313-314` says the order of creation is restored; only the
segments are sorted. A fifth does not set `mishap`, because the properties count a write as logged only
when its record is in a file: the flush cycle switches the memtable between a put and its `WriteWAL`,
which then writes the log of the new memtable (`bucket.go:1593`); the put is acknowledged while its record
is in a buffer, where `bucket.go:1586-1588` guarantees otherwise.

Transfers, the three that `MaintenanceResumes` excludes: the hang above (`lockedUp`); a class that is
described after the uploader has ended and released it stays halted and its index taken (`leaked`,
`backend.go:223`); a halt by a copy that comes while the previous monitor is on its way out starts none
(`unwatched`, `shard_backup.go:118`), so that a lost resume leaves the shard halted. Further:
* `ReleaseBackup` does not look whose backup it releases and runs up to three times per class: the
  surplus takes the halts of copies under way, against the comment at `shard_backup.go:198`.
* `uploader.all` reports success although the metadata file could not be put (`backend.go:230-236`).
* The shards of a class are handed to the workers until the context ends, "for two reasons", an abort or a
  worker's error (`backend.go:393-395`). A third is the timeout of 24 hours of the class
  (`backend.go:359`): the workers that see `hasJobs` turn false then return no error
  (`backend.go:418-431`), and a class may count as uploaded without the shards that were left.

Backup coordinator and copier, which are not modelled further:
* The requests to the nodes are built without the caller's context (`adapters/clients/cluster_backups.go:51`,
  `85`, `113`, `147`), so the timeouts of the coordinator have no effect on them.
* `LastTime` of a participant starts at zero: the first status call that fails counts as a node that has
  been down too long (`coordinator.go:563`).
* The id of a cancelled backup cannot be used again: `checkIfBackupExists` returns an error when
  `Meta` succeeds, whatever the status (`scheduler.go:388-394`).
* The restorer waits for the coordinator but does not read its channel afterwards (`restorer.go:110`), so
  a late abort stays in it.
* The copier's `downloadWorker` returns at the first local file that matches (`copier.go:317`), errors of
  its workers are logged only, and `validateLocalFolder` looks for files that are too many, not for missing
  ones: a copy may be taken for complete that is not.

## 5. Fairness

*Engine.* Weak fairness of catching up (raft delivers committed entries), of the main loop, of a
worker's own steps and of the back-off timer (goroutines are scheduled, timers fire), and of external
steps whose context was cancelled (they return). `Produce` has strong fairness: the producer's loop
offers every operation of its node in turn on each poll and blocks on the channel, so an operation
that can be sent again and again is sent. Users, restarts and failures have none. `ExternalFairness`,
which ends an external step that nobody cancels, stands for the operation timeout of 24 hours
(`service.go:42`).

*Tasks.* Raft delivers (`Apply`), a restarted scheduler starts, ticks come and are carried through
(they are timer loops), clocks advance, and a task that runs completes, which is what a provider is
for. Commands of users, snapshots, restarts and failures have none.

*Objects.* Requests under way are answered or time out, overwrites and hashbeats proceed. `CompareLocal`
has strong fairness: a hashbeat visits the other replicas in a random order, so none is left out for
ever.

*Transfers.* Weak fairness per goroutine: a monitor (timers fire), the describer of a backup, the
uploader, each release, and a copier that has begun. Starting a backup, aborting it, beginning a copy,
reading a file and compacting have none.

## 6. The proofs

TLAPS checks every theorem for any finite or infinite sets of nodes, shards, collections and keys, any
finite set of replicas of an object and any bounds, from the named assumptions on the constants alone,
but for two theorems about the engine, each with a hypothesis about which commands users give.

**FSM** (`ShardReplicationFSM_proofs`). The inductive invariant is `IInv == TypeOK /\ IndexesAgree`.
Neither half is inductive alone: a registration consults `opsByTargetFQDN`, whose domain must be known
to be the targets of the present operations for the new entry not to overwrite one; a removal deletes
the entry of the removed operation's target, which is right only if no other operation shares it. The
step lemma has a lemma for each of the three ways the maps change (`WriteOpIntoFSM`, `RemoveOps`,
`ChangeStatus`) and one for `Restore`. `TargetsAreUnique`, `WriteSetsDisjoint` and `UnfinishedNotRead`
follow from `IInv` at a state, `CancelledStays` and `UnCancellableStays` from an analysis of the step:
a deletion by collection goes through an index, and only because the index agrees with the operations
does it mark the right ones.

**Store** (`ReplicationStore_proofs`). `StoreInv` adds that replica sets are finite, `ReplicaFloor` and
`PlacedIsUnCancellable`. The last needs the validation of `ReplicateReplica` (the target is absent when
an operation is registered) and `OneOpPerTarget` (a replica that is added belongs to the one operation
that is made uncancellable by the same command). `StoreImplementsFSM` proves `StoreSpec => Spec`: each
store command is a command of the FSM or leaves it alone, so every FSM theorem holds of the store.

**Engine** (`ReplicationConsumer_proofs`). `EngineImplementsStore` proves `ConsumerSpec => StoreSpec`
step by step, which carries every theorem above on to the engine. For its own properties the invariant
`EInv` follows an operation's id on its way from the view over the channel and the main loop to the
worker: what is queued is an operation of this node, what a worker or the main loop holds is claimed
in `inFlight`, and two of them never hold the same id. From it follow `OneWorker`, `EdgesFollowed` (an
operation changes from DEHYDRATING to READY only if it is a MOVE) and `EngineMovesReplicas`: every
step is a step of `ReplicaMovement` or a stutter, and the replicas about to depart do not grow but by
operations that are DEHYDRATING.

`RefusedIsOver` needs only `EInv` and `SourcesShared`: of two operations from the same replica the one
registered first is over, or both are copies. A registration establishes it, since it asks all others
(`RegisterKeepsShared`), and aging keeps it, because an operation that is over stays so. A restore that
refuses an operation has met another one from the same replica, the indexes excluding one with the same
target; it must have been registered later, so the refused one is the older and is over.

`SomeReplicaServes` needs how the movements of a shard are related. A replica does not serve while the
operation that creates it has placed but not finished it (`Unfinished`), so one has to find a replica that
is not of this kind. `ReadsInv` adds to `EInv`, first, that a worker that has not ended still has its
operation (`WorkersHaveOps`), so that a replica is dropped for an operation that is there; and then
`MovesInv`: an operation places its replica late (`PlacedLate`); the source of an unfinished operation stays
(`SourcesStay`); two operations with one source are both copies, or the older had ended when the younger was
registered (`SourcesShared`); and an operation that reads from what an unfinished one creates is younger
than that one (`SourcesOlder`). The source of the oldest unfinished operation of a shard is thus a replica
that is not itself unfinished (`SomeReplicaIsFinished`, by the well-foundedness of the natural numbers), and
it serves, or the operation that dehydrates it has its target in place, which does (`ReadsInvServes`). The
theorem assumes `NoForcedRemoval`: with forced deletions `WorkersHaveOps` fails, and so does the property,
by the history of section 4. Before it was proved, `ReadsInv` was checked by simulation with four
operations, all other user commands, failing calls and two restarts (29 million states, depth 150).

`ReadyReplicasArePlaced` needs what a worker may believe. It decides once, from the view of its node, that
there is nothing left to add or drop, or it is told so by the leader, and the leader moves the operation on
some calls later; meanwhile other workers add and drop. `Came(m, s)` says that a replica is there or is the
source of a MOVE that is listed, `Went(m, s)` that it is not there or is the target of one; both stay true
as long as the shard exists (`StepIsSteady`), since replicas change only by listed operations and none of a
shard that exists is removed. `ReadyInv` says that every view, however old, was right in this sense
(`ViewsPast`), that a worker that has nothing to add (drop) is right (`WorkerRight`), and that what is
DEHYDRATING has come (`DehydratingCame`). An operation is removed only by a worker whose message says that
it is to be deleted; that its shard is then gone has to be followed from the status (`DeletionsDoomed`) over
views, channel and main loop (`MessagesDoomed`) into the worker. The theorem assumes `OnlyWithTheShard`:
operations are deleted with their collection or tenant only, not by themselves; all other commands, failing
calls and restarts are free. Without it the property does not hold, by the history of section 4. Before it
was proved, `ReadyInv` was checked by simulation with four operations, failing calls and two restarts, on
one and on two shards (40 million states, depth 150).

**Bucket** (`Bucket_proofs`). `ReadsTheLast` says that a get finds the last write, and is preserved by a
step that replaces segments only if what replaces them holds the same. So `BInv` adds what the compaction
cycle has written so far, in terms of the segments it has not replaced yet (`Merging`: for each key the
newer of the two entries, or nothing for a tombstone of the oldest pair; `Cleaning`: the segment's entries
but for keys that a newer segment holds), that memory and files hold writes that were made (`Known`: the
value of a write does not change when others are appended), that memtables to come are empty (`Layers`) and
that a stopped process holds nothing (`Forgotten`). `MergedIsFound` is the heart: in a sequence of segments
with two neighbours replaced by their merge, a get finds what it found before, or nothing where it found a
tombstone. The recovery establishes `ReadsTheLast` anew, `last` being what it found.

That what it finds is what had been written is `BucketRecoveryKeepsLogged`, and that it does not give up,
`BucketRecoveryIsPossible`. Both need to know the files at every step, not only at a crash: `DInv` adds to
`BInv` the order of the layers (`Ordered`), which files there are for which segments and which step of the
flush (`OnDisk`), what the temporary file of a compaction names (`InTmp`), and what the recovery
asks of the files (`Loadable`: one file of a name; the right source of a compaction as long as the left
one is there; the merge complete once that one is gone). `Survives(m, k, n)` says that a recovery
would find write n of key k in layer m: in its log, in its file, or in the temporary file once that stands
for its sources (`TakesOver`). `Ascending` says that newer layers hold newer writes, wherever they hold them
(`Holds`), so that loading the files in their order does not bring an older value to the top. `Durable`
says that the newest write that reached a file is the newest that survives, or is a delete that was
dropped together with all it had deleted. The critical step is the marking of the left source
(`MarkLeft`), at which the merge takes over from both: before it the two files decide, after it the
temporary file does, and what survives is the same because nothing lies between two neighbours
(`Ascending` again, and the merge in `BInv`). A recovery then turns files and logs into
segments one at a time and keeps what survives. TLC checked `DInv` on an instance with two keys, two
crashes and three writes (735,406 states), on three smaller ones of 530,000 to 670,000 states, and by simulation to
depth 80 with two crashes, five writes and six memtables.

**Transfers** (`ShardTransfers_proofs`). `TransfersTypeCorrect` has one inductive group of types per part
of the state. `Queue` follows a class through a backup: it is left, described, being uploaded or uploaded,
in exactly one of these places (`Placed`), none is lost unless an error is on its way to the uploader
(`Covers`), and no release of a class that is in hand is pending; a backup that has not begun has left no
trace, so a new one finds nothing of an old one. `SuccessIsComplete` follows: when the channel is closed
and empty, every class is in the one place that is left. `Halts` adds the shards: halts whose holder was
not robbed are counted (`Counted`, a cardinality against the counter), whoever needs a shard to be halted
is among the holders (`HoldersKnown`), and what was listed is still there (`ListsTrue`). A release takes a
halt away only for a class that is not in hand, by `Queue`; a monitor that takes everybody's marks the
shard robbed if any is under way. From these `FilesStayWhileTransferring` follows: with the count above
zero, nothing is compacted.

**Tasks** (`DistributedTasks_proofs`, `TaskReplay_proofs`). `Types` strengthens the types with the bound of
the snapshot window, without which `Persist` could cut more off the log than there is. `Executed` says of
every map of tasks, in use or in a snapshot, and of every completion in a log, that the nodes it counts
have recorded the completion; a restored, merged or replayed map then needs no argument of its own, and
the first half of `FinishedTasksWereExecuted` follows. For the other half, `ClusterKnown` says that
a node that has no change of members left to apply knows the present members, and that the last change in
its log is the one to these; so the leader, which has applied everything when it executes a completion,
counts it against the members, of which the completing node is one (`CountedAmong`). If no other cluster
was ever counted against, the nodes counted are among its nodes and as many, hence all. For `CompletedStaysCompleted`, `Sourced` says that what anyone lists,
runs or keeps was submitted, `Owed` that a completion a node recorded is counted or still to be applied by
every other node, wherever in the log it is, and `Fresh` that a list read before the node recorded it does
not start the task.

`NodesAgreeOnTasks` compares nodes that came to the same place in the log on different ways: one applied
every command once, another restored a snapshot that is ahead of its index and applied commands again
that were in it. `Replayed`, its invariant, says that there is one log, of which what each node applied
and has to apply are sections, and one `course` of every task along it, without the clean-ups, which
depend on clocks. A node's task is, but for a clean-up, that of the course, at the node's place in the log
or, while it replays, at a place up to `ahead` commands later (`HeldBetween`). That this is kept rests on
`Courses`: a command the course has behind it changes nothing when it is applied again (`After`: its run
has ended, or counts the node; `Replays`), except that a submission whose run was cleaned up is accepted
once more, at which the task is back at that submission's place in the course, which is not behind the
node's. The window only shrinks (`HeldMovesOn`), so a node that replays nothing is where the log is. For
`LiveTaskStateIsKept` the invariant also keeps that a run that was ever on the course is still the node's
or is in `gone`; hence a leader that has applied everything lists what it did not clean up (`LeaderLists`),
and so does the list a scheduler read from it (`ListsComplete`). The runs check the tasks with one
submission; the theorems hold for any number, with runs that replace each other.

**Objects** (`ReplicatedObject_proofs`). The runs have two or three replicas and two writes; the theorems
hold for any number of both, with any levels. `Inductive` has three groups of parts. `CommitsAreAccepted`
and `VersionsAreIssued` follow where versions come from: a call is committed only after `level` replicas
were ready, the ready ones of a write only grow, and whatever a replica stores, a vote holds, an overwrite
carries, a read returns or a hashbeat is about to delete (`Held`) is the version of such a write.
`RefusedWritesAreNotSeen` follows at once, and also that there is one version per time, which the repairs
rely on when they compare digests.

For `ReadsDoNotGoBack`, `floor[k]` is a time that `k` replicas have reached (`FloorsAreReached`). A commit
raises it with the level-th acknowledgement because every replica that acknowledged has reached the write
(`AcknowledgedIsReached`), a read because those it asked have reached what it returns. That is where the
invariant is circular: a read of R replicas starts with N - R + 1 replicas at its floor, and `ReadKeepsUp`
keeps that many at the floor while the answers come, so one of the R answers is at it or after it
(`QuorumsMeet`, a cardinality argument over the two sets); the read returns the latest answer, or repairs
towards it; and once its overwrites are answered without an error all replicas it asked have reached what
it returns. A skipped overwrite needs the check's comparison of times, one that is carried out needs that
`Store` does not fall short, and a lost or conflicting one fails the read. Where a replica goes back, the
floors are given up and what runs is tainted. `DeleteOnConflict` is excluded from the comparison with
the floor, because a deletion then wins over any later version.

`DeletionsStay` needs `OverwritesDeleteNothing`: without automated resolution no overwrite carries a
deletion, and one that was checked was checked against a version that is none. Since there is one
version per time, a replica that still has the time the check saw has no deletion, so the overwrite
changes nothing about that. TLC checked the parts of `Inductive` on three replicas without hashbeats,
with two contents and no resolution and with one content and any strategy, and on the first seven million
states of two replicas with hashbeats. That `Reader`, the sender of a repair's overwrites, is not the
number of a write is an assumption on the constants, as `tainted` holds both.

Checked by TLC only: the liveness properties (`EveryOpSettles`, `DeletedIsRemoved`, `EveryTaskEnds`,
`EndedTaskIsForgotten`, `ReplicasConverge`, `MaintenanceResumes`), since the prover handles neither
fairness nor `ENABLED`, on the instances of section 4.

## 7. What is not modelled, and what that means

* Consensus is hashicorp/raft's. The engine's model takes the leader's state for the state and sees a
  change of leader as failed calls; the tasks' model has a leader that may lag.
* A node that replays its log skips part of some commands (`schemaOnly`); a view never does here.
* Stopping and starting the engine within a living process, and the wait for its goroutines.
* `WaitForUpdate`, by which a handler waits until its node has applied a schema version: it makes the
  node's view later, and a view that is later is among those the model allows.
* A replica set's placement by class creation, and scaling by the older `usecases/scaler`.
* Contents of the files copied, and whether async replication converged in a movement.
* Payloads of distributed tasks, and namespaces beyond one. In a tick the local state is dropped together
  with the starts, in the code after the calls of `CleanUpDistributedTask` (`scheduler.go:252-280`): both
  depend on the list alone, and nothing else touches the local state during a tick. There is one clock;
  the code compares with each node's own (`manager.go:163`), so what one node cleans up another with a
  clock behind it may keep. No property compares clean-ups, and `EndedTaskIsForgotten` rests on clocks
  that go on.
* Objects: merges, batches, existence checks, reads from one named node, additional write replicas,
  the hash tree and its batching, targets chosen by an operator.
* Bucket: power loss (nothing is synced here; what the operating system has is taken to stay), errors
  inside a compaction, other strategies, secondary keys, buckets that keep tombstones, file names that
  carry segment information, read-only shards, counts and Bloom filters. `LoadSegments` and the
  recovery of one log are atomic; a crash within either leaves what the next start handles alike.
* Backup: the coordinator, the commit's two phases and the restore; compression and chunks; tenants that
  are offloaded; what is in the snapshots of users and roles. A class has one shard: the halts of several
  succeed or fail together, but the upload of several may end between two of them (section 4), which
  `BackupIsComplete`, being about classes, does not see.
* The schema beyond replica sets, the cycle manager, the router and the other parts marked so in section
  1: single guarded updates, pure functions, I/O or generated code.
