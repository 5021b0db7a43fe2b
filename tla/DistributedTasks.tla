------------------------- MODULE DistributedTasks -------------------------
(* Distributed tasks: the manager, a state machine every node keeps by       *)
(* applying the raft log (cluster/distributedtask/manager.go), and the       *)
(* scheduler of every node, which polls the leader's manager and runs tasks  *)
(* locally (scheduler.go).                                                   *)
(*                                                                           *)
(* A node's place in the log is given by what it still has to apply; two     *)
(* nodes with equally much to apply have applied the same commands. A        *)
(* version, the log index of the command that added a task, is represented   *)
(* by the number of that addition: versions are only compared. The providers *)
(* that execute tasks are external; a node's provider keeps local state from *)
(* the start of a task until it is told to clean it up.                      *)
EXTENDS Naturals, FiniteSets, Sequences, SequencesExt

CONSTANTS
    Nodes,              \* all nodes that may ever be members
    InitialMembers,     \* the members at first
    TaskIds,            \* identifiers of tasks in one namespace
    NoTask,             \* no task of that identifier
    TTL,                \* completedTaskTTL, in ticks of the clock
    MaxAdds,            \* bound: submissions of tasks
    MaxSnapshots,       \* bound: snapshots taken
    MaxFaults           \* bound: restarts, leader changes, joins and leaves, failed calls,
                        \* cancellations, clean-ups refused because the task ended too recently

ASSUME TasksAssumption ==
    /\ IsFiniteSet(Nodes)
    /\ InitialMembers \subseteq Nodes
    /\ InitialMembers # {}
    /\ TTL \in Nat
    /\ {MaxAdds, MaxSnapshots, MaxFaults} \subseteq Nat

Versions == 1 .. MaxAdds
Descriptors == [id : TaskIds, version : Versions]
Statuses == {"STARTED", "FINISHED", "CANCELLED", "FAILED"}
Tasks == [version : Versions, status : Statuses, finishedNodes : SUBSET Nodes]
TaskMaps == [TaskIds -> Tasks \cup {NoTask}]

ASSUME NoTaskAssumption == NoTask \notin Tasks

Commands == [kind : {"add", "cancel", "cleanup"}, desc : Descriptors]
                \cup [kind : {"complete", "fail"}, desc : Descriptors, node : Nodes]
                \cup [kind : {"conf"}, members : SUBSET Nodes]

\* FinishedAt as the time since: 0 .. TTL + 1, where TTL + 1 is "longer than the TTL"
NotEnded == TTL + 2
Ages == 0 .. NotEnded

VARIABLES
    tasks,      \* tasks[n]: the tasks of node n's manager
    todo,       \* todo[n]: the committed commands n has not applied
    snap,       \* snap[n]: the last snapshot stored by n, and how far it is ahead of its index
    since,      \* since[n]: the commands n applied after the index of that snapshot
    persisting, \* persisting[n]: NotPersisting, or one more than the commands applied since
                \* Snapshot() was called
    ahead,      \* ahead[n]: commands still to be replayed that the restored snapshot contains
    replay,     \* replay[n]: commands n has to apply before its state is restored
    stale,      \* stale[n]: tasks n kept when it restored a snapshot without them, for the properties
    conf,       \* conf[n]: the latest raft configuration n knows
    members,    \* the latest raft configuration
    leader,     \* the raft leader
    age,        \* age[d]: how long ago d ended
    phase,      \* phase[n]: what n's scheduler is doing
    listed,     \* listed[n]: what a tick of n has read from the leader
    toClean,    \* toClean[n]: what the tick has still to ask the cluster to clean up
    running,    \* running[n]: the scheduler's handles
    local,      \* local[n]: tasks of which n's provider has state
    completed,  \* completed[n]: tasks whose completion n has recorded, for the properties
    clusters,   \* clusters[d]: configurations completions of d were counted against, for the properties
    verdicts,   \* verdicts[d]: what nodes did with the submission of d, for the properties
    gone,       \* tasks some manager cleaned up or replaced, for the properties
    used        \* how much of each bound is used up

raftVars == <<tasks, todo, snap, since, persisting, ahead, replay, stale, conf, members, leader, age,
              clusters, verdicts, gone>>
schedulerVars == <<phase, listed, toClean, running, local, completed>>
vars == <<raftVars, schedulerVars, used>>

NotPersisting == 0
NoList == [tasks |-> [i \in TaskIds |-> NoTask], lagging |-> FALSE, stale |-> {}]

Spend(what, bound) ==
    /\ used[what] < bound
    /\ used' = [used EXCEPT ![what] = @ + 1]

DescOf(i, t) == [id |-> i, version |-> t.version]
Present(ts) == {i \in TaskIds : ts[i] # NoTask}
Listing(ts) == {DescOf(i, ts[i]) : i \in Present(ts)}

-----------------------------------------------------------------------------
(* The manager. Every command yields the new map; a command that returns an  *)
(* error leaves it as it was.                                                *)

\* findVersionedTaskWithLock
Find(ts, d) == ts[d.id] # NoTask /\ ts[d.id].version = d.version

AddTask(ts, d) ==
    IF ts[d.id] # NoTask /\ (ts[d.id].status = "STARTED" \/ d.version <= ts[d.id].version)
    THEN ts
    ELSE [ts EXCEPT ![d.id] = [version |-> d.version, status |-> "STARTED", finishedNodes |-> {}]]

\* What becomes of a submission: the task is there, or an older one is in its way
Verdict(ts, d) ==
    IF d \in Listing(AddTask(ts, d)) THEN {"added"}
    ELSE IF ts[d.id].version < d.version THEN {"refused"} ELSE {}

\* Seeded bug: completions are counted, and one that is replayed counts again
RecordNodeCompletion_Counts(ts, d, node, numberOfNodes) ==
    IF Find(ts, d) /\ ts[d.id].status = "STARTED"
    THEN [ts EXCEPT ![d.id] =
            [version |-> d.version,
             status |-> IF Cardinality(ts[d.id].finishedNodes) + 1 = numberOfNodes THEN "FINISHED" ELSE "STARTED",
             finishedNodes |-> ts[d.id].finishedNodes \cup {node}]]
    ELSE ts

\* Seeded bug: the last node's completion is one too few
RecordNodeCompletion_OffByOne(ts, d, node, numberOfNodes) ==
    IF Find(ts, d) /\ ts[d.id].status = "STARTED"
    THEN LET finished == ts[d.id].finishedNodes \cup {node}
         IN  [ts EXCEPT ![d.id] =
                [version |-> d.version,
                 status |-> IF Cardinality(finished) > numberOfNodes THEN "FINISHED" ELSE "STARTED",
                 finishedNodes |-> finished]]
    ELSE ts

RecordNodeCompletion(ts, d, node, numberOfNodes) ==
    IF Find(ts, d) /\ ts[d.id].status = "STARTED"
    THEN LET finished == ts[d.id].finishedNodes \cup {node}
         IN  [ts EXCEPT ![d.id] =
                [version |-> d.version,
                 status |-> IF Cardinality(finished) = numberOfNodes THEN "FINISHED" ELSE "STARTED",
                 finishedNodes |-> finished]]
    ELSE ts

\* RecordNodeCompletion with an error, and CancelTask
EndTask(ts, d, status) ==
    IF Find(ts, d) /\ ts[d.id].status = "STARTED"
    THEN [ts EXCEPT ![d.id] = [@ EXCEPT !.status = status]]
    ELSE ts

CleanUpTask(ts, d, a) ==
    IF Find(ts, d) /\ ts[d.id].status # "STARTED" /\ a > TTL
    THEN [ts EXCEPT ![d.id] = NoTask]
    ELSE ts

\* Restore adds to the tasks that are there
Restore(ts, s) == [i \in TaskIds |-> IF s[i] # NoTask THEN s[i] ELSE ts[i]]

\* Store.Apply of one command, on node n
Applied(n, c) ==
    CASE c.kind = "add" -> AddTask(tasks[n], c.desc)
      [] c.kind = "complete" ->
            RecordNodeCompletion(tasks[n], c.desc, c.node, Cardinality(conf[n]))
      [] c.kind = "fail" -> EndTask(tasks[n], c.desc, "FAILED")
      [] c.kind = "cancel" -> EndTask(tasks[n], c.desc, "CANCELLED")
      [] c.kind = "cleanup" -> CleanUpTask(tasks[n], c.desc, age[c.desc])
      [] c.kind = "conf" -> tasks[n]

Ended(ts, d) == Find(ts, d) /\ ts[d.id].status # "STARTED"

\* sizes[d]: the cluster sizes completions of d were counted against
sizes == [d \in Descriptors |-> {Cardinality(m) : m \in clusters[d]}]

-----------------------------------------------------------------------------
(* The raft log                                                              *)

Init ==
    /\ tasks = [n \in Nodes |-> [i \in TaskIds |-> NoTask]]
    /\ todo = [n \in Nodes |-> <<>>]
    /\ snap = [n \in Nodes |-> [tasks |-> [i \in TaskIds |-> NoTask], ahead |-> 0, stale |-> {}]]
    /\ since = [n \in Nodes |-> <<>>]
    /\ persisting = [n \in Nodes |-> NotPersisting]
    /\ ahead = [n \in Nodes |-> 0]
    /\ replay = [n \in Nodes |-> 0]
    /\ stale = [n \in Nodes |-> {}]
    /\ conf = [n \in Nodes |-> InitialMembers]
    /\ members = InitialMembers
    /\ leader \in InitialMembers
    /\ age = [d \in Descriptors |-> NotEnded]
    /\ clusters = [d \in Descriptors |-> {}]
    /\ verdicts = [d \in Descriptors |-> {}]
    /\ gone = {}
    /\ phase = [n \in Nodes |-> "idle"]
    /\ listed = [n \in Nodes |-> NoList]
    /\ toClean = [n \in Nodes |-> {}]
    /\ running = [n \in Nodes |-> {}]
    /\ local = [n \in Nodes |-> {}]
    /\ completed = [n \in Nodes |-> {}]
    /\ used = [what \in {"adds", "snapshots", "faults"} |-> 0]

\* Node n applies c
ApplyAt(n, c) ==
    LET ts == Applied(n, c)
    IN  /\ tasks' = [tasks EXCEPT ![n] = ts]
        /\ since' = [since EXCEPT ![n] = Append(@, c)]
        /\ persisting' = [persisting EXCEPT ![n] = IF @ = NotPersisting THEN @ ELSE @ + 1]
        /\ ahead' = [ahead EXCEPT ![n] = IF @ = 0 THEN 0 ELSE @ - 1]
        /\ replay' = [replay EXCEPT ![n] = IF @ = 0 THEN 0 ELSE @ - 1]
        /\ age' = [d \in Descriptors |->
                     IF age[d] = NotEnded /\ Ended(ts, d) THEN 0 ELSE age[d]]
        /\ clusters' = [d \in Descriptors |->
                     IF c.kind = "complete" /\ c.desc = d
                     THEN clusters[d] \cup {conf[n]} ELSE clusters[d]]
        /\ verdicts' = [d \in Descriptors |->
                     IF c.kind = "add" /\ c.desc = d
                     THEN verdicts[d] \cup Verdict(tasks[n], d) ELSE verdicts[d]]
        /\ gone' = gone \cup (Listing(tasks[n]) \ Listing(ts))

\* Store.Execute: raft commits the command, and the call returns when the leader,
\* which first has to apply what is before it, has applied it
Execute(c) ==
    /\ todo[leader] = <<>>
    /\ ApplyAt(leader, c)
    /\ todo' = [n \in Nodes |-> IF n = leader THEN <<>> ELSE Append(todo[n], c)]
    /\ UNCHANGED <<snap, stale, leader>>

\* A follower, or a leader that lags, applies the next command
Apply(n) ==
    /\ n \in members
    /\ todo[n] # <<>>
    /\ ApplyAt(n, Head(todo[n]))
    /\ todo' = [todo EXCEPT ![n] = Tail(@)]
    /\ conf' = [conf EXCEPT ![n] = IF Head(todo[n]).kind = "conf" /\ @ # members
                                  THEN Head(todo[n]).members ELSE @]
    /\ UNCHANGED <<snap, stale, members, leader, schedulerVars, used>>

\* The raft library hands the store to a goroutine that persists it later
Snapshot(n) ==
    /\ n \in members
    /\ Spend("snapshots", MaxSnapshots)
    /\ persisting[n] = NotPersisting
    /\ since[n] # <<>>
    /\ persisting' = [persisting EXCEPT ![n] = 1]
    /\ UNCHANGED <<tasks, todo, snap, since, ahead, replay, stale, conf, members, leader, age,
                   clusters, verdicts, gone, schedulerVars>>

\* Persist reads the tasks as they are by then; the index is that of Snapshot
Persist(n) ==
    /\ persisting[n] # NotPersisting
    /\ LET p == persisting[n] - 1
       IN  /\ snap' = [snap EXCEPT ![n] = [tasks |-> tasks[n], ahead |-> p + ahead[n],
                                           stale |-> stale[n]]]
           /\ since' = [since EXCEPT ![n] = SubSeq(@, Len(@) - p + 1, Len(@))]
    /\ persisting' = [persisting EXCEPT ![n] = NotPersisting]
    /\ UNCHANGED <<tasks, todo, ahead, replay, stale, conf, members, leader, age, clusters, verdicts,
                   gone, schedulerVars, used>>

\* The process dies and starts again from its snapshot and log
Restart(n) ==
    /\ n \in members
    /\ Spend("faults", MaxFaults)
    /\ tasks' = [tasks EXCEPT ![n] = snap[n].tasks]
    /\ todo' = [todo EXCEPT ![n] = since[n] \o @]
    /\ since' = [since EXCEPT ![n] = <<>>]
    /\ ahead' = [ahead EXCEPT ![n] = snap[n].ahead]
    /\ replay' = [replay EXCEPT ![n] = Len(since[n] \o todo[n])]
    /\ stale' = [stale EXCEPT ![n] = snap[n].stale]
    /\ persisting' = [persisting EXCEPT ![n] = NotPersisting]
    /\ phase' = [phase EXCEPT ![n] = "starting"]
    /\ listed' = [listed EXCEPT ![n] = NoList]
    /\ toClean' = [toClean EXCEPT ![n] = {}]
    /\ running' = [running EXCEPT ![n] = {}]
    /\ UNCHANGED <<snap, conf, members, leader, age, clusters, verdicts, gone, local, completed>>

\* The leader's log does not go back to what a member has to apply next: it gets
\* the leader's snapshot, in the state it is in. With it comes the configuration; a
\* later one is learnt, as ever, at the latest from the log that follows.
InstallSnapshot(n) ==
    /\ n \in members \ {leader}
    /\ Len(todo[n]) > Len(since[leader] \o todo[leader])
    /\ tasks' = [tasks EXCEPT ![n] = Restore(@, snap[leader].tasks)]
    /\ todo' = [todo EXCEPT ![n] = since[leader] \o todo[leader]]
    /\ snap' = [snap EXCEPT ![n] = snap[leader]]
    /\ since' = [since EXCEPT ![n] = <<>>]
    /\ persisting' = [persisting EXCEPT ![n] = NotPersisting]
    /\ ahead' = [ahead EXCEPT ![n] = snap[leader].ahead]
    /\ replay' = [replay EXCEPT ![n] = 0]
    /\ stale' = [stale EXCEPT ![n] = snap[leader].stale
                    \cup ((Listing(tasks[n]) \cap Listing(tasks'[n])) \ Listing(snap[leader].tasks))]
    /\ \E known \in {conf[n], members} :
         /\ known = members \/ \E k \in DOMAIN todo'[n] : todo'[n][k].kind = "conf"
         /\ conf' = [conf EXCEPT ![n] = known]
    /\ UNCHANGED <<members, leader, age, clusters, verdicts, gone, schedulerVars, used>>

\* Another member, which has every committed command but may not have applied it
ChangeLeader(n) ==
    /\ n \in members \ {leader}
    /\ Spend("faults", MaxFaults)
    /\ leader' = n
    /\ UNCHANGED <<tasks, todo, snap, since, persisting, ahead, replay, stale, conf, members, age,
                   clusters, verdicts, gone, schedulerVars>>

\* A node joins or leaves; a member learns the configuration with its log,
\* at the latest when it applies what follows
Reconfigure(m) ==
    /\ Spend("faults", MaxFaults)
    /\ \E n \in Nodes : m = members \cup {n} \/ m = members \ {n}
    /\ m # members
    /\ leader \in m
    /\ members' = m
    /\ \E informed \in SUBSET Nodes :
         conf' = [n \in Nodes |-> IF n \in informed \cup {leader} THEN m ELSE conf[n]]
    /\ Execute([kind |-> "conf", members |-> m])
    /\ UNCHANGED schedulerVars

\* Time passes
Tock ==
    /\ \E d \in Descriptors : age[d] <= TTL
    /\ age' = [d \in Descriptors |-> IF age[d] <= TTL THEN age[d] + 1 ELSE age[d]]
    /\ UNCHANGED <<tasks, todo, snap, since, persisting, ahead, replay, stale, conf, members, leader,
                   clusters, verdicts, gone, schedulerVars, used>>

-----------------------------------------------------------------------------
(* Users and providers                                                       *)

Add(i) ==
    /\ Spend("adds", MaxAdds)
    /\ Execute([kind |-> "add", desc |-> [id |-> i, version |-> used.adds + 1]])
    /\ UNCHANGED <<conf, members, schedulerVars>>

Cancel(d) ==
    /\ d \in Listing(tasks[leader])
    /\ Spend("faults", MaxFaults)
    /\ Execute([kind |-> "cancel", desc |-> d])
    /\ UNCHANGED <<conf, members, schedulerVars>>

\* RecordDistributedTaskNodeCompletion by the provider of n
Complete(n, d) ==
    /\ n \in members
    /\ d \in running[n] \ completed[n]
    /\ completed' = [completed EXCEPT ![n] = @ \cup {d}]
    /\ Execute([kind |-> "complete", desc |-> d, node |-> n])
    /\ UNCHANGED <<conf, members, phase, listed, toClean, running, local, used>>

\* The same call again, after the reply was lost
CompleteAgain(n, d) ==
    /\ d \in completed[n]
    /\ Spend("faults", MaxFaults)
    /\ Execute([kind |-> "complete", desc |-> d, node |-> n])
    /\ UNCHANGED <<conf, members, schedulerVars>>

\* RecordDistributedTaskNodeFailure
Fail(n, d) ==
    /\ n \in members
    /\ d \in running[n]
    /\ Spend("faults", MaxFaults)
    /\ Execute([kind |-> "fail", desc |-> d, node |-> n])
    /\ UNCHANGED <<conf, members, schedulerVars>>

-----------------------------------------------------------------------------
(* The scheduler                                                             *)

\* The leader answers before it has applied what is committed
Lagging == todo[leader] # <<>> \/ ahead[leader] > 0

\* Seeded bug: a task this node has finished is still one to run
filterStartedTasks_Any(n, ts) ==
    {d \in Listing(ts) : ts[d.id].status = "STARTED"}

filterStartedTasks(n, ts) ==
    {d \in Listing(ts) : ts[d.id].status = "STARTED" /\ n \notin ts[d.id].finishedNodes}

\* Start, once the node's raft state is restored: lists the tasks, cleans up local
\* state of what is not to run and starts the rest
Start(n) ==
    /\ n \in members
    /\ phase[n] = "starting"
    /\ replay[n] = 0
    /\ LET started == filterStartedTasks(n, tasks[leader])
       IN  /\ running' = [running EXCEPT ![n] = started]
           /\ \E spared \in SUBSET (local[n] \ started) :
                /\ local' = [local EXCEPT ![n] = started \cup spared]
                /\ IF spared = {} THEN UNCHANGED used ELSE Spend("faults", MaxFaults)
    /\ phase' = [phase EXCEPT ![n] = "idle"]
    /\ UNCHANGED <<raftVars, listed, toClean, completed>>

\* An error of the lister, or of a provider when it starts a task, ends Start, and the
\* scheduler never runs
StartFails(n) ==
    /\ n \in members
    /\ phase[n] = "starting"
    /\ replay[n] = 0
    /\ \E started \in SUBSET filterStartedTasks(n, tasks[leader]) :
         /\ running' = [running EXCEPT ![n] = started]
         /\ \E spared \in SUBSET (local[n] \ filterStartedTasks(n, tasks[leader])) :
              local' = [local EXCEPT ![n] =
                          started \cup spared \cup (@ \cap filterStartedTasks(n, tasks[leader]))]
    /\ phase' = [phase EXCEPT ![n] = "off"]
    /\ UNCHANGED <<raftVars, listed, toClean, completed, used>>

\* tick, until it waits for the lock: the leader's manager lists its tasks. An error
\* ends the tick, and nothing has changed.
List(n) ==
    /\ n \in members
    /\ phase[n] = "idle"
    /\ phase' = [phase EXCEPT ![n] = "listed"]
    /\ listed' = [listed EXCEPT ![n] =
                    [tasks |-> tasks[leader],
                     lagging |-> Lagging,
                     stale |-> stale[leader]]]
    /\ UNCHANGED <<raftVars, toClean, running, local, completed, used>>

Cleanable(ts) ==
    {d \in Listing(ts) : ts[d.id].status # "STARTED" /\ TTL <= age[d] /\ age[d] # NotEnded}

\* Seeded bug: the handle of a task that has ended is kept
Handles_Kept(n, started, launched) == running[n] \cup launched

\* What runs after a tick: terminated are the handles of tasks that are not to run
Handles(n, started, launched) == (running[n] \cap started) \cup launched

\* Seeded bug: local state goes with the handle
LocalTasks_WithHandle(n, ts, launched) ==
    (local[n] \cap filterStartedTasks(n, ts)) \cup launched

\* Seeded bug: local state is never cleaned up
LocalTasks_Kept(n, ts, launched) == local[n] \cup launched

\* Local state is cleaned up when the task is not listed any more
LocalTasks(n, ts, launched) == (local[n] \cap Listing(ts)) \cup launched

\* The rest of tick, under the lock. "launched" are the tasks StartTask accepts, "spared"
\* those of which CleanupTask fails to drop the local state; CleanUpDistributedTask is
\* called for each of toClean[n] (in the code before the local clean-up, which depends
\* on the list alone).
TickWith(n, launched, spared) ==
    LET ts == listed[n].tasks
        started == filterStartedTasks(n, ts)
    IN  /\ phase[n] = "listed"
        /\ running' = [running EXCEPT ![n] = Handles(n, started, launched)]
        /\ local' = [local EXCEPT ![n] = LocalTasks(n, ts, launched) \cup spared]
        /\ toClean' = [toClean EXCEPT ![n] = Cleanable(ts)]
        /\ phase' = [phase EXCEPT ![n] = IF Cleanable(ts) = {} THEN "idle" ELSE "cleaning"]
        /\ listed' = [listed EXCEPT ![n] = NoList]
        /\ UNCHANGED <<raftVars, completed>>

ToLaunch(n) == filterStartedTasks(n, listed[n].tasks) \ running[n]

Tick(n) == TickWith(n, ToLaunch(n), {}) /\ UNCHANGED used

\* StartTask or CleanupTask fails for some; the next tick tries again
ProviderFails(n) ==
    /\ Spend("faults", MaxFaults)
    /\ \E launched \in SUBSET ToLaunch(n), spared \in SUBSET (local[n] \ Listing(listed[n].tasks)) :
         /\ launched # ToLaunch(n) \/ spared # {}
         /\ TickWith(n, launched, spared)

CleanedUp(n, d) ==
    /\ toClean' = [toClean EXCEPT ![n] = @ \ {d}]
    /\ phase' = [phase EXCEPT ![n] = IF toClean[n] = {d} THEN "idle" ELSE @]
    /\ UNCHANGED <<listed, running, local, completed>>

CleanUp(n, d) ==
    /\ n \in members
    /\ phase[n] = "cleaning" /\ d \in toClean[n]
    /\ Execute([kind |-> "cleanup", desc |-> d])
    /\ CleanedUp(n, d)
    /\ IF Find(tasks'[leader], d) THEN Spend("faults", MaxFaults) ELSE UNCHANGED used
    /\ UNCHANGED <<conf, members>>

CleanUpFails(n, d) ==
    /\ phase[n] = "cleaning" /\ d \in toClean[n]
    /\ Spend("faults", MaxFaults)
    /\ CleanedUp(n, d)
    /\ UNCHANGED raftVars

Next ==
    \/ \E i \in TaskIds : Add(i)
    \/ \E d \in Descriptors : Cancel(d)
    \/ \E n \in Nodes, d \in Descriptors : Complete(n, d) \/ CompleteAgain(n, d) \/ Fail(n, d)
                                      \/ CleanUp(n, d) \/ CleanUpFails(n, d)
    \/ \E n \in Nodes : Apply(n) \/ Snapshot(n) \/ Persist(n) \/ Restart(n) \/ InstallSnapshot(n) \/ ChangeLeader(n)
    \/ \E n \in Nodes : Start(n) \/ StartFails(n) \/ List(n) \/ Tick(n) \/ ProviderFails(n)
    \/ \E m \in SUBSET Nodes : Reconfigure(m)
    \/ Tock

TasksSpec == Init /\ [][Next]_vars

\* Raft delivers, schedulers and clocks run, and a task that runs comes to an end
Fairness ==
    /\ \A n \in Nodes : WF_vars(Apply(n)) /\ WF_vars(Start(n)) /\ WF_vars(List(n)) /\ WF_vars(Tick(n))
    /\ \A n \in Nodes, d \in Descriptors : WF_vars(Complete(n, d)) /\ WF_vars(CleanUp(n, d))
    /\ WF_vars(Tock)

TasksFairSpec == TasksSpec /\ Fairness

-----------------------------------------------------------------------------
(* Properties                                                                *)

\* Types; and what the scheduler has a handle of, the provider has state of.
TasksTypeOK ==
    /\ tasks \in [Nodes -> TaskMaps]
    /\ todo \in [Nodes -> Seq(Commands)]
    /\ snap \in [Nodes -> [tasks : TaskMaps, ahead : Nat, stale : SUBSET Descriptors]]
    /\ since \in [Nodes -> Seq(Commands)]
    /\ persisting \in [Nodes -> Nat]
    /\ ahead \in [Nodes -> Nat]
    /\ replay \in [Nodes -> Nat]
    /\ stale \in [Nodes -> SUBSET Descriptors]
    /\ conf \in [Nodes -> SUBSET Nodes]
    /\ members \subseteq Nodes
    /\ leader \in members
    /\ age \in [Descriptors -> Ages]
    /\ clusters \in [Descriptors -> SUBSET SUBSET Nodes]
    /\ verdicts \in [Descriptors -> SUBSET {"added", "refused"}]
    /\ gone \subseteq Descriptors
    /\ phase \in [Nodes -> {"starting", "off", "idle", "listed", "cleaning"}]
    /\ listed \in [Nodes -> [tasks : TaskMaps, lagging : BOOLEAN, stale : SUBSET Descriptors]]
    /\ toClean \in [Nodes -> SUBSET Descriptors]
    /\ running \in [Nodes -> SUBSET Descriptors]
    /\ local \in [Nodes -> SUBSET Descriptors]
    /\ completed \in [Nodes -> SUBSET Descriptors]
    /\ \A n \in Nodes : running[n] \subseteq local[n]

\* Of two maps, one has cleaned up a task that has ended in the other, or they agree
AgreeOn(i, t, u) ==
    \/ t[i] = u[i]
    \/ t[i] = NoTask /\ u[i].status # "STARTED"
    \/ u[i] = NoTask /\ t[i].status # "STARTED"

\* Of no run of i were completions counted against different numbers of nodes, and no
\* submission of i was refused once and accepted another time, when it was replayed
Consistent(i) ==
    \A d \in Descriptors : d.id = i => /\ \A k, l \in sizes[d] : k = l
                                       /\ verdicts[d] # {"added", "refused"}

Concerns(kept, i) == \E d \in kept : d.id = i

\* And neither node kept a task of i that a snapshot it restored does not contain
Comparable(a, b, i) ==
    /\ Consistent(i)
    /\ ~Concerns(stale[a] \cup stale[b], i)

\* Nodes that have applied the same commands have the same tasks, however often they
\* restarted from whatever snapshot, except that the clock of one may have let it
\* clean up a task the other still lists as ended.
NodesAgree ==
    \A a, b \in members :
        (Len(todo[a]) = Len(todo[b]) /\ ahead[a] = 0 /\ ahead[b] = 0)
            => \A i \in TaskIds : Comparable(a, b, i) => AgreeOn(i, tasks[a], tasks[b])

\* A task that is FINISHED was executed, this very run of it, by as many nodes as made up
\* some cluster its completions were counted against; and by exactly the nodes of the
\* cluster, every one of them, if they were all counted against the same one. (Once nodes
\* join or leave during the run only numbers are compared, manager.go:113.)
FinishedMeansExecuted ==
    \A n \in Nodes, i \in TaskIds :
        (tasks[n][i] # NoTask /\ tasks[n][i].status = "FINISHED")
            => LET d == DescOf(i, tasks[n][i])
                   finished == tasks[n][i].finishedNodes
               IN  /\ \A m \in finished : d \in completed[m]
                   /\ \E cluster \in clusters[d] :
                        /\ Cardinality(finished) = Cardinality(cluster)
                        /\ clusters[d] = {cluster} => finished = cluster

\* What a scheduler does with d follows from a list of a leader that had not applied all
\* that is committed, or that kept d when it restored a snapshot without it.
Misled(n, d) ==
    IF phase[n] = "starting"
    THEN Lagging \/ d \in stale[leader]
    ELSE listed[n].lagging \/ d \in listed[n].stale

\* A node that has recorded a task as completed does not start it again, even from a list
\* it read before.
CompletedIsNotRunAgain ==
    [][\A n \in Nodes : \A d \in running'[n] \ running[n] :
            d \in completed[n] => Misled(n, d)]_vars

\* The state a provider keeps of a task is cleaned up while the node runs only after the
\* task was cleaned up in the cluster, and when the node starts also if the node has
\* nothing left to do for it.
LiveTaskKeepsLocalState ==
    [][\A n \in Nodes : \A d \in local[n] \ local'[n] :
            \/ d \in gone
            \/ phase[n] = "starting" /\ d \notin filterStartedTasks(n, tasks[leader])
            \/ listed[n].lagging \/ Concerns(listed[n].stale, d.id) \/ ~Consistent(d.id)]_vars

\* The cluster changed, a scheduler did not start, or a task outlived the snapshot
Disturbed ==
    \/ members # InitialMembers
    \/ \E n \in members : phase[n] = "off" \/ stale[n] # {}

\* While the cluster stays as it is, every task ends, whatever restarts, failing calls and
\* changes of leader come in between.
EveryTaskEnds ==
    \A n \in Nodes, d \in Descriptors :
        (Find(tasks[n], d) /\ ~Ended(tasks[n], d)) ~> (Disturbed \/ Ended(tasks[n], d) \/ ~Find(tasks[n], d))

\* A task that has ended is, on every node, terminated, removed from the manager and
\* cleaned up by the provider.
EndedTaskIsForgotten ==
    \A n \in Nodes, d \in Descriptors :
        Ended(tasks[n], d) ~> (\/ Disturbed
                               \/ \A m \in members : /\ d \notin Listing(tasks[m])
                                                     /\ d \notin running[m] \cup local[m])

=============================================================================
