----------------------- MODULE DistributedTasks_proofs -----------------------
(***************************************************************************)
(* Proofs about distributed tasks: their types, that a finished task was   *)
(* executed by the nodes that were counted, that a node does not run       *)
(* again what it has completed, for any nodes, tasks and numbers of        *)
(* submissions, snapshots, restarts, changes of leader and of members.     *)
(***************************************************************************)
EXTENDS DistributedTasks, FiniteSetTheorems, TLAPS

----------------------------------------------------------------------------
(* Types *)

Snapshots == [tasks : TaskMaps, ahead : Nat, stale : SUBSET Descriptors]
Lists == [tasks : TaskMaps, lagging : BOOLEAN, stale : SUBSET Descriptors]
Phases == {"starting", "off", "idle", "listed", "cleaning"}
Bounds == {"adds", "snapshots", "faults"}

LogTypes ==
  /\ tasks \in [Nodes -> TaskMaps]
  /\ todo \in [Nodes -> Seq(Commands)]
  /\ snap \in [Nodes -> Snapshots]
  /\ since \in [Nodes -> Seq(Commands)]
  /\ persisting \in [Nodes -> Nat]
  /\ ahead \in [Nodes -> Nat]
  /\ replay \in [Nodes -> Nat]
  /\ stale \in [Nodes -> SUBSET Descriptors]
ClusterTypes ==
  /\ conf \in [Nodes -> SUBSET Nodes]
  /\ members \in SUBSET Nodes
  /\ leader \in members
HistoryTypes ==
  /\ age \in [Descriptors -> Ages]
  /\ clusters \in [Descriptors -> SUBSET SUBSET Nodes]
  /\ verdicts \in [Descriptors -> SUBSET {"added", "refused"}]
  /\ gone \in SUBSET Descriptors
SchedulerTypes ==
  /\ phase \in [Nodes -> Phases]
  /\ listed \in [Nodes -> Lists]
  /\ toClean \in [Nodes -> SUBSET Descriptors]
  /\ running \in [Nodes -> SUBSET Descriptors]
  /\ local \in [Nodes -> SUBSET Descriptors]
  /\ completed \in [Nodes -> SUBSET Descriptors]
Handled == \A n \in Nodes : running[n] \subseteq local[n]
BoundTypes == used \in [Bounds -> Nat] /\ used["adds"] \in 0..MaxAdds

\* What was applied while a snapshot is persisted, was applied since the last one
Window == \A n \in Nodes : persisting[n] <= Len(since[n]) + 1

Types == LogTypes /\ ClusterTypes /\ HistoryTypes /\ SchedulerTypes /\ Handled /\ BoundTypes /\ Window

LEMMA TypesCorrect == Types => TasksTypeOK
BY DEF Types, LogTypes, ClusterTypes, HistoryTypes, SchedulerTypes, Handled, BoundTypes, TasksTypeOK,
       Snapshots, Lists, Phases

LEMMA Constants ==
  /\ MaxAdds \in Nat /\ MaxSnapshots \in Nat /\ MaxFaults \in Nat /\ TTL \in Nat
  /\ 0 \in Ages /\ NotEnded \in Ages /\ NotEnded \in Nat
BY TasksAssumption DEF Ages, NotEnded

LEMMA CommandKinds ==
  ASSUME NEW c \in Commands
  PROVE  /\ c.kind \in {"add", "cancel", "cleanup", "complete", "fail", "conf"}
         /\ c.kind # "conf" => c.desc \in Descriptors
         /\ c.kind \in {"complete", "fail"} => c.node \in Nodes
         /\ c.kind = "conf" => c.members \in SUBSET Nodes
BY DEF Commands

LEMMA CommandTypes ==
  /\ \A d \in Descriptors : [kind |-> "add", desc |-> d] \in Commands
  /\ \A d \in Descriptors : [kind |-> "cancel", desc |-> d] \in Commands
  /\ \A d \in Descriptors : [kind |-> "cleanup", desc |-> d] \in Commands
  /\ \A d \in Descriptors, n \in Nodes : [kind |-> "complete", desc |-> d, node |-> n] \in Commands
  /\ \A d \in Descriptors, n \in Nodes : [kind |-> "fail", desc |-> d, node |-> n] \in Commands
  /\ \A m \in SUBSET Nodes : [kind |-> "conf", members |-> m] \in Commands
BY DEF Commands

LEMMA ConfSize ==
  ASSUME ClusterTypes, NEW n \in Nodes
  PROVE  Cardinality(conf[n]) \in Nat
<1>1. IsFiniteSet(Nodes) /\ conf[n] \in SUBSET Nodes
      BY TasksAssumption DEF ClusterTypes
<1> QED
    BY <1>1, FS_Subset, FS_CardinalityType

LEMMA TaskTypes ==
  ASSUME NEW ts \in TaskMaps, NEW d \in Descriptors
  PROVE  /\ d.id \in TaskIds /\ d.version \in Versions
         /\ ts[d.id] # NoTask => ts[d.id] \in Tasks
         /\ ts[d.id] # NoTask => ts[d.id].version \in Versions /\ ts[d.id].status \in Statuses
                                 /\ ts[d.id].finishedNodes \in SUBSET Nodes
         /\ ts[d.id] # NoTask => DescOf(d.id, ts[d.id]) \in Descriptors
BY DEF TaskMaps, Tasks, Descriptors, DescOf

LEMMA ListingTypes ==
  ASSUME NEW ts \in TaskMaps
  PROVE  Listing(ts) \in SUBSET Descriptors
BY DEF Listing, Present, DescOf, TaskMaps, Tasks, Descriptors

(* What is listed, in terms of the map. *)
LEMMA Listed ==
  ASSUME NEW ts \in TaskMaps, NEW d \in Descriptors
  PROVE  d \in Listing(ts) <=> Find(ts, d)
<1>1. d = [id |-> d.id, version |-> d.version] /\ d.id \in TaskIds
      BY DEF Descriptors
<1>2. ASSUME d \in Listing(ts) PROVE Find(ts, d)
  <2>1. PICK i \in TaskIds : ts[i] # NoTask /\ d = [id |-> i, version |-> ts[i].version]
        BY <1>2 DEF Listing, Present, DescOf
  <2> QED
      BY <2>1 DEF Find
<1>3. ASSUME Find(ts, d) PROVE d \in Listing(ts)
  <2>1. ts[d.id] # NoTask /\ d = DescOf(d.id, ts[d.id])
        BY <1>1, <1>3 DEF Find, DescOf
  <2> QED
      BY <2>1, <1>1 DEF Listing, Present
<1> QED
    BY <1>2, <1>3

LEMMA AddTaskTypes ==
  ASSUME NEW ts \in TaskMaps, NEW d \in Descriptors
  PROVE  AddTask(ts, d) \in TaskMaps
<1>1. [version |-> d.version, status |-> "STARTED", finishedNodes |-> {}] \in Tasks
      BY DEF Tasks, Descriptors, Statuses
<1> QED
    BY <1>1, TaskTypes DEF AddTask, TaskMaps

(* What a counted completion, and an end, make of a task. *)
Counted(t, m, k) ==
  [version |-> t.version,
   status |-> IF Cardinality(t.finishedNodes \cup {m}) = k THEN "FINISHED" ELSE t.status,
   finishedNodes |-> t.finishedNodes \cup {m}]
WithStatus(t, s) == [version |-> t.version, status |-> s, finishedNodes |-> t.finishedNodes]

LEMMA Completion ==
  ASSUME NEW ts \in TaskMaps, NEW d \in Descriptors, NEW m \in Nodes, NEW k,
         Find(ts, d), ts[d.id].status = "STARTED"
  PROVE  /\ RecordNodeCompletion(ts, d, m, k) = [ts EXCEPT ![d.id] = Counted(ts[d.id], m, k)]
         /\ Counted(ts[d.id], m, k) \in Tasks
<1>1. ts[d.id] \in Tasks /\ d.id \in TaskIds /\ ts[d.id].version = d.version
      BY TaskTypes DEF Find
<1>2. ts[d.id].finishedNodes \cup {m} \in SUBSET Nodes
      BY <1>1 DEF Tasks
<1>3. Counted(ts[d.id], m, k) \in Tasks
      BY <1>1, <1>2 DEF Tasks, Statuses, Counted
<1>4. RecordNodeCompletion(ts, d, m, k) = [ts EXCEPT ![d.id] = Counted(ts[d.id], m, k)]
      BY <1>1 DEF RecordNodeCompletion, Counted
<1> QED
    BY <1>3, <1>4

LEMMA Ending ==
  ASSUME NEW ts \in TaskMaps, NEW d \in Descriptors, NEW s \in Statuses,
         Find(ts, d), ts[d.id].status = "STARTED"
  PROVE  /\ EndTask(ts, d, s) = [ts EXCEPT ![d.id] = WithStatus(ts[d.id], s)]
         /\ WithStatus(ts[d.id], s) \in Tasks
<1>1. ts[d.id] \in Tasks /\ d.id \in TaskIds
      BY TaskTypes DEF Find
<1>2. [ts[d.id] EXCEPT !.status = s] = WithStatus(ts[d.id], s)
      BY <1>1 DEF WithStatus, Tasks
<1>3. EndTask(ts, d, s) = [ts EXCEPT ![d.id] = [ts[d.id] EXCEPT !.status = s]]
      BY <1>1 DEF EndTask, TaskMaps
<1>4. WithStatus(ts[d.id], s) \in Tasks
      BY <1>1 DEF WithStatus, Tasks
<1> QED
    BY <1>2, <1>3, <1>4

LEMMA CompletionTypes ==
  ASSUME NEW ts \in TaskMaps, NEW d \in Descriptors, NEW m \in Nodes, NEW k
  PROVE  RecordNodeCompletion(ts, d, m, k) \in TaskMaps
<1>1. CASE Find(ts, d) /\ ts[d.id].status = "STARTED"
      BY <1>1, Completion, TaskTypes DEF TaskMaps
<1> QED
    BY <1>1 DEF RecordNodeCompletion

LEMMA EndTaskTypes ==
  ASSUME NEW ts \in TaskMaps, NEW d \in Descriptors, NEW s \in Statuses
  PROVE  EndTask(ts, d, s) \in TaskMaps
<1>1. CASE Find(ts, d) /\ ts[d.id].status = "STARTED"
      BY <1>1, Ending, TaskTypes DEF TaskMaps
<1> QED
    BY <1>1 DEF EndTask

LEMMA CleanUpTypes ==
  ASSUME NEW ts \in TaskMaps, NEW d \in Descriptors, NEW a
  PROVE  CleanUpTask(ts, d, a) \in TaskMaps
BY TaskTypes DEF CleanUpTask, TaskMaps

LEMMA RestoreTypes ==
  ASSUME NEW ts \in TaskMaps, NEW s \in TaskMaps
  PROVE  Restore(ts, s) \in TaskMaps
BY DEF Restore, TaskMaps

LEMMA AppliedTypes ==
  ASSUME LogTypes, NEW n \in Nodes, NEW c \in Commands
  PROVE  Applied(n, c) \in TaskMaps
<1>1. tasks[n] \in TaskMaps
      BY DEF LogTypes
<1>2. CASE c.kind = "add"
      BY <1>1, <1>2, CommandKinds, AddTaskTypes DEF Applied
<1>3. CASE c.kind = "complete"
      BY <1>1, <1>3, CommandKinds, CompletionTypes DEF Applied
<1>4. CASE c.kind = "fail"
      BY <1>1, <1>4, CommandKinds, EndTaskTypes DEF Applied, Statuses
<1>5. CASE c.kind = "cancel"
      BY <1>1, <1>5, CommandKinds, EndTaskTypes DEF Applied, Statuses
<1>6. CASE c.kind = "cleanup"
      BY <1>1, <1>6, CommandKinds, CleanUpTypes DEF Applied
<1>7. CASE c.kind = "conf"
      BY <1>1, <1>7 DEF Applied
<1> QED
    BY <1>2, <1>3, <1>4, <1>5, <1>6, <1>7, CommandKinds

(* Sequences. *)
LEMMA Concatenated ==
  ASSUME NEW S, NEW s \in Seq(S), NEW t \in Seq(S)
  PROVE  /\ s \o t \in Seq(S)
         /\ Len(s \o t) = Len(s) + Len(t) /\ Len(s \o t) \in Nat /\ Len(s) \in Nat /\ Len(t) \in Nat
         /\ \A k \in 1..Len(s) : (s \o t)[k] = s[k]
         /\ \A k \in 1..Len(t) : (s \o t)[Len(s) + k] = t[k]
OBVIOUS

LEMMA Between ==
  ASSUME NEW a \in Nat, NEW b \in Nat, NEW k \in 1..(a + b), k \notin 1..a
  PROVE  k - a \in 1..b /\ k = a + (k - a)
OBVIOUS

LEMMA OneOfTwo ==
  ASSUME NEW S, NEW s \in Seq(S), NEW t \in Seq(S), NEW k \in 1..Len(s \o t)
  PROVE  \/ k \in 1..Len(s) /\ (s \o t)[k] = s[k]
         \/ \E j \in 1..Len(t) : k = Len(s) + j /\ (s \o t)[k] = t[j]
<1>1. Len(s) \in Nat /\ Len(t) \in Nat /\ k \in 1..(Len(s) + Len(t))
      BY Concatenated
<1>2. CASE k \in 1..Len(s)
      BY <1>2, Concatenated
<1>3. CASE k \notin 1..Len(s)
  <2>1. PICK j \in 1..Len(t) : k = Len(s) + j
        BY <1>1, <1>3, Between
  <2>2. (s \o t)[Len(s) + j] = t[j]
        BY Concatenated
  <2> QED
      BY <2>1, <2>2
<1> QED
    BY <1>2, <1>3

LEMMA Appended ==
  ASSUME NEW S, NEW s \in Seq(S), NEW x \in S
  PROVE  /\ Append(s, x) \in Seq(S) /\ Len(s) \in Nat
         /\ Len(Append(s, x)) = Len(s) + 1
         /\ Append(s, x)[Len(s) + 1] = x
         /\ \A k \in 1..Len(s) : Append(s, x)[k] = s[k]
OBVIOUS

LEMMA HeadTail ==
  ASSUME NEW S, NEW s \in Seq(S), s # <<>>
  PROVE  /\ Head(s) = s[1] /\ Head(s) \in S /\ Tail(s) \in Seq(S)
         /\ Len(s) \in Nat /\ Len(s) >= 1 /\ Len(Tail(s)) = Len(s) - 1
         /\ \A k \in 1..Len(Tail(s)) : Tail(s)[k] = s[k + 1]
OBVIOUS

LEMMA Suffix ==
  ASSUME NEW S, NEW s \in Seq(S), NEW p \in Nat, p <= Len(s)
  PROVE  /\ SubSeq(s, Len(s) - p + 1, Len(s)) \in Seq(S)
         /\ Len(SubSeq(s, Len(s) - p + 1, Len(s))) = p
         /\ \A k \in 1..p : SubSeq(s, Len(s) - p + 1, Len(s))[k] = s[Len(s) - p + k]
<1>1. Len(s) \in Nat /\ Len(s) - p + 1 \in 1..(Len(s) + 1)
      OBVIOUS
<1>2. Len(SubSeq(s, Len(s) - p + 1, Len(s))) = p
      BY <1>1
<1>3. ASSUME NEW k \in 1..p
      PROVE  SubSeq(s, Len(s) - p + 1, Len(s))[k] = s[Len(s) - p + k]
      BY <1>1
<1> QED
    BY <1>1, <1>2, <1>3

LEMMA TypesInit == Init => Types
<1> SUFFICES ASSUME Init PROVE Types
    OBVIOUS
<1>1. [i \in TaskIds |-> NoTask] \in TaskMaps
      BY DEF TaskMaps
<1>2. LogTypes
  <2>1. [tasks |-> [i \in TaskIds |-> NoTask], ahead |-> 0, stale |-> {}] \in Snapshots
        BY <1>1 DEF Snapshots
  <2>2. <<>> \in Seq(Commands) /\ NotPersisting \in Nat
        BY DEF NotPersisting
  <2>3. /\ tasks = [n \in Nodes |-> [i \in TaskIds |-> NoTask]]
        /\ snap = [n \in Nodes |-> [tasks |-> [i \in TaskIds |-> NoTask], ahead |-> 0, stale |-> {}]]
        BY DEF Init
  <2> QED
      BY <1>1, <2>1, <2>2, <2>3 DEF LogTypes, Init
<1>3. ClusterTypes
      BY TasksAssumption DEF ClusterTypes, Init
<1>4. HistoryTypes
      BY Constants DEF HistoryTypes, Init
<1>5. NoList \in Lists
      BY <1>1 DEF NoList, Lists
<1>6. SchedulerTypes /\ Handled
      BY <1>5 DEF SchedulerTypes, Handled, Init, Phases
<1>7. BoundTypes
      BY Constants DEF BoundTypes, Init, Bounds
<1>8. Window
      BY DEF Window, Init, NotPersisting
<1> QED
    BY <1>2, <1>3, <1>4, <1>6, <1>7, <1>8 DEF Types

(* A step that leaves the variables of a group alone keeps its types. *)
LEMMA TypesKept ==
  /\ LogTypes /\ UNCHANGED <<tasks, todo, snap, since, persisting, ahead, replay, stale>> => LogTypes'
  /\ Window /\ UNCHANGED <<since, persisting>> => Window'
  /\ ClusterTypes /\ UNCHANGED <<conf, members, leader>> => ClusterTypes'
  /\ HistoryTypes /\ UNCHANGED <<age, clusters, verdicts, gone>> => HistoryTypes'
  /\ SchedulerTypes /\ UNCHANGED schedulerVars => SchedulerTypes'
  /\ Handled /\ UNCHANGED <<running, local>> => Handled'
  /\ BoundTypes /\ UNCHANGED used => BoundTypes'
<1>1. LogTypes /\ UNCHANGED <<tasks, todo, snap, since, persisting, ahead, replay, stale>> => LogTypes'
      BY DEF LogTypes
<1>2. Window /\ UNCHANGED <<since, persisting>> => Window'
      BY DEF Window
<1>3. ClusterTypes /\ UNCHANGED <<conf, members, leader>> => ClusterTypes'
      BY DEF ClusterTypes
<1>4. HistoryTypes /\ UNCHANGED <<age, clusters, verdicts, gone>> => HistoryTypes'
      BY DEF HistoryTypes
<1>5. SchedulerTypes /\ UNCHANGED schedulerVars => SchedulerTypes'
      BY DEF SchedulerTypes, schedulerVars
<1>6. Handled /\ UNCHANGED <<running, local>> => Handled'
      BY DEF Handled
<1>7. BoundTypes /\ UNCHANGED used => BoundTypes'
      BY DEF BoundTypes
<1> QED
    BY <1>1, <1>2, <1>3, <1>4, <1>5, <1>6, <1>7

LEMMA LeaderIsNode ==
  ASSUME ClusterTypes
  PROVE  leader \in Nodes /\ leader \in members /\ members \subseteq Nodes
BY DEF ClusterTypes

LEMMA SpendTypes ==
  ASSUME BoundTypes, NEW what \in Bounds, NEW bound, Spend(what, bound), what = "adds" => bound = MaxAdds
  PROVE  BoundTypes'
<1>1. used["adds"] \in Nat /\ MaxAdds \in Nat /\ used[what] \in Nat
      BY Constants DEF BoundTypes
<1>2. used' = [used EXCEPT ![what] = used[what] + 1]
      BY DEF Spend
<1>3. used' \in [Bounds -> Nat]
      BY <1>1, <1>2 DEF BoundTypes
<1>4. CASE what = "adds"
  <2>1. used["adds"] < MaxAdds
        BY <1>4 DEF Spend
  <2>2. used'["adds"] = used["adds"] + 1
        BY <1>2, <1>4 DEF BoundTypes, Bounds
  <2> QED
      BY <1>1, <1>3, <2>1, <2>2 DEF BoundTypes
<1>5. CASE what # "adds"
  <2>1. used'["adds"] = used["adds"]
        BY <1>2, <1>5 DEF BoundTypes, Bounds
  <2> QED
      BY <1>3, <2>1 DEF BoundTypes
<1> QED
    BY <1>4, <1>5

LEMMA ApplyAtTypes ==
  ASSUME Types, NEW n \in Nodes, NEW c \in Commands, ApplyAt(n, c)
  PROVE  /\ tasks' \in [Nodes -> TaskMaps]
         /\ since' \in [Nodes -> Seq(Commands)]
         /\ persisting' \in [Nodes -> Nat]
         /\ ahead' \in [Nodes -> Nat]
         /\ replay' \in [Nodes -> Nat]
         /\ HistoryTypes'
         /\ Window'
<1> USE DEF Types
<1>1. Applied(n, c) \in TaskMaps
      BY AppliedTypes
<1>2. tasks' = [tasks EXCEPT ![n] = Applied(n, c)]
      BY DEF ApplyAt
<1>3. tasks' \in [Nodes -> TaskMaps]
      BY <1>1, <1>2 DEF LogTypes
<1>4. since' = [since EXCEPT ![n] = Append(since[n], c)]
      BY DEF ApplyAt
<1>5. since' \in [Nodes -> Seq(Commands)]
      BY <1>4 DEF LogTypes
<1>6. persisting' = [persisting EXCEPT ![n] = IF persisting[n] = NotPersisting
                                              THEN persisting[n] ELSE persisting[n] + 1]
      BY DEF ApplyAt
<1>7. persisting' \in [Nodes -> Nat]
      BY <1>6 DEF LogTypes
<1>8. ahead' \in [Nodes -> Nat]
  <2>1. ahead[n] \in Nat /\ ahead' = [ahead EXCEPT ![n] = IF ahead[n] = 0 THEN 0 ELSE ahead[n] - 1]
        BY DEF ApplyAt, LogTypes
  <2> QED
      BY <2>1 DEF LogTypes
<1>9. replay' \in [Nodes -> Nat]
  <2>1. replay[n] \in Nat /\ replay' = [replay EXCEPT ![n] = IF replay[n] = 0 THEN 0 ELSE replay[n] - 1]
        BY DEF ApplyAt, LogTypes
  <2> QED
      BY <2>1 DEF LogTypes
<1>10. age' \in [Descriptors -> Ages]
      BY Constants DEF ApplyAt, HistoryTypes
<1>11. clusters' \in [Descriptors -> SUBSET SUBSET Nodes]
      BY DEF ApplyAt, HistoryTypes, ClusterTypes
<1>12. verdicts' \in [Descriptors -> SUBSET {"added", "refused"}]
      BY DEF ApplyAt, HistoryTypes, Verdict
<1>13. gone' \in SUBSET Descriptors
  <2>1. Listing(tasks[n]) \in SUBSET Descriptors
        BY ListingTypes DEF LogTypes
  <2> QED
      BY <2>1 DEF ApplyAt, HistoryTypes
<1>14. Window'
  <2> SUFFICES ASSUME NEW m \in Nodes PROVE persisting'[m] <= Len(since'[m]) + 1
      BY DEF Window
  <2>1. persisting[m] \in Nat /\ since[m] \in Seq(Commands) /\ persisting[m] <= Len(since[m]) + 1
        BY DEF LogTypes, Window
  <2>2. CASE m = n
    <3>1. since'[m] = Append(since[m], c) /\ persisting'[m] \in {persisting[m], persisting[m] + 1}
          BY <2>2, <1>4, <1>6 DEF LogTypes
    <3>2. Len(since'[m]) = Len(since[m]) + 1
          BY <2>1, <3>1
    <3> QED
        BY <2>1, <3>1, <3>2
  <2>3. CASE m # n
    <3>1. since'[m] = since[m] /\ persisting'[m] = persisting[m]
          BY <2>3, <1>4, <1>6 DEF LogTypes
    <3> QED
        BY <2>1, <3>1
  <2> QED
      BY <2>2, <2>3
<1> QED
    BY <1>3, <1>5, <1>7, <1>8, <1>9, <1>10, <1>11, <1>12, <1>13, <1>14 DEF HistoryTypes

LEMMA ExecuteTypes ==
  ASSUME Types, NEW c \in Commands, Execute(c)
  PROVE  LogTypes' /\ HistoryTypes' /\ Window' /\ leader' = leader
<1>1. leader \in Nodes
      BY LeaderIsNode DEF Types
<1>2. ApplyAt(leader, c) /\ UNCHANGED <<snap, stale, leader>>
      BY DEF Execute
<1>3. todo' \in [Nodes -> Seq(Commands)]
  <2>1. todo' = [n \in Nodes |-> IF n = leader THEN <<>> ELSE Append(todo[n], c)]
        BY DEF Execute
  <2>2. \A n \in Nodes : todo[n] \in Seq(Commands)
        BY DEF Types, LogTypes
  <2> QED
      BY <2>1, <2>2
<1>4. snap' \in [Nodes -> Snapshots] /\ stale' \in [Nodes -> SUBSET Descriptors]
      BY <1>2 DEF Types, LogTypes
<1> QED
    BY <1>1, <1>2, <1>3, <1>4, ApplyAtTypes DEF LogTypes

LEMMA AddsDescriptor ==
  ASSUME BoundTypes, NEW i \in TaskIds, used["adds"] < MaxAdds
  PROVE  /\ [id |-> i, version |-> used["adds"] + 1] \in Descriptors
         /\ [kind |-> "add", desc |-> [id |-> i, version |-> used["adds"] + 1]] \in Commands
<1>1. used["adds"] + 1 \in Versions
      BY Constants DEF BoundTypes, Versions
<1>2. [id |-> i, version |-> used["adds"] + 1] \in Descriptors
      BY <1>1 DEF Descriptors
<1> QED
    BY <1>2, CommandTypes

LEMMA StartedAreListed ==
  ASSUME NEW n, NEW ts \in TaskMaps
  PROVE  /\ filterStartedTasks(n, ts) \subseteq Listing(ts)
         /\ Cleanable(ts) \subseteq Listing(ts)
         /\ filterStartedTasks(n, ts) \in SUBSET Descriptors
         /\ Cleanable(ts) \in SUBSET Descriptors
BY ListingTypes DEF filterStartedTasks, Cleanable

LEMMA RestartTypes ==
  ASSUME Types, NEW n \in Nodes, Restart(n)
  PROVE  Types'
<1> USE DEF Types
<1>1. snap[n] \in Snapshots
      BY DEF LogTypes
<1>2. since[n] \in Seq(Commands) /\ todo[n] \in Seq(Commands) /\ since[n] \o todo[n] \in Seq(Commands)
      BY DEF LogTypes
<1>3. Len(since[n] \o todo[n]) \in Nat
      BY <1>2, Concatenated
<1>4. LogTypes'
  <2>1. tasks' \in [Nodes -> TaskMaps] /\ ahead' \in [Nodes -> Nat] /\ stale' \in [Nodes -> SUBSET Descriptors]
        BY <1>1 DEF Restart, LogTypes, Snapshots
  <2>2. todo' \in [Nodes -> Seq(Commands)] /\ since' \in [Nodes -> Seq(Commands)]
        BY <1>2 DEF Restart, LogTypes
  <2>3. replay' \in [Nodes -> Nat] /\ persisting' \in [Nodes -> Nat]
        BY <1>3 DEF Restart, LogTypes, NotPersisting
  <2> QED
      BY <2>1, <2>2, <2>3 DEF Restart, LogTypes
<1>5. Window'
  <2> SUFFICES ASSUME NEW m \in Nodes PROVE persisting'[m] <= Len(since'[m]) + 1
      BY DEF Window
  <2>1. persisting[m] <= Len(since[m]) + 1
        BY DEF Window
  <2>2. CASE m = n
        BY <2>2 DEF Restart, LogTypes, NotPersisting
  <2>3. CASE m # n
        BY <2>1, <2>3 DEF Restart, LogTypes
  <2> QED
      BY <2>2, <2>3
<1>6. SchedulerTypes'
  <2>1. NoList \in Lists
        BY DEF NoList, Lists, TaskMaps
  <2>2. phase' \in [Nodes -> Phases] /\ listed' \in [Nodes -> Lists]
        BY <2>1 DEF Restart, SchedulerTypes, Phases
  <2>3. toClean' \in [Nodes -> SUBSET Descriptors] /\ running' \in [Nodes -> SUBSET Descriptors]
        BY DEF Restart, SchedulerTypes
  <2> QED
      BY <2>2, <2>3 DEF Restart, SchedulerTypes
<1>7. Handled'
      BY DEF Restart, Handled, SchedulerTypes
<1>8. BoundTypes'
  <2>1. Spend("faults", MaxFaults)
        BY DEF Restart
  <2> QED
      BY <2>1, SpendTypes DEF Bounds
<1>9. ClusterTypes' /\ HistoryTypes'
      BY TypesKept DEF Restart
<1> QED
    BY <1>4, <1>5, <1>6, <1>7, <1>8, <1>9

LEMMA InstallTypes ==
  ASSUME Types, NEW n \in Nodes, InstallSnapshot(n)
  PROVE  Types'
<1> USE DEF Types
<1>0. leader \in Nodes
      BY LeaderIsNode
<1>1. snap[leader] \in Snapshots /\ Restore(tasks[n], snap[leader].tasks) \in TaskMaps
  <2>1. snap[leader] \in Snapshots /\ tasks[n] \in TaskMaps
        BY <1>0 DEF LogTypes
  <2> QED
      BY <2>1, RestoreTypes DEF Snapshots
<1>2. since[leader] \o todo[leader] \in Seq(Commands)
      BY <1>0 DEF LogTypes
<1>3. tasks' \in [Nodes -> TaskMaps]
  <2>1. tasks' = [tasks EXCEPT ![n] = Restore(tasks[n], snap[leader].tasks)]
        BY DEF InstallSnapshot
  <2> QED
      BY <1>1, <2>1 DEF LogTypes
<1>4. LogTypes'
  <2>1. snap' \in [Nodes -> Snapshots] /\ ahead' \in [Nodes -> Nat]
        BY <1>1 DEF InstallSnapshot, LogTypes, Snapshots
  <2>2. stale' \in [Nodes -> SUBSET Descriptors]
    <3>1. Listing(tasks[n]) \in SUBSET Descriptors
          BY ListingTypes DEF LogTypes
    <3>2. snap[leader].stale \cup ((Listing(tasks[n]) \cap Listing(tasks'[n])) \ Listing(snap[leader].tasks))
            \in SUBSET Descriptors
          BY <1>1, <3>1 DEF Snapshots
    <3> QED
        BY <3>2 DEF InstallSnapshot, LogTypes
  <2>3. todo' \in [Nodes -> Seq(Commands)] /\ since' \in [Nodes -> Seq(Commands)]
        BY <1>2 DEF InstallSnapshot, LogTypes
  <2>4. replay' \in [Nodes -> Nat] /\ persisting' \in [Nodes -> Nat]
        BY DEF InstallSnapshot, LogTypes, NotPersisting
  <2> QED
      BY <1>3, <2>1, <2>2, <2>3, <2>4 DEF LogTypes
<1>5. Window'
  <2> SUFFICES ASSUME NEW m \in Nodes PROVE persisting'[m] <= Len(since'[m]) + 1
      BY DEF Window
  <2>1. persisting[m] <= Len(since[m]) + 1
        BY DEF Window
  <2>2. CASE m = n
        BY <2>2 DEF InstallSnapshot, LogTypes, NotPersisting
  <2>3. CASE m # n
        BY <2>1, <2>3 DEF InstallSnapshot, LogTypes
  <2> QED
      BY <2>2, <2>3
<1>6. ClusterTypes'
      BY DEF InstallSnapshot, ClusterTypes
<1> QED
    BY <1>4, <1>5, <1>6, TypesKept DEF InstallSnapshot, schedulerVars

LEMMA PersistTypes ==
  ASSUME Types, NEW n \in Nodes, Persist(n)
  PROVE  Types'
<1> USE DEF Types
<1> DEFINE p == persisting[n] - 1
<1>1. p \in Nat /\ p <= Len(since[n]) /\ since[n] \in Seq(Commands)
  <2>1. since[n] \in Seq(Commands) /\ persisting[n] \in Nat
        BY DEF LogTypes
  <2>2. persisting[n] # 0 /\ persisting[n] <= Len(since[n]) + 1 /\ Len(since[n]) \in Nat
        BY <2>1 DEF Persist, Window, NotPersisting
  <2> QED
      BY <2>1, <2>2
<1>2. SubSeq(since[n], Len(since[n]) - p + 1, Len(since[n])) \in Seq(Commands)
      BY <1>1
<1>3. Len(since'[n]) \in Nat /\ since' \in [Nodes -> Seq(Commands)]
  <2>1. since' = [since EXCEPT ![n] = SubSeq(since[n], Len(since[n]) - p + 1, Len(since[n]))]
        BY DEF Persist
  <2>2. since \in [Nodes -> Seq(Commands)]
        BY DEF LogTypes
  <2>3. since' \in [Nodes -> Seq(Commands)]
        BY <1>2, <2>1, <2>2
  <2>4. since'[n] \in Seq(Commands)
        BY <2>3
  <2> QED
      BY <2>3, <2>4
<1>4. [tasks |-> tasks[n], ahead |-> p + ahead[n], stale |-> stale[n]] \in Snapshots
      BY <1>1 DEF Snapshots, LogTypes
<1>5. LogTypes'
  <2>1. snap' \in [Nodes -> Snapshots]
        BY <1>4 DEF Persist, LogTypes
  <2>2. persisting' \in [Nodes -> Nat]
        BY DEF Persist, LogTypes, NotPersisting
  <2> QED
      BY <1>3, <2>1, <2>2 DEF LogTypes, Persist
<1>6. Window'
  <2> SUFFICES ASSUME NEW m \in Nodes PROVE persisting'[m] <= Len(since'[m]) + 1
      BY DEF Window
  <2>1. CASE m = n
        BY <2>1, <1>3 DEF Persist, LogTypes, NotPersisting
  <2>2. CASE m # n
    <3>1. persisting[m] <= Len(since[m]) + 1 /\ persisting'[m] = persisting[m] /\ since'[m] = since[m]
          BY <2>2 DEF Persist, LogTypes, Window
    <3> QED
        BY <3>1
  <2> QED
      BY <2>1, <2>2
<1> QED
    BY <1>5, <1>6, TypesKept DEF Persist, schedulerVars

LEMMA SnapshotTypes ==
  ASSUME Types, NEW n \in Nodes, Snapshot(n)
  PROVE  Types'
<1> USE DEF Types
<1>1. persisting' = [persisting EXCEPT ![n] = 1]
      BY DEF Snapshot
<1>2. LogTypes'
      BY <1>1 DEF Snapshot, LogTypes
<1>3. Window'
  <2> SUFFICES ASSUME NEW m \in Nodes PROVE persisting'[m] <= Len(since'[m]) + 1
      BY DEF Window
  <2>1. persisting[m] <= Len(since[m]) + 1 /\ Len(since[m]) \in Nat /\ since' = since
        BY DEF Snapshot, LogTypes, Window
  <2> QED
      BY <2>1, <1>1 DEF LogTypes
<1>4. BoundTypes'
  <2>1. Spend("snapshots", MaxSnapshots)
        BY DEF Snapshot
  <2> QED
      BY <2>1, SpendTypes DEF Bounds
<1> QED
    BY <1>2, <1>3, <1>4, TypesKept DEF Snapshot, schedulerVars

LEMMA ApplyTypes ==
  ASSUME Types, NEW n \in Nodes, Apply(n)
  PROVE  Types'
<1> USE DEF Types
<1>1. todo[n] \in Seq(Commands) /\ todo[n] # <<>>
      BY DEF Apply, LogTypes
<1>2. Head(todo[n]) \in Commands /\ Tail(todo[n]) \in Seq(Commands)
      BY <1>1
<1>3. ApplyAt(n, Head(todo[n]))
      BY DEF Apply
<1>4. LogTypes' /\ HistoryTypes' /\ Window'
  <2>1. todo' \in [Nodes -> Seq(Commands)]
        BY <1>2 DEF Apply, LogTypes
  <2>2. snap' \in [Nodes -> Snapshots] /\ stale' \in [Nodes -> SUBSET Descriptors]
        BY DEF Apply, LogTypes
  <2> QED
      BY <1>2, <1>3, <2>1, <2>2, ApplyAtTypes DEF LogTypes
<1>5. ClusterTypes'
      BY <1>2, CommandKinds DEF Apply, ClusterTypes
<1> QED
    BY <1>4, <1>5, TypesKept DEF Apply, schedulerVars

LEMMA ReconfigureTypes ==
  ASSUME Types, NEW m \in SUBSET Nodes, Reconfigure(m)
  PROVE  Types'
<1> USE DEF Types
<1>1. [kind |-> "conf", members |-> m] \in Commands /\ Execute([kind |-> "conf", members |-> m])
      BY CommandTypes DEF Reconfigure
<1>2. LogTypes' /\ HistoryTypes' /\ Window' /\ leader' = leader
      BY <1>1, ExecuteTypes
<1>3. ClusterTypes'
      BY <1>2 DEF Reconfigure, ClusterTypes
<1>4. BoundTypes'
  <2>1. Spend("faults", MaxFaults)
        BY DEF Reconfigure
  <2> QED
      BY <2>1, SpendTypes DEF Bounds
<1> QED
    BY <1>2, <1>3, <1>4, TypesKept DEF Reconfigure, schedulerVars

LEMMA TickTypes ==
  ASSUME Types, NEW n \in Nodes, NEW launched \in SUBSET ToLaunch(n), NEW spared \in SUBSET local[n],
         TickWith(n, launched, spared)
  PROVE  SchedulerTypes' /\ Handled'
<1> USE DEF Types
<1> DEFINE ts == listed[n].tasks
<1>1. ts \in TaskMaps
      BY DEF SchedulerTypes, Lists
<1>2. /\ filterStartedTasks(n, ts) \in SUBSET Descriptors /\ Cleanable(ts) \in SUBSET Descriptors
      /\ filterStartedTasks(n, ts) \subseteq Listing(ts)
      BY <1>1, StartedAreListed
<1>3. launched \in SUBSET Descriptors
      BY <1>2 DEF ToLaunch
<1>4. /\ running[n] \in SUBSET Descriptors /\ local[n] \in SUBSET Descriptors /\ spared \in SUBSET Descriptors
      /\ running[n] \subseteq local[n]
      BY DEF SchedulerTypes, Handled
<1>5. /\ Handles(n, filterStartedTasks(n, ts), launched) \in SUBSET Descriptors
      /\ LocalTasks(n, ts, launched) \cup spared \in SUBSET Descriptors
      /\ Handles(n, filterStartedTasks(n, ts), launched) \subseteq LocalTasks(n, ts, launched)
      BY <1>2, <1>3, <1>4 DEF Handles, LocalTasks
<1>6. /\ running' = [running EXCEPT ![n] = Handles(n, filterStartedTasks(n, ts), launched)]
      /\ local' = [local EXCEPT ![n] = LocalTasks(n, ts, launched) \cup spared]
      /\ toClean' = [toClean EXCEPT ![n] = Cleanable(ts)]
      /\ phase' = [phase EXCEPT ![n] = IF Cleanable(ts) = {} THEN "idle" ELSE "cleaning"]
      /\ listed' = [listed EXCEPT ![n] = NoList]
      /\ completed' = completed
      BY DEF TickWith
<1>7. NoList \in Lists
      BY DEF NoList, Lists, TaskMaps
<1>8. SchedulerTypes'
  <2>1. running' \in [Nodes -> SUBSET Descriptors] /\ local' \in [Nodes -> SUBSET Descriptors]
        BY <1>5, <1>6 DEF SchedulerTypes
  <2>2. phase' \in [Nodes -> Phases] /\ listed' \in [Nodes -> Lists] /\ toClean' \in [Nodes -> SUBSET Descriptors]
        BY <1>2, <1>6, <1>7 DEF SchedulerTypes, Phases
  <2> QED
      BY <2>1, <2>2, <1>6 DEF SchedulerTypes
<1>9. Handled'
      BY <1>5, <1>6 DEF Handled, SchedulerTypes
<1> QED
    BY <1>8, <1>9

\* A start starts tasks, and keeps some of the local state that is there.
LEMMA StartRunsAndKeeps ==
  ASSUME NEW n \in Nodes, Start(n) \/ StartFails(n)
  PROVE  \E started \in SUBSET filterStartedTasks(n, tasks[leader]), kept \in SUBSET local[n] :
           /\ running' = [running EXCEPT ![n] = started]
           /\ local' = [local EXCEPT ![n] = started \cup kept]
<1>1. CASE Start(n)
      BY <1>1 DEF Start
<1>2. CASE StartFails(n)
  <2>1. PICK started \in SUBSET filterStartedTasks(n, tasks[leader]),
             spared \in SUBSET (local[n] \ filterStartedTasks(n, tasks[leader])) :
          /\ running' = [running EXCEPT ![n] = started]
          /\ local' = [local EXCEPT ![n] =
                         started \cup spared \cup (local[n] \cap filterStartedTasks(n, tasks[leader]))]
        BY <1>2 DEF StartFails
  <2> DEFINE kept == spared \cup (local[n] \cap filterStartedTasks(n, tasks[leader]))
  <2>2. kept \in SUBSET local[n] /\ local' = [local EXCEPT ![n] = started \cup kept]
        BY <2>1
  <2> QED
      BY <2>1, <2>2
<1> QED
    BY <1>1, <1>2

LEMMA StartTypes ==
  ASSUME Types, NEW n \in Nodes, Start(n) \/ StartFails(n)
  PROVE  Types'
<1> USE DEF Types
<1>1. tasks[leader] \in TaskMaps
      BY LeaderIsNode DEF LogTypes
<1>2. filterStartedTasks(n, tasks[leader]) \in SUBSET Descriptors
      BY <1>1, StartedAreListed
<1>3. SchedulerTypes' /\ Handled' /\ UNCHANGED raftVars
  <2>1. PICK started \in SUBSET filterStartedTasks(n, tasks[leader]), kept \in SUBSET local[n] :
          /\ running' = [running EXCEPT ![n] = started]
          /\ local' = [local EXCEPT ![n] = started \cup kept]
        BY StartRunsAndKeeps
  <2>2. /\ phase' \in [Nodes -> Phases]
        /\ UNCHANGED <<raftVars, listed, toClean, completed>>
        BY DEF Start, StartFails, SchedulerTypes, Phases
  <2>3. started \cup kept \in SUBSET Descriptors /\ started \in SUBSET Descriptors
        BY <1>2 DEF SchedulerTypes
  <2>4. running' \in [Nodes -> SUBSET Descriptors] /\ local' \in [Nodes -> SUBSET Descriptors]
        BY <2>1, <2>3 DEF SchedulerTypes
  <2>5. SchedulerTypes'
        BY <2>2, <2>4 DEF SchedulerTypes
  <2>6. Handled'
        BY <2>1 DEF Handled, SchedulerTypes
  <2> QED
      BY <2>2, <2>5, <2>6
<1>4. UNCHANGED used \/ Spend("faults", MaxFaults)
      BY DEF Start, StartFails
<1> QED
    BY <1>3, <1>4, SpendTypes, TypesKept DEF raftVars, Bounds

LEMMA ListTypes ==
  ASSUME Types, NEW n \in Nodes, List(n)
  PROVE  Types'
<1> USE DEF Types
<1>1. [tasks |-> tasks[leader], lagging |-> Lagging, stale |-> stale[leader]] \in Lists
      BY LeaderIsNode DEF LogTypes, Lists, Lagging
<1>2. SchedulerTypes'
      BY <1>1 DEF List, SchedulerTypes, Phases
<1> QED
    BY <1>2, TypesKept DEF List, raftVars

LEMMA CleanedUpTypes ==
  ASSUME Types, NEW n \in Nodes, NEW d, CleanedUp(n, d)
  PROVE  SchedulerTypes' /\ Handled'
<1>1. SchedulerTypes'
      BY DEF Types, CleanedUp, SchedulerTypes, Phases
<1>2. Handled'
      BY DEF Types, CleanedUp, Handled
<1> QED
    BY <1>1, <1>2

(* A call that changes neither the configuration nor the schedulers. *)
LEMMA CallTypes ==
  ASSUME Types, NEW c \in Commands, Execute(c), UNCHANGED <<conf, members>>
  PROVE  LogTypes' /\ HistoryTypes' /\ Window' /\ ClusterTypes'
<1>1. LogTypes' /\ HistoryTypes' /\ Window' /\ leader' = leader
      BY ExecuteTypes
<1>2. ClusterTypes'
      BY <1>1, TypesKept DEF Types
<1> QED
    BY <1>1, <1>2

LEMMA UserTypes ==
  ASSUME Types, NEW d \in Descriptors, NEW n \in Nodes,
         Cancel(d) \/ Complete(n, d) \/ CompleteAgain(n, d) \/ Fail(n, d) \/ CleanUp(n, d) \/ CleanUpFails(n, d)
  PROVE  Types'
<1> USE DEF Types
<1>1. CASE Cancel(d)
  <2>1. [kind |-> "cancel", desc |-> d] \in Commands /\ Execute([kind |-> "cancel", desc |-> d])
        BY <1>1, CommandTypes DEF Cancel
  <2>2. Spend("faults", MaxFaults) /\ UNCHANGED <<conf, members, schedulerVars>>
        BY <1>1 DEF Cancel
  <2> QED
      BY <2>1, <2>2, CallTypes, SpendTypes, TypesKept DEF schedulerVars, Bounds
<1>2. CASE Complete(n, d)
  <2>1. /\ [kind |-> "complete", desc |-> d, node |-> n] \in Commands
        /\ Execute([kind |-> "complete", desc |-> d, node |-> n])
        BY <1>2, CommandTypes DEF Complete
  <2>2. SchedulerTypes' /\ Handled'
        BY <1>2 DEF Complete, SchedulerTypes, Handled
  <2>3. UNCHANGED <<conf, members, used>>
        BY <1>2 DEF Complete
  <2> QED
      BY <2>1, <2>2, <2>3, CallTypes, TypesKept
<1>3. CASE CompleteAgain(n, d)
  <2>1. /\ [kind |-> "complete", desc |-> d, node |-> n] \in Commands
        /\ Execute([kind |-> "complete", desc |-> d, node |-> n])
        BY <1>3, CommandTypes DEF CompleteAgain
  <2>2. Spend("faults", MaxFaults) /\ UNCHANGED <<conf, members, schedulerVars>>
        BY <1>3 DEF CompleteAgain
  <2> QED
      BY <2>1, <2>2, CallTypes, SpendTypes, TypesKept DEF schedulerVars, Bounds
<1>4. CASE Fail(n, d)
  <2>1. /\ [kind |-> "fail", desc |-> d, node |-> n] \in Commands
        /\ Execute([kind |-> "fail", desc |-> d, node |-> n])
        BY <1>4, CommandTypes DEF Fail
  <2>2. Spend("faults", MaxFaults) /\ UNCHANGED <<conf, members, schedulerVars>>
        BY <1>4 DEF Fail
  <2> QED
      BY <2>1, <2>2, CallTypes, SpendTypes, TypesKept DEF schedulerVars, Bounds
<1>5. CASE CleanUp(n, d)
  <2>1. [kind |-> "cleanup", desc |-> d] \in Commands /\ Execute([kind |-> "cleanup", desc |-> d])
        BY <1>5, CommandTypes DEF CleanUp
  <2>2. SchedulerTypes' /\ Handled'
        BY <1>5, CleanedUpTypes DEF CleanUp
  <2>3. BoundTypes'
    <3>1. Spend("faults", MaxFaults) \/ UNCHANGED used
          BY <1>5 DEF CleanUp
    <3> QED
        BY <3>1, SpendTypes, TypesKept DEF Bounds
  <2>4. UNCHANGED <<conf, members>>
        BY <1>5 DEF CleanUp
  <2> QED
      BY <2>1, <2>2, <2>3, <2>4, CallTypes
<1>6. CASE CleanUpFails(n, d)
  <2>1. SchedulerTypes' /\ Handled'
        BY <1>6, CleanedUpTypes DEF CleanUpFails
  <2>2. Spend("faults", MaxFaults) /\ UNCHANGED raftVars
        BY <1>6 DEF CleanUpFails
  <2> QED
      BY <2>1, <2>2, SpendTypes, TypesKept DEF raftVars, Bounds
<1> QED
    BY <1>1, <1>2, <1>3, <1>4, <1>5, <1>6

LEMMA AddTypes ==
  ASSUME Types, NEW i \in TaskIds, Add(i)
  PROVE  Types'
<1> USE DEF Types
<1>1. Spend("adds", MaxAdds) /\ used["adds"] = used.adds
      BY DEF Add
<1>2. used["adds"] < MaxAdds
      BY <1>1 DEF Spend
<1>3. Execute([kind |-> "add", desc |-> [id |-> i, version |-> used["adds"] + 1]])
      BY DEF Add
<1>4. BoundTypes'
      BY <1>1, SpendTypes DEF Bounds
<1>5. UNCHANGED <<conf, members, schedulerVars>>
      BY DEF Add
<1> QED
    BY <1>2, <1>3, <1>4, <1>5, AddsDescriptor, CallTypes, TypesKept DEF schedulerVars

LEMMA TypesStep == Types /\ [Next]_vars => Types'
<1> SUFFICES ASSUME Types, [Next]_vars PROVE Types'
    OBVIOUS
<1>1. ASSUME NEW i \in TaskIds, Add(i) PROVE Types'
      BY <1>1, AddTypes
<1>2. ASSUME NEW d \in Descriptors, Cancel(d) PROVE Types'
  <2>1. \E n : n \in Nodes
        BY LeaderIsNode DEF Types
  <2> QED
      BY <1>2, <2>1, UserTypes
<1>3. ASSUME NEW n \in Nodes, NEW d \in Descriptors,
             \/ Complete(n, d) \/ CompleteAgain(n, d) \/ Fail(n, d)
             \/ CleanUp(n, d) \/ CleanUpFails(n, d)
      PROVE  Types'
      BY <1>3, UserTypes
<1>4. ASSUME NEW n \in Nodes,
             \/ Apply(n) \/ Snapshot(n) \/ Persist(n) \/ Restart(n) \/ InstallSnapshot(n)
             \/ ChangeLeader(n)
      PROVE  Types'
  <2>1. CASE Apply(n)
        BY <2>1, ApplyTypes
  <2>2. CASE Snapshot(n)
        BY <2>2, SnapshotTypes
  <2>3. CASE Persist(n)
        BY <2>3, PersistTypes
  <2>4. CASE Restart(n)
        BY <2>4, RestartTypes
  <2>5. CASE InstallSnapshot(n)
        BY <2>5, InstallTypes
  <2>6. CASE ChangeLeader(n)
    <3>1. ClusterTypes'
          BY <2>6 DEF ChangeLeader, ClusterTypes, Types
    <3>2. Spend("faults", MaxFaults)
          BY <2>6 DEF ChangeLeader
    <3> QED
        BY <2>6, <3>1, <3>2, SpendTypes, TypesKept DEF ChangeLeader, Types, schedulerVars, Bounds
  <2> QED
      BY <1>4, <2>1, <2>2, <2>3, <2>4, <2>5, <2>6
<1>5. ASSUME NEW n \in Nodes,
             Start(n) \/ StartFails(n) \/ List(n) \/ Tick(n) \/ ProviderFails(n)
      PROVE  Types'
  <2>1. CASE Start(n) \/ StartFails(n)
        BY <2>1, StartTypes
  <2>2. CASE List(n)
        BY <2>2, ListTypes
  <2>3. CASE Tick(n)
    <3>1. PICK launched \in SUBSET ToLaunch(n), spared \in SUBSET local[n] :
            TickWith(n, launched, spared) /\ UNCHANGED used
          BY <2>3 DEF Tick
    <3>2. SchedulerTypes' /\ Handled' /\ UNCHANGED raftVars
          BY <3>1, TickTypes DEF TickWith
    <3> QED
        BY <3>1, <3>2, TypesKept DEF Types, raftVars
  <2>4. CASE ProviderFails(n)
    <3>1. PICK launched \in SUBSET ToLaunch(n), spared \in SUBSET local[n] : TickWith(n, launched, spared)
          BY <2>4 DEF ProviderFails
    <3>2. SchedulerTypes' /\ Handled' /\ UNCHANGED raftVars
          BY <3>1, TickTypes DEF TickWith
    <3>3. Spend("faults", MaxFaults)
          BY <2>4 DEF ProviderFails
    <3> QED
        BY <3>2, <3>3, SpendTypes, TypesKept DEF Types, raftVars, Bounds
  <2> QED
      BY <1>5, <2>1, <2>2, <2>3, <2>4
<1>6. ASSUME NEW m \in SUBSET Nodes, Reconfigure(m) PROVE Types'
      BY <1>6, ReconfigureTypes
<1>7. CASE Tock
  <2>1. age' \in [Descriptors -> Ages]
    <3>1. ASSUME NEW d \in Descriptors
          PROVE  (IF age[d] <= TTL THEN age[d] + 1 ELSE age[d]) \in Ages
          BY Constants DEF Types, HistoryTypes, Ages, NotEnded
    <3> QED
        BY <1>7, <3>1 DEF Tock
  <2>2. HistoryTypes'
        BY <1>7, <2>1 DEF Tock, Types, HistoryTypes
  <2> QED
      BY <1>7, <2>2, TypesKept DEF Tock, Types, schedulerVars
<1>8. CASE UNCHANGED vars
      BY <1>8, TypesKept DEF vars, raftVars, schedulerVars, Types
<1> QED
    BY <1>1, <1>2, <1>3, <1>4, <1>5, <1>6, <1>7, <1>8 DEF Next

(* The values of all variables are of their types: the tasks, logs and       *)
(* snapshots of the nodes are well formed whatever is applied, persisted,    *)
(* restored or installed in whatever order, the leader is a member, and the  *)
(* scheduler has handles only of tasks of which the provider has state.      *)
THEOREM TasksTypeCorrect == TasksSpec => []TasksTypeOK
<1>1. TasksSpec => []Types
      BY TypesInit, TypesStep, PTL DEF TasksSpec
<1> QED
    BY <1>1, TypesCorrect, PTL

----------------------------------------------------------------------------
(* What a step does to the log: a command is committed, a node applies one,  *)
(* persists its tasks, restarts or installs a snapshot, or no node's place   *)
(* in the log changes.                                                       *)

logVars == <<tasks, todo, snap, since, ahead, stale>>

\* Tasks someone can refer to
Mentioned ==
  UNION {Listing(tasks[n]) \cup running[n] \cup completed[n] \cup toClean[n] : n \in Nodes}

\* Who submits a command, and what it records
Origin(c) ==
  /\ IF c.kind = "add"
     THEN c.desc.version = used["adds"] + 1 /\ used'["adds"] = used["adds"] + 1
     ELSE used'["adds"] = used["adds"]
  /\ c.kind \notin {"add", "conf"} => c.desc \in Mentioned
  /\ IF c.kind = "complete"
     THEN completed' = [completed EXCEPT ![c.node] = completed[c.node] \cup {c.desc}]
     ELSE completed' = completed

AddsKept == used'["adds"] = used["adds"] /\ completed' = completed

LEMMA SpendKeepsAdds ==
  ASSUME BoundTypes, NEW what \in Bounds, NEW bound, Spend(what, bound)
  PROVE  used'["adds"] = IF what = "adds" THEN used["adds"] + 1 ELSE used["adds"]
BY DEF Spend, BoundTypes, Bounds

LEMMA UserSteps ==
  ASSUME Types, NEW d \in Descriptors, NEW n \in Nodes,
         Cancel(d) \/ Complete(n, d) \/ CompleteAgain(n, d) \/ Fail(n, d) \/ CleanUp(n, d)
  PROVE  \E c \in Commands : Execute(c) /\ Origin(c)
<1> USE DEF Types
<1>0. completed \in [Nodes -> SUBSET Descriptors] /\ leader \in Nodes
      BY LeaderIsNode DEF SchedulerTypes
<1>1. CASE Cancel(d)
  <2> DEFINE c == [kind |-> "cancel", desc |-> d]
  <2>1. c \in Commands /\ Execute(c)
        BY <1>1, CommandTypes DEF Cancel
  <2>2. c.desc \in Mentioned
        BY <1>0, <1>1 DEF Cancel, Mentioned
  <2>3. used'["adds"] = used["adds"]
        BY <1>1, SpendKeepsAdds DEF Cancel, Bounds
  <2>4. completed' = completed
        BY <1>1 DEF Cancel, schedulerVars
  <2>5. Origin(c)
        BY <2>2, <2>3, <2>4 DEF Origin
  <2> QED
      BY <2>1, <2>5
<1>2. CASE Complete(n, d)
  <2> DEFINE c == [kind |-> "complete", desc |-> d, node |-> n]
  <2>1. c \in Commands /\ Execute(c)
        BY <1>2, CommandTypes DEF Complete
  <2>2. c.desc \in Mentioned
        BY <1>2 DEF Complete, Mentioned
  <2>3. used'["adds"] = used["adds"]
        BY <1>2 DEF Complete
  <2>4. completed' = [completed EXCEPT ![c.node] = completed[c.node] \cup {c.desc}]
        BY <1>2 DEF Complete
  <2>5. Origin(c)
        BY <2>2, <2>3, <2>4 DEF Origin
  <2> QED
      BY <2>1, <2>5
<1>3. CASE CompleteAgain(n, d)
  <2> DEFINE c == [kind |-> "complete", desc |-> d, node |-> n]
  <2>1. c \in Commands /\ Execute(c)
        BY <1>3, CommandTypes DEF CompleteAgain
  <2>2. c.desc \in Mentioned
        BY <1>3 DEF CompleteAgain, Mentioned
  <2>3. used'["adds"] = used["adds"]
        BY <1>3, SpendKeepsAdds DEF CompleteAgain, Bounds
  <2>4. completed' = completed /\ d \in completed[n]
        BY <1>3 DEF CompleteAgain, schedulerVars
  <2>5. completed' = [completed EXCEPT ![c.node] = completed[c.node] \cup {c.desc}]
        BY <1>0, <2>4
  <2>6. Origin(c)
        BY <2>2, <2>3, <2>5 DEF Origin
  <2> QED
      BY <2>1, <2>6
<1>4. CASE Fail(n, d)
  <2> DEFINE c == [kind |-> "fail", desc |-> d, node |-> n]
  <2>1. c \in Commands /\ Execute(c)
        BY <1>4, CommandTypes DEF Fail
  <2>2. c.desc \in Mentioned
        BY <1>4 DEF Fail, Mentioned
  <2>3. used'["adds"] = used["adds"]
        BY <1>4, SpendKeepsAdds DEF Fail, Bounds
  <2>4. completed' = completed
        BY <1>4 DEF Fail, schedulerVars
  <2>5. Origin(c)
        BY <2>2, <2>3, <2>4 DEF Origin
  <2> QED
      BY <2>1, <2>5
<1>5. CASE CleanUp(n, d)
  <2> DEFINE c == [kind |-> "cleanup", desc |-> d]
  <2>1. c \in Commands /\ Execute(c)
        BY <1>5, CommandTypes DEF CleanUp
  <2>2. c.desc \in Mentioned
        BY <1>5 DEF CleanUp, Mentioned
  <2>3. used'["adds"] = used["adds"]
    <3>1. Spend("faults", MaxFaults) \/ UNCHANGED used
          BY <1>5 DEF CleanUp
    <3> QED
        BY <3>1, SpendKeepsAdds DEF Bounds
  <2>4. completed' = completed
        BY <1>5 DEF CleanUp, CleanedUp
  <2>5. Origin(c)
        BY <2>2, <2>3, <2>4 DEF Origin
  <2> QED
      BY <2>1, <2>5
<1> QED
    BY <1>1, <1>2, <1>3, <1>4, <1>5

LEMMA LogSteps ==
  ASSUME Types, [Next]_vars
  PROVE  \/ \E c \in Commands : Execute(c) /\ Origin(c)
         \/ AddsKept /\ \E n \in Nodes : Apply(n) \/ Persist(n) \/ Restart(n) \/ InstallSnapshot(n)
         \/ AddsKept /\ UNCHANGED <<logVars, clusters, verdicts, gone>>
<1> USE DEF Types
<1>1. ASSUME NEW i \in TaskIds, Add(i)
      PROVE  \E c \in Commands : Execute(c) /\ Origin(c)
  <2> DEFINE c == [kind |-> "add", desc |-> [id |-> i, version |-> used["adds"] + 1]]
  <2>1. used["adds"] < MaxAdds /\ Execute(c)
        BY <1>1 DEF Add, Spend
  <2>2. c \in Commands
        BY <2>1, AddsDescriptor
  <2>3. used'["adds"] = used["adds"] + 1
        BY <1>1, SpendKeepsAdds DEF Add, Bounds
  <2>4. completed' = completed
        BY <1>1 DEF Add, schedulerVars
  <2>5. Origin(c)
        BY <2>3, <2>4 DEF Origin
  <2> QED
      BY <2>1, <2>2, <2>5
<1>2. ASSUME NEW d \in Descriptors, Cancel(d)
      PROVE  \E c \in Commands : Execute(c) /\ Origin(c)
  <2>1. \E n : n \in Nodes
        BY LeaderIsNode
  <2> QED
      BY <1>2, <2>1, UserSteps
<1>3. ASSUME NEW n \in Nodes, NEW d \in Descriptors,
             \/ Complete(n, d) \/ CompleteAgain(n, d) \/ Fail(n, d)
             \/ CleanUp(n, d)
      PROVE  \E c \in Commands : Execute(c) /\ Origin(c)
      BY <1>3, UserSteps
<1>4. ASSUME NEW n \in Nodes, NEW d \in Descriptors, CleanUpFails(n, d)
      PROVE  AddsKept /\ UNCHANGED <<logVars, clusters, verdicts, gone>>
      BY <1>4, SpendKeepsAdds DEF CleanUpFails, CleanedUp, AddsKept, raftVars, logVars, Bounds
<1>5. ASSUME NEW n \in Nodes, Apply(n) \/ Persist(n) \/ InstallSnapshot(n)
      PROVE  AddsKept
      BY <1>5 DEF Apply, Persist, InstallSnapshot, AddsKept, schedulerVars
<1>6. ASSUME NEW n \in Nodes, Restart(n)
      PROVE  AddsKept
      BY <1>6, SpendKeepsAdds DEF Restart, AddsKept, Bounds
<1>7. ASSUME NEW n \in Nodes, Snapshot(n) \/ ChangeLeader(n)
      PROVE  AddsKept /\ UNCHANGED <<logVars, clusters, verdicts, gone>>
      BY <1>7, SpendKeepsAdds DEF Snapshot, ChangeLeader, AddsKept, logVars, schedulerVars, Bounds
<1>8. ASSUME NEW n \in Nodes, Start(n) \/ StartFails(n) \/ List(n)
      PROVE  AddsKept /\ UNCHANGED <<logVars, clusters, verdicts, gone>>
      BY <1>8, SpendKeepsAdds DEF Start, StartFails, List, AddsKept, raftVars, logVars, Bounds
<1>9. ASSUME NEW n \in Nodes, Tick(n)
      PROVE  AddsKept /\ UNCHANGED <<logVars, clusters, verdicts, gone>>
      BY <1>9 DEF Tick, TickWith, AddsKept, raftVars, logVars
<1>10. ASSUME NEW n \in Nodes, ProviderFails(n)
       PROVE  AddsKept /\ UNCHANGED <<logVars, clusters, verdicts, gone>>
       BY <1>10, SpendKeepsAdds DEF ProviderFails, TickWith, AddsKept, raftVars, logVars, Bounds
<1>11. ASSUME NEW m \in SUBSET Nodes, Reconfigure(m)
       PROVE  \E c \in Commands : Execute(c) /\ Origin(c)
  <2> DEFINE c == [kind |-> "conf", members |-> m]
  <2>1. c \in Commands /\ Execute(c)
        BY <1>11, CommandTypes DEF Reconfigure
  <2>2. used'["adds"] = used["adds"]
        BY <1>11, SpendKeepsAdds DEF Reconfigure, Bounds
  <2>3. completed' = completed
        BY <1>11 DEF Reconfigure, schedulerVars
  <2>4. Origin(c)
        BY <2>2, <2>3 DEF Origin
  <2> QED
      BY <2>1, <2>4
<1>12. CASE Tock
       BY <1>12 DEF Tock, AddsKept, logVars, schedulerVars
<1>13. CASE UNCHANGED vars
       BY <1>13 DEF vars, raftVars, schedulerVars, AddsKept, logVars
<1> QED
    BY <1>1, <1>2, <1>3, <1>4, <1>5, <1>6, <1>7, <1>8, <1>9, <1>10, <1>11, <1>12, <1>13 DEF Next

(* What the properties remember only grows. *)
LEMMA ApplyAtRemembers ==
  ASSUME Types, NEW n \in Nodes, NEW c \in Commands, ApplyAt(n, c)
  PROVE  /\ \A d \in Descriptors : clusters[d] \subseteq clusters'[d] /\ verdicts[d] \subseteq verdicts'[d]
         /\ gone \subseteq gone'
BY DEF ApplyAt

LEMMA HistoryGrows ==
  ASSUME Types, [Next]_vars
  PROVE  /\ \A d \in Descriptors : /\ clusters[d] \subseteq clusters'[d] /\ sizes[d] \subseteq sizes'[d]
                                  /\ verdicts[d] \subseteq verdicts'[d]
         /\ gone \subseteq gone'
         /\ \A n \in Nodes : completed[n] \subseteq completed'[n]
         /\ used["adds"] <= used'["adds"]
<1>0. used["adds"] \in Nat /\ completed \in [Nodes -> SUBSET Descriptors]
      BY DEF Types, BoundTypes, Bounds, SchedulerTypes
<1>1. ASSUME NEW c \in Commands, Execute(c), Origin(c)
      PROVE  /\ \A d \in Descriptors : clusters[d] \subseteq clusters'[d] /\ verdicts[d] \subseteq verdicts'[d]
             /\ gone \subseteq gone'
             /\ \A n \in Nodes : completed[n] \subseteq completed'[n]
             /\ used["adds"] <= used'["adds"]
  <2>1. leader \in Nodes /\ ApplyAt(leader, c)
        BY <1>1, LeaderIsNode DEF Execute, Types
  <2>2. \A n \in Nodes : completed[n] \subseteq completed'[n]
        BY <1>0, <1>1 DEF Origin
  <2>3. used["adds"] <= used'["adds"]
        BY <1>0, <1>1 DEF Origin
  <2> QED
      BY <2>1, <2>2, <2>3, ApplyAtRemembers
<1>2. ASSUME NEW n \in Nodes, Apply(n), AddsKept
      PROVE  /\ \A d \in Descriptors : clusters[d] \subseteq clusters'[d] /\ verdicts[d] \subseteq verdicts'[d]
             /\ gone \subseteq gone'
             /\ \A m \in Nodes : completed[m] \subseteq completed'[m]
             /\ used["adds"] <= used'["adds"]
  <2>1. todo[n] \in Seq(Commands) /\ todo[n] # <<>> /\ ApplyAt(n, Head(todo[n]))
        BY <1>2 DEF Apply, Types, LogTypes
  <2>2. Head(todo[n]) \in Commands
        BY <2>1, HeadTail
  <2> QED
      BY <1>0, <1>2, <2>1, <2>2, ApplyAtRemembers DEF AddsKept
<1>3. ASSUME NEW n \in Nodes, Persist(n) \/ Restart(n) \/ InstallSnapshot(n)
      PROVE  UNCHANGED <<clusters, verdicts, gone>>
      BY <1>3 DEF Persist, Restart, InstallSnapshot
<1>4. /\ \A d \in Descriptors : clusters[d] \subseteq clusters'[d] /\ verdicts[d] \subseteq verdicts'[d]
      /\ gone \subseteq gone'
      /\ \A n \in Nodes : completed[n] \subseteq completed'[n]
      /\ used["adds"] <= used'["adds"]
    BY <1>0, <1>1, <1>2, <1>3, LogSteps DEF AddsKept
<1>5. \A d \in Descriptors : sizes[d] \subseteq sizes'[d]
    BY <1>4 DEF sizes
<1> QED
    BY <1>4, <1>5

----------------------------------------------------------------------------
(* A finished task was executed. In every map of tasks, in use or in a       *)
(* snapshot, the nodes counted as finished have recorded the completion, and *)
(* as many of them as make up a cluster it was counted against if the task   *)
(* is finished; and no completion is in a log that no node has recorded.     *)

TaskBacked(i, t, done, counted) ==
  /\ \A m \in t.finishedNodes : DescOf(i, t) \in done[m]
  /\ t.status = "FINISHED" => Cardinality(t.finishedNodes) \in counted[DescOf(i, t)]
Backed(ts, done, counted) ==
  \A i \in TaskIds : ts[i] # NoTask => TaskBacked(i, ts[i], done, counted)
Recorded(s, done) ==
  \A k \in 1..Len(s) : s[k].kind = "complete" => s[k].desc \in done[s[k].node]

ExecutedAt(n) ==
  /\ Backed(tasks[n], completed, sizes)
  /\ Backed(snap[n].tasks, completed, sizes)
  /\ Recorded(todo[n], completed)
  /\ Recorded(since[n], completed)
Executed == \A n \in Nodes : ExecutedAt(n)

LEMMA BackedGrows ==
  ASSUME NEW ts \in TaskMaps, NEW done, NEW counted, NEW done2, NEW counted2, Backed(ts, done, counted),
         \A m \in Nodes : done[m] \subseteq done2[m],
         \A d \in Descriptors : counted[d] \subseteq counted2[d]
  PROVE  Backed(ts, done2, counted2)
<1> SUFFICES ASSUME NEW i \in TaskIds, ts[i] # NoTask
             PROVE  TaskBacked(i, ts[i], done2, counted2)
    BY DEF Backed
<1>1. ts[i] \in Tasks /\ ts[i].finishedNodes \subseteq Nodes /\ DescOf(i, ts[i]) \in Descriptors
      BY DEF TaskMaps, Tasks, DescOf, Descriptors
<1>2. TaskBacked(i, ts[i], done, counted)
      BY DEF Backed
<1> QED
    BY <1>1, <1>2 DEF TaskBacked

LEMMA RecordedGrows ==
  ASSUME NEW s \in Seq(Commands), NEW done, NEW done2, Recorded(s, done),
         \A m \in Nodes : done[m] \subseteq done2[m]
  PROVE  Recorded(s, done2)
<1> SUFFICES ASSUME NEW k \in 1..Len(s), s[k].kind = "complete"
             PROVE  s[k].desc \in done2[s[k].node]
    BY DEF Recorded
<1>1. s[k] \in Commands
      OBVIOUS
<1>2. s[k].node \in Nodes
      BY <1>1, CommandKinds
<1> QED
    BY <1>2 DEF Recorded

LEMMA BackedUpdate ==
  ASSUME NEW ts \in TaskMaps, NEW done, NEW counted, Backed(ts, done, counted),
         NEW j \in TaskIds, NEW t, t # NoTask => TaskBacked(j, t, done, counted)
  PROVE  Backed([ts EXCEPT ![j] = t], done, counted)
BY DEF Backed, TaskMaps

LEMMA BackedApplied ==
  ASSUME Types, NEW n \in Nodes, NEW c \in Commands, NEW done, NEW counted,
         Backed(tasks[n], done, counted),
         c.kind = "complete" => c.desc \in done[c.node] /\ Cardinality(conf[n]) \in counted[c.desc]
  PROVE  Backed(Applied(n, c), done, counted)
<1>1. tasks[n] \in TaskMaps
      BY DEF Types, LogTypes
<1>2. CASE c.kind = "add"
  <2> DEFINE t == [version |-> c.desc.version, status |-> "STARTED", finishedNodes |-> {}]
  <2>1. c.desc \in Descriptors /\ c.desc.id \in TaskIds
        BY <1>2, CommandKinds DEF Descriptors
  <2>2. TaskBacked(c.desc.id, t, done, counted)
        BY DEF TaskBacked
  <2>3. Applied(n, c) = tasks[n] \/ Applied(n, c) = [tasks[n] EXCEPT ![c.desc.id] = t]
        BY <1>2 DEF Applied, AddTask
  <2> QED
      BY <1>1, <2>1, <2>2, <2>3, BackedUpdate
<1>3. CASE c.kind = "complete"
  <2>1. c.desc \in Descriptors /\ c.desc.id \in TaskIds /\ c.node \in Nodes
        BY <1>3, CommandKinds DEF Descriptors
  <2>2. Applied(n, c) = RecordNodeCompletion(tasks[n], c.desc, c.node, Cardinality(conf[n]))
        BY <1>3 DEF Applied
  <2>3. CASE Find(tasks[n], c.desc) /\ tasks[n][c.desc.id].status = "STARTED"
    <3> DEFINE old == tasks[n][c.desc.id]
               t == Counted(old, c.node, Cardinality(conf[n]))
    <3>1. Applied(n, c) = [tasks[n] EXCEPT ![c.desc.id] = t]
          BY <1>1, <2>1, <2>2, <2>3, Completion
    <3>2. old # NoTask /\ old.version = c.desc.version
          BY <2>3 DEF Find
    <3>3. DescOf(c.desc.id, t) = c.desc /\ DescOf(c.desc.id, old) = c.desc
          BY <2>1, <3>2 DEF DescOf, Counted, Descriptors
    <3>4. TaskBacked(c.desc.id, old, done, counted)
          BY <2>1, <3>2 DEF Backed
    <3>5. \A m \in t.finishedNodes : c.desc \in done[m]
          BY <1>3, <3>3, <3>4 DEF TaskBacked, Counted
    <3>6. t.status = "FINISHED" => Cardinality(t.finishedNodes) \in counted[c.desc]
          BY <1>3, <2>3 DEF Counted
    <3>7. TaskBacked(c.desc.id, t, done, counted)
          BY <3>3, <3>5, <3>6 DEF TaskBacked
    <3> QED
        BY <1>1, <2>1, <3>1, <3>7, BackedUpdate
  <2>4. CASE ~(Find(tasks[n], c.desc) /\ tasks[n][c.desc.id].status = "STARTED")
        BY <2>2, <2>4 DEF RecordNodeCompletion
  <2> QED
      BY <2>3, <2>4
<1>4. ASSUME c.kind \in {"fail", "cancel"}
      PROVE  Backed(Applied(n, c), done, counted)
  <2>1. c.desc \in Descriptors /\ c.desc.id \in TaskIds
        BY <1>4, CommandKinds DEF Descriptors
  <2>2. PICK s \in {"FAILED", "CANCELLED"} : Applied(n, c) = EndTask(tasks[n], c.desc, s)
        BY <1>4 DEF Applied
  <2>3. CASE Find(tasks[n], c.desc) /\ tasks[n][c.desc.id].status = "STARTED"
    <3> DEFINE old == tasks[n][c.desc.id]
               t == WithStatus(old, s)
    <3>1. Applied(n, c) = [tasks[n] EXCEPT ![c.desc.id] = t]
          BY <1>1, <2>1, <2>2, <2>3, Ending DEF Statuses
    <3>2. old # NoTask
          BY <2>3 DEF Find
    <3>3. TaskBacked(c.desc.id, old, done, counted)
          BY <2>1, <3>2 DEF Backed
    <3>4. TaskBacked(c.desc.id, t, done, counted)
          BY <3>3 DEF TaskBacked, WithStatus, DescOf
    <3> QED
        BY <1>1, <2>1, <3>1, <3>4, BackedUpdate
  <2>4. CASE ~(Find(tasks[n], c.desc) /\ tasks[n][c.desc.id].status = "STARTED")
        BY <2>2, <2>4 DEF EndTask
  <2> QED
      BY <2>3, <2>4
<1>5. CASE c.kind = "cleanup"
  <2>1. c.desc.id \in TaskIds
        BY <1>5, CommandKinds DEF Descriptors
  <2>2. Applied(n, c) = tasks[n] \/ Applied(n, c) = [tasks[n] EXCEPT ![c.desc.id] = NoTask]
        BY <1>5 DEF Applied, CleanUpTask
  <2>3. CASE Applied(n, c) = tasks[n]
        BY <2>3
  <2>4. CASE Applied(n, c) = [tasks[n] EXCEPT ![c.desc.id] = NoTask]
    <3>1. NoTask # NoTask => TaskBacked(c.desc.id, NoTask, done, counted)
          OBVIOUS
    <3>2. Backed([tasks[n] EXCEPT ![c.desc.id] = NoTask], done, counted)
          BY <1>1, <2>1, <3>1, BackedUpdate
    <3> QED
        BY <2>4, <3>2
  <2> QED
      BY <2>2, <2>3, <2>4
<1>6. CASE c.kind = "conf"
      BY <1>6 DEF Applied
<1> QED
    BY <1>2, <1>3, <1>4, <1>5, <1>6, CommandKinds

LEMMA ExecutedInit == Init => Executed
<1> SUFFICES ASSUME Init, NEW n \in Nodes PROVE ExecutedAt(n)
    BY DEF Executed
<1>1. tasks[n] = [i \in TaskIds |-> NoTask] /\ snap[n].tasks = [i \in TaskIds |-> NoTask]
      BY DEF Init
<1>2. todo[n] = <<>> /\ since[n] = <<>>
      BY DEF Init
<1> QED
    BY <1>1, <1>2 DEF ExecutedAt, Backed, Recorded

(* The steps of the log, node by node. *)
LEMMA ApplyAtIs ==
  ASSUME Types, NEW n \in Nodes, NEW c \in Commands, ApplyAt(n, c)
  PROVE  /\ tasks'[n] = Applied(n, c) /\ since'[n] = Append(since[n], c)
         /\ ahead'[n] = IF ahead[n] = 0 THEN 0 ELSE ahead[n] - 1
         /\ \A m \in Nodes \ {n} : tasks'[m] = tasks[m] /\ since'[m] = since[m] /\ ahead'[m] = ahead[m]
         /\ c.kind = "complete" => /\ conf[n] \in clusters'[c.desc]
                                   /\ Cardinality(conf[n]) \in sizes'[c.desc]
<1>1. /\ tasks' = [tasks EXCEPT ![n] = Applied(n, c)]
      /\ since' = [since EXCEPT ![n] = Append(since[n], c)]
      /\ ahead' = [ahead EXCEPT ![n] = IF ahead[n] = 0 THEN 0 ELSE ahead[n] - 1]
      BY DEF ApplyAt
<1>2. c.kind = "complete" => c.desc \in Descriptors /\ conf[n] \in clusters'[c.desc]
      BY CommandKinds DEF ApplyAt
<1>3. c.kind = "complete" => Cardinality(conf[n]) \in sizes'[c.desc]
      BY <1>2 DEF sizes
<1> QED
    BY <1>1, <1>2, <1>3 DEF Types, LogTypes

LEMMA ExecuteIs ==
  ASSUME Types, NEW c \in Commands, Execute(c)
  PROVE  /\ leader \in Nodes /\ todo[leader] = <<>> /\ ApplyAt(leader, c)
         /\ todo'[leader] = <<>>
         /\ \A m \in Nodes \ {leader} : todo'[m] = Append(todo[m], c)
         /\ snap' = snap /\ stale' = stale
BY LeaderIsNode DEF Types, Execute

LEMMA ApplyIs ==
  ASSUME Types, NEW n \in Nodes, Apply(n)
  PROVE  /\ todo[n] \in Seq(Commands) /\ todo[n] # <<>> /\ Head(todo[n]) \in Commands
         /\ ApplyAt(n, Head(todo[n]))
         /\ todo'[n] = Tail(todo[n])
         /\ \A m \in Nodes \ {n} : todo'[m] = todo[m]
         /\ snap' = snap /\ stale' = stale
<1>1. todo[n] \in Seq(Commands) /\ todo[n] # <<>>
      BY DEF Types, LogTypes, Apply
<1>2. Head(todo[n]) \in Commands
      BY <1>1, HeadTail
<1> QED
    BY <1>1, <1>2 DEF Apply, Types, LogTypes

LEMMA RestartIs ==
  ASSUME Types, NEW n \in Nodes, Restart(n)
  PROVE  /\ tasks'[n] = snap[n].tasks /\ todo'[n] = since[n] \o todo[n] /\ since'[n] = <<>>
         /\ ahead'[n] = snap[n].ahead /\ stale'[n] = snap[n].stale /\ snap' = snap
         /\ \A m \in Nodes \ {n} : /\ tasks'[m] = tasks[m] /\ todo'[m] = todo[m] /\ since'[m] = since[m]
                                   /\ ahead'[m] = ahead[m] /\ stale'[m] = stale[m]
BY DEF Restart, Types, LogTypes

LEMMA InstallIs ==
  ASSUME Types, NEW n \in Nodes, InstallSnapshot(n)
  PROVE  /\ leader \in Nodes /\ n # leader
         /\ tasks'[n] = Restore(tasks[n], snap[leader].tasks)
         /\ todo'[n] = since[leader] \o todo[leader] /\ since'[n] = <<>>
         /\ ahead'[n] = snap[leader].ahead
         /\ stale'[n] = snap[leader].stale
                \cup ((Listing(tasks[n]) \cap Listing(tasks'[n])) \ Listing(snap[leader].tasks))
         /\ snap'[n] = snap[leader]
         /\ \A m \in Nodes \ {n} : /\ tasks'[m] = tasks[m] /\ todo'[m] = todo[m] /\ since'[m] = since[m]
                                   /\ ahead'[m] = ahead[m] /\ stale'[m] = stale[m] /\ snap'[m] = snap[m]
BY LeaderIsNode DEF InstallSnapshot, Types, LogTypes

LEMMA PersistIs ==
  ASSUME Types, NEW n \in Nodes, Persist(n)
  PROVE  \E p \in Nat :
           /\ p <= Len(since[n])
           /\ snap'[n] = [tasks |-> tasks[n], ahead |-> p + ahead[n], stale |-> stale[n]]
           /\ since'[n] = SubSeq(since[n], Len(since[n]) - p + 1, Len(since[n]))
           /\ UNCHANGED <<tasks, todo, ahead, stale>>
           /\ \A m \in Nodes \ {n} : since'[m] = since[m] /\ snap'[m] = snap[m]
<1> DEFINE p == persisting[n] - 1
<1>1. p \in Nat /\ p <= Len(since[n])
      BY DEF Persist, Types, Window, LogTypes, NotPersisting
<1>2. /\ snap' = [snap EXCEPT ![n] = [tasks |-> tasks[n], ahead |-> p + ahead[n], stale |-> stale[n]]]
      /\ since' = [since EXCEPT ![n] = SubSeq(since[n], Len(since[n]) - p + 1, Len(since[n]))]
      BY DEF Persist
<1>3. /\ snap'[n] = [tasks |-> tasks[n], ahead |-> p + ahead[n], stale |-> stale[n]]
      /\ since'[n] = SubSeq(since[n], Len(since[n]) - p + 1, Len(since[n]))
      /\ \A m \in Nodes \ {n} : since'[m] = since[m] /\ snap'[m] = snap[m]
      BY <1>2 DEF Types, LogTypes
<1>4. UNCHANGED <<tasks, todo, ahead, stale>>
      BY DEF Persist
<1> QED
    BY <1>1, <1>3, <1>4

LEMMA RecordedTogether ==
  ASSUME NEW s \in Seq(Commands), NEW t \in Seq(Commands), NEW done, Recorded(s, done), Recorded(t, done)
  PROVE  Recorded(s \o t, done)
<1> SUFFICES ASSUME NEW k \in 1..Len(s \o t), (s \o t)[k].kind = "complete"
             PROVE  (s \o t)[k].desc \in done[(s \o t)[k].node]
    BY DEF Recorded
<1>1. \/ k \in 1..Len(s) /\ (s \o t)[k] = s[k]
      \/ \E j \in 1..Len(t) : k = Len(s) + j /\ (s \o t)[k] = t[j]
      BY OneOfTwo
<1> QED
    BY <1>1 DEF Recorded

LEMMA ExecutedStep == Types /\ Executed /\ [Next]_vars => Executed'
<1> SUFFICES ASSUME Types, Executed, [Next]_vars, NEW m \in Nodes
             PROVE  ExecutedAt(m)'
    BY DEF Executed
<1>0. /\ \A n \in Nodes : ExecutedAt(n)
      /\ \A n \in Nodes : /\ tasks[n] \in TaskMaps /\ snap[n].tasks \in TaskMaps
                          /\ todo[n] \in Seq(Commands) /\ since[n] \in Seq(Commands)
      BY DEF Executed, Types, LogTypes, Snapshots
(* what was true of the old state is true of it with the history since *)
<1>1. \A n \in Nodes : /\ Backed(tasks[n], completed', sizes') /\ Backed(snap[n].tasks, completed', sizes')
                       /\ Recorded(todo[n], completed') /\ Recorded(since[n], completed')
      BY <1>0, HistoryGrows, BackedGrows, RecordedGrows DEF ExecutedAt
<1>2. ASSUME NEW c \in Commands, Execute(c), Origin(c)
      PROVE  ExecutedAt(m)'
  <2>1. c.kind = "complete" => c.desc \in completed'[c.node]
        BY <1>2, CommandKinds DEF Origin, Types, SchedulerTypes
  <2>2. leader \in Nodes /\ ApplyAt(leader, c) /\ snap' = snap
        BY <1>2, ExecuteIs
  <2>3. Backed(tasks'[m], completed', sizes')
        BY <1>1, <2>1, <2>2, ApplyAtIs, BackedApplied
  <2>4. Recorded(Append(since[m], c), completed') /\ Recorded(Append(todo[m], c), completed')
        BY <1>0, <1>1, <2>1, Appended DEF Recorded
  <2>5. Recorded(since'[m], completed')
    <3>1. since'[m] = Append(since[m], c) \/ since'[m] = since[m]
          BY <2>2, ApplyAtIs
    <3> QED
        BY <1>1, <2>4, <3>1
  <2>6. Recorded(todo'[m], completed')
    <3>1. CASE m = leader
          BY <1>2, <3>1, ExecuteIs DEF Recorded
    <3>2. CASE m # leader
          BY <1>2, <2>4, <3>2, ExecuteIs
    <3> QED
        BY <3>1, <3>2
  <2> QED
      BY <1>1, <2>2, <2>3, <2>5, <2>6 DEF ExecutedAt
<1>3. ASSUME NEW n \in Nodes, Apply(n)
      PROVE  ExecutedAt(m)'
  <2> DEFINE c == Head(todo[n])
  <2>1. /\ c \in Commands /\ ApplyAt(n, c) /\ todo[n] # <<>> /\ snap' = snap
        /\ todo'[n] = Tail(todo[n]) /\ \A l \in Nodes \ {n} : todo'[l] = todo[l]
        BY <1>3, ApplyIs
  <2>2. c.kind = "complete" => c.desc \in completed'[c.node]
        BY <1>0, <1>1, <2>1, HeadTail DEF Recorded
  <2>3. Backed(tasks'[m], completed', sizes')
        BY <1>1, <2>1, <2>2, ApplyAtIs, BackedApplied
  <2>4. Recorded(Append(since[n], c), completed')
        BY <1>0, <1>1, <2>1, <2>2, Appended DEF Recorded
  <2>5. Recorded(since'[m], completed')
    <3>1. (m = n /\ since'[m] = Append(since[n], c)) \/ since'[m] = since[m]
          BY <2>1, ApplyAtIs
    <3> QED
        BY <1>1, <2>4, <3>1
  <2>6. Recorded(Tail(todo[n]), completed')
    <3> SUFFICES ASSUME NEW k \in 1..Len(Tail(todo[n])), Tail(todo[n])[k].kind = "complete"
                 PROVE  Tail(todo[n])[k].desc \in completed'[Tail(todo[n])[k].node]
        BY DEF Recorded
    <3>1. Tail(todo[n])[k] = todo[n][k + 1] /\ k + 1 \in 1..Len(todo[n])
          BY <1>0, <2>1, HeadTail
    <3> QED
        BY <1>1, <3>1 DEF Recorded
  <2>7. Recorded(todo'[m], completed')
        BY <1>1, <2>1, <2>6
  <2> QED
      BY <1>1, <2>1, <2>3, <2>5, <2>7 DEF ExecutedAt
<1>4. ASSUME NEW l \in Nodes
      PROVE  Recorded(since[l] \o todo[l], completed')
      BY <1>0, <1>1, RecordedTogether
<1>5. ASSUME NEW n \in Nodes, Persist(n)
      PROVE  ExecutedAt(m)'
  <2>1. PICK p \in Nat :
           /\ p <= Len(since[n])
           /\ snap'[n] = [tasks |-> tasks[n], ahead |-> p + ahead[n], stale |-> stale[n]]
           /\ since'[n] = SubSeq(since[n], Len(since[n]) - p + 1, Len(since[n]))
           /\ UNCHANGED <<tasks, todo, ahead, stale>>
           /\ \A l \in Nodes \ {n} : since'[l] = since[l] /\ snap'[l] = snap[l]
        BY <1>5, PersistIs
  <2>2. Recorded(SubSeq(since[n], Len(since[n]) - p + 1, Len(since[n])), completed')
    <3> DEFINE s == SubSeq(since[n], Len(since[n]) - p + 1, Len(since[n]))
    <3> SUFFICES ASSUME NEW k \in 1..Len(s), s[k].kind = "complete"
                 PROVE  s[k].desc \in completed'[s[k].node]
        BY DEF Recorded
    <3>1. k \in 1..p /\ s[k] = since[n][Len(since[n]) - p + k]
          BY <1>0, <2>1, Suffix
    <3>2. Len(since[n]) - p + k \in 1..Len(since[n])
          BY <1>0, <2>1, <3>1
    <3> QED
        BY <1>1, <3>1, <3>2 DEF Recorded
  <2>3. Recorded(since'[m], completed') /\ Backed(snap'[m].tasks, completed', sizes')
    <3>1. CASE m = n
      <4>1. snap'[m].tasks = tasks[m]
            BY <2>1, <3>1
      <4>2. since'[m] = SubSeq(since[n], Len(since[n]) - p + 1, Len(since[n]))
            BY <2>1, <3>1
      <4> QED
          BY <1>1, <2>2, <4>1, <4>2
    <3>2. CASE m # n
          BY <1>1, <2>1, <3>2
    <3> QED
        BY <3>1, <3>2
  <2>4. Recorded(todo'[m], completed') /\ Backed(tasks'[m], completed', sizes')
        BY <1>1, <2>1
  <2> QED
      BY <2>3, <2>4 DEF ExecutedAt
<1>6. ASSUME NEW n \in Nodes, Restart(n)
      PROVE  ExecutedAt(m)'
  <2>1. CASE m = n
    <3>1. /\ tasks'[m] = snap[m].tasks /\ todo'[m] = since[m] \o todo[m] /\ since'[m] = <<>>
          /\ snap' = snap
          BY <1>6, <2>1, RestartIs
    <3>2. Recorded(<<>>, completed')
          BY DEF Recorded
    <3> QED
        BY <1>1, <1>4, <3>1, <3>2 DEF ExecutedAt
  <2>2. CASE m # n
    <3>1. /\ tasks'[m] = tasks[m] /\ todo'[m] = todo[m] /\ since'[m] = since[m]
          /\ snap'[m] = snap[m]
          BY <1>6, <2>2, RestartIs
    <3> QED
        BY <1>1, <3>1 DEF ExecutedAt
  <2> QED
      BY <2>1, <2>2
<1>7. ASSUME NEW n \in Nodes, InstallSnapshot(n)
      PROVE  ExecutedAt(m)'
  <2>1. CASE m = n
    <3>1. /\ leader \in Nodes /\ tasks'[m] = Restore(tasks[m], snap[leader].tasks)
          /\ todo'[m] = since[leader] \o todo[leader] /\ since'[m] = <<>> /\ snap'[m] = snap[leader]
          BY <1>7, <2>1, InstallIs
    <3>2. Recorded(<<>>, completed')
          BY DEF Recorded
    <3>3. Backed(Restore(tasks[m], snap[leader].tasks), completed', sizes')
          BY <1>1, <3>1 DEF Backed, Restore
    <3> QED
        BY <1>1, <1>4, <3>1, <3>2, <3>3 DEF ExecutedAt
  <2>2. CASE m # n
    <3>1. /\ tasks'[m] = tasks[m] /\ todo'[m] = todo[m] /\ since'[m] = since[m]
          /\ snap'[m] = snap[m]
          BY <1>7, <2>2, InstallIs
    <3> QED
        BY <1>1, <3>1 DEF ExecutedAt
  <2> QED
      BY <2>1, <2>2
<1>8. CASE UNCHANGED logVars
  <2>1. since'[m] = since[m]
        BY <1>8 DEF logVars
  <2> QED
      BY <1>1, <1>8, <2>1 DEF ExecutedAt, logVars
<1> QED
    BY <1>2, <1>3, <1>5, <1>6, <1>7, <1>8, LogSteps

(* Completions are counted with the configuration in force. What a node      *)
(* knows of the configuration, and the log that it applied since its         *)
(* snapshot and has still to apply, end with the latest one; so the leader,  *)
(* who has applied everything when it executes a command, counts against     *)
(* the members, and a member that completes is one of those.                 *)

HasConf(s) == \E k \in 1..Len(s) : s[k].kind = "conf"
EndsWith(s, cluster) ==
  \A k \in 1..Len(s) : s[k].kind = "conf" => \/ s[k].members = cluster
                                             \/ \E j \in 1..Len(s) : j > k /\ s[j].kind = "conf"
Knows(n) ==
  /\ EndsWith(todo[n], members)
  /\ HasConf(todo[n]) \/ (conf[n] = members /\ EndsWith(since[n], members))
ClusterKnown == \A n \in Nodes : Knows(n)

CountedAmong == \A n \in Nodes : \A d \in completed[n] : \E cluster \in clusters[d] : n \in cluster

LEMMA EndsEmpty == \A cluster : EndsWith(<<>>, cluster)
BY DEF EndsWith

LEMMA EndsAppended ==
  ASSUME NEW s \in Seq(Commands), NEW c \in Commands, NEW old, NEW new,
         IF c.kind = "conf" THEN c.members = new ELSE old = new /\ EndsWith(s, old)
  PROVE  EndsWith(Append(s, c), new)
<1> DEFINE t == Append(s, c)
<1>1. /\ Len(s) \in Nat /\ Len(t) = Len(s) + 1 /\ t[Len(s) + 1] = c
      /\ \A k \in 1..Len(s) : t[k] = s[k]
      BY Appended
<1> HIDE DEF t
<1> SUFFICES ASSUME NEW k \in 1..Len(t), t[k].kind = "conf"
             PROVE  t[k].members = new \/ \E j \in 1..Len(t) : j > k /\ t[j].kind = "conf"
    BY DEF EndsWith, t
<1>2. CASE c.kind = "conf"
  <2>1. CASE k = Len(s) + 1
        BY <1>1, <1>2, <2>1
  <2>2. CASE k # Len(s) + 1
    <3>1. Len(s) + 1 \in 1..Len(t) /\ Len(s) + 1 > k
          BY <1>1, <2>2
    <3> QED
        BY <1>1, <1>2, <3>1
  <2> QED
      BY <2>1, <2>2
<1>3. CASE c.kind # "conf"
  <2>1. k \in 1..Len(s) /\ s[k].kind = "conf"
        BY <1>1, <1>3
  <2>2. s[k].members = old \/ \E j \in 1..Len(s) : j > k /\ s[j].kind = "conf"
        BY <1>3, <2>1 DEF EndsWith
  <2>3. \A j \in 1..Len(s) : j \in 1..Len(t) /\ t[j] = s[j]
        BY <1>1
  <2> QED
      BY <1>3, <2>1, <2>2, <2>3
<1> QED
    BY <1>2, <1>3

LEMMA HasConfAppended ==
  ASSUME NEW s \in Seq(Commands), NEW c \in Commands
  PROVE  /\ HasConf(s) => HasConf(Append(s, c))
         /\ c.kind = "conf" => HasConf(Append(s, c))
<1>1. /\ Len(s) \in Nat /\ Len(Append(s, c)) = Len(s) + 1 /\ Append(s, c)[Len(s) + 1] = c
      /\ \A k \in 1..Len(s) : Append(s, c)[k] = s[k]
      BY Appended
<1> QED
    BY <1>1 DEF HasConf

LEMMA EndsTogether ==
  ASSUME NEW s \in Seq(Commands), NEW t \in Seq(Commands), NEW cluster,
         EndsWith(t, cluster), HasConf(t) \/ EndsWith(s, cluster)
  PROVE  EndsWith(s \o t, cluster) /\ (HasConf(t) => HasConf(s \o t))
<1> DEFINE u == s \o t
<1>1. /\ Len(s) \in Nat /\ Len(t) \in Nat /\ Len(u) = Len(s) + Len(t)
      /\ \A k \in 1..Len(s) : u[k] = s[k]
      /\ \A k \in 1..Len(t) : u[Len(s) + k] = t[k]
      BY Concatenated
<1>2. \A k \in 1..Len(u) : \/ k \in 1..Len(s) /\ u[k] = s[k]
                           \/ \E j \in 1..Len(t) : k = Len(s) + j /\ u[k] = t[j]
      BY OneOfTwo
<1> HIDE DEF u
<1>3. ASSUME NEW j \in 1..Len(t), t[j].kind = "conf"
      PROVE  Len(s) + j \in 1..Len(u) /\ u[Len(s) + j].kind = "conf" /\ \A k \in 1..Len(s) : Len(s) + j > k
      BY <1>1, <1>3
<1>4. HasConf(t) => HasConf(u)
      BY <1>3 DEF HasConf
<1>5. ASSUME NEW k \in 1..Len(u), u[k].kind = "conf"
      PROVE  u[k].members = cluster \/ \E j \in 1..Len(u) : j > k /\ u[j].kind = "conf"
  <2>1. CASE k \in 1..Len(s) /\ u[k] = s[k]
    <3>1. CASE HasConf(t)
          BY <1>3, <2>1, <3>1 DEF HasConf
    <3>2. CASE EndsWith(s, cluster)
      <4>1. \A j \in 1..Len(s) : j \in 1..Len(u) /\ u[j] = s[j]
            BY <1>1
      <4> QED
          BY <1>5, <2>1, <3>2, <4>1 DEF EndsWith
    <3> QED
        BY <3>1, <3>2
  <2>2. CASE \E j \in 1..Len(t) : k = Len(s) + j /\ u[k] = t[j]
    <3>1. PICK j \in 1..Len(t) : k = Len(s) + j /\ u[k] = t[j]
          BY <2>2
    <3>2. t[j].members = cluster \/ \E i \in 1..Len(t) : i > j /\ t[i].kind = "conf"
          BY <1>5, <3>1 DEF EndsWith
    <3>3. ASSUME NEW i \in 1..Len(t), i > j, t[i].kind = "conf"
          PROVE  Len(s) + i \in 1..Len(u) /\ Len(s) + i > k /\ u[Len(s) + i].kind = "conf"
          BY <1>1, <3>1, <3>3
    <3> QED
        BY <3>1, <3>2, <3>3
  <2> QED
      BY <1>2, <2>1, <2>2
<1> QED
    BY <1>4, <1>5 DEF EndsWith, u

LEMMA EndsSuffix ==
  ASSUME NEW s \in Seq(Commands), NEW p \in Nat, p <= Len(s), NEW cluster, EndsWith(s, cluster)
  PROVE  EndsWith(SubSeq(s, Len(s) - p + 1, Len(s)), cluster)
<1> DEFINE t == SubSeq(s, Len(s) - p + 1, Len(s))
<1>1. Len(s) \in Nat /\ Len(t) = p /\ \A k \in 1..p : t[k] = s[Len(s) - p + k]
      BY Suffix
<1> HIDE DEF t
<1> SUFFICES ASSUME NEW k \in 1..Len(t), t[k].kind = "conf"
             PROVE  t[k].members = cluster \/ \E j \in 1..Len(t) : j > k /\ t[j].kind = "conf"
    BY DEF EndsWith, t
<1> DEFINE i == Len(s) - p + k
<1>2. i \in 1..Len(s) /\ t[k] = s[i]
      BY <1>1
<1>3. s[i].members = cluster \/ \E j \in 1..Len(s) : j > i /\ s[j].kind = "conf"
      BY <1>2 DEF EndsWith
<1>4. ASSUME NEW j \in 1..Len(s), j > i, s[j].kind = "conf"
      PROVE  \E l \in 1..Len(t) : l > k /\ t[l].kind = "conf"
  <2>1. j - (Len(s) - p) \in 1..p /\ j - (Len(s) - p) > k /\ t[j - (Len(s) - p)] = s[j]
        BY <1>1, <1>4
  <2> QED
      BY <1>1, <1>4, <2>1
<1> QED
    BY <1>2, <1>3, <1>4

LEMMA EndsTail ==
  ASSUME NEW s \in Seq(Commands), s # <<>>, NEW cluster, EndsWith(s, cluster)
  PROVE  /\ EndsWith(Tail(s), cluster)
         /\ HasConf(s) => Head(s).kind = "conf" \/ HasConf(Tail(s))
         /\ Head(s).kind = "conf" => Head(s).members = cluster \/ HasConf(Tail(s))
<1>1. /\ Head(s) = s[1] /\ Len(s) \in Nat /\ Len(s) >= 1 /\ Len(Tail(s)) = Len(s) - 1
      /\ \A k \in 1..Len(Tail(s)) : Tail(s)[k] = s[k + 1]
      BY HeadTail
<1>2. ASSUME NEW j \in 1..Len(s), j > 1
      PROVE  j - 1 \in 1..Len(Tail(s)) /\ Tail(s)[j - 1] = s[j]
      BY <1>1, <1>2
<1>3. EndsWith(Tail(s), cluster)
  <2> SUFFICES ASSUME NEW k \in 1..Len(Tail(s)), Tail(s)[k].kind = "conf"
               PROVE  \/ Tail(s)[k].members = cluster
                      \/ \E j \in 1..Len(Tail(s)) : j > k /\ Tail(s)[j].kind = "conf"
      BY DEF EndsWith
  <2>1. k + 1 \in 1..Len(s) /\ Tail(s)[k] = s[k + 1]
        BY <1>1
  <2>2. s[k + 1].members = cluster \/ \E j \in 1..Len(s) : j > k + 1 /\ s[j].kind = "conf"
        BY <2>1 DEF EndsWith
  <2>3. ASSUME NEW j \in 1..Len(s), j > k + 1, s[j].kind = "conf"
        PROVE  \E l \in 1..Len(Tail(s)) : l > k /\ Tail(s)[l].kind = "conf"
    <3>1. j - 1 \in 1..Len(Tail(s)) /\ Tail(s)[j - 1] = s[j] /\ j - 1 > k
          BY <1>2, <2>3
    <3> QED
        BY <2>3, <3>1
  <2> QED
      BY <2>1, <2>2, <2>3
<1>4. ASSUME NEW j \in 1..Len(s), j > 1, s[j].kind = "conf"
      PROVE  HasConf(Tail(s))
      BY <1>2, <1>4 DEF HasConf
<1>5. HasConf(s) => Head(s).kind = "conf" \/ HasConf(Tail(s))
      BY <1>1, <1>4 DEF HasConf
<1>6. Head(s).kind = "conf" => Head(s).members = cluster \/ HasConf(Tail(s))
  <2>1. 1 \in 1..Len(s)
        BY <1>1
  <2> QED
      BY <1>1, <1>4, <2>1 DEF EndsWith
<1> QED
    BY <1>3, <1>5, <1>6

(* The steps, by what becomes of the configuration *)
LEMMA ClusterSteps ==
  ASSUME Types, [Next]_vars
  PROVE  \/ \E c \in Commands : /\ Execute(c) /\ c.kind # "conf" /\ UNCHANGED <<conf, members>>
                                /\ \A n \in Nodes : \A d \in completed'[n] \ completed[n] :
                                      n \in members /\ c.kind = "complete" /\ c.desc = d
         \/ \E m \in SUBSET Nodes : Reconfigure(m)
         \/ \E n \in Nodes : Apply(n) \/ Persist(n) \/ Restart(n) \/ InstallSnapshot(n)
         \/ UNCHANGED <<todo, since, conf, members, clusters, completed>>
<1> DEFINE Submits(c) == /\ Execute(c) /\ c.kind # "conf" /\ UNCHANGED <<conf, members>>
                         /\ \A n \in Nodes : \A d \in completed'[n] \ completed[n] :
                               n \in members /\ c.kind = "complete" /\ c.desc = d
<1>0. completed \in [Nodes -> SUBSET Descriptors] /\ leader \in Nodes
      BY LeaderIsNode DEF Types, SchedulerTypes
<1>1. ASSUME NEW i \in TaskIds, Add(i)
      PROVE  \E c \in Commands : Submits(c)
  <2> DEFINE c == [kind |-> "add", desc |-> [id |-> i, version |-> used["adds"] + 1]]
  <2>1. used["adds"] < MaxAdds /\ Execute(c)
        BY <1>1 DEF Add, Spend
  <2>2. c \in Commands
        BY <2>1, AddsDescriptor DEF Types
  <2> QED
      BY <1>1, <2>1, <2>2 DEF Add, schedulerVars
<1>2. ASSUME NEW d \in Descriptors, Cancel(d)
      PROVE  \E c \in Commands : Submits(c)
  <2> DEFINE c == [kind |-> "cancel", desc |-> d]
  <2>1. c \in Commands /\ Execute(c)
        BY <1>2, CommandTypes DEF Cancel
  <2> QED
      BY <1>2, <2>1 DEF Cancel, schedulerVars
<1>3. ASSUME NEW n \in Nodes, NEW d \in Descriptors, Complete(n, d)
      PROVE  \E c \in Commands : Submits(c)
  <2> DEFINE c == [kind |-> "complete", desc |-> d, node |-> n]
  <2>1. c \in Commands /\ Execute(c)
        BY <1>3, CommandTypes DEF Complete
  <2>2. n \in members /\ completed' = [completed EXCEPT ![n] = completed[n] \cup {d}]
        BY <1>3 DEF Complete
  <2>3. \A l \in Nodes : \A e \in completed'[l] \ completed[l] : l \in members /\ e = d
        BY <1>0, <2>2
  <2> QED
      BY <1>3, <2>1, <2>3 DEF Complete
<1>4. ASSUME NEW n \in Nodes, NEW d \in Descriptors, CompleteAgain(n, d)
      PROVE  \E c \in Commands : Submits(c)
  <2> DEFINE c == [kind |-> "complete", desc |-> d, node |-> n]
  <2>1. c \in Commands /\ Execute(c)
        BY <1>4, CommandTypes DEF CompleteAgain
  <2> QED
      BY <1>4, <2>1 DEF CompleteAgain, schedulerVars
<1>5. ASSUME NEW n \in Nodes, NEW d \in Descriptors, Fail(n, d)
      PROVE  \E c \in Commands : Submits(c)
  <2> DEFINE c == [kind |-> "fail", desc |-> d, node |-> n]
  <2>1. c \in Commands /\ Execute(c)
        BY <1>5, CommandTypes DEF Fail
  <2> QED
      BY <1>5, <2>1 DEF Fail, schedulerVars
<1>6. ASSUME NEW n \in Nodes, NEW d \in Descriptors, CleanUp(n, d)
      PROVE  \E c \in Commands : Submits(c)
  <2> DEFINE c == [kind |-> "cleanup", desc |-> d]
  <2>1. c \in Commands /\ Execute(c)
        BY <1>6, CommandTypes DEF CleanUp
  <2> QED
      BY <1>6, <2>1 DEF CleanUp, CleanedUp
<1>7. ASSUME NEW n \in Nodes, NEW d \in Descriptors, CleanUpFails(n, d)
      PROVE  UNCHANGED <<todo, since, conf, members, clusters, completed>>
      BY <1>7 DEF CleanUpFails, CleanedUp, raftVars
<1>8. ASSUME NEW n \in Nodes, Snapshot(n) \/ ChangeLeader(n)
      PROVE  UNCHANGED <<todo, since, conf, members, clusters, completed>>
      BY <1>8 DEF Snapshot, ChangeLeader, schedulerVars
<1>9. ASSUME NEW n \in Nodes, Start(n) \/ StartFails(n) \/ List(n) \/ Tick(n) \/ ProviderFails(n)
      PROVE  UNCHANGED <<todo, since, conf, members, clusters, completed>>
      BY <1>9 DEF Start, StartFails, List, Tick, ProviderFails, TickWith, raftVars
<1>10. CASE Tock
       BY <1>10 DEF Tock, schedulerVars
<1>11. CASE UNCHANGED vars
       BY <1>11 DEF vars, raftVars, schedulerVars
<1> QED
    BY <1>1, <1>2, <1>3, <1>4, <1>5, <1>6, <1>7, <1>8, <1>9, <1>10, <1>11 DEF Next

LEMMA ClusterKnownInit == Init => ClusterKnown /\ CountedAmong
BY DEF Init, ClusterKnown, Knows, EndsWith, CountedAmong

LEMMA ClusterKnownStep ==
  ASSUME Types, ClusterKnown, [Next]_vars, NEW m \in Nodes
  PROVE  Knows(m)'
<1>0. /\ \A n \in Nodes : Knows(n)
      /\ \A n \in Nodes : todo[n] \in Seq(Commands) /\ since[n] \in Seq(Commands)
      /\ leader \in Nodes /\ conf \in [Nodes -> SUBSET Nodes]
      BY LeaderIsNode DEF ClusterKnown, Types, LogTypes, ClusterTypes
<1>1. ASSUME NEW c \in Commands, Execute(c), c.kind # "conf", UNCHANGED <<conf, members>>
      PROVE  Knows(m)'
  <2>1. ApplyAt(leader, c) /\ todo[leader] = <<>>
        BY <1>1, ExecuteIs
  <2>2. CASE m = leader
    <3>1. todo'[m] = <<>> /\ since'[m] = Append(since[m], c)
          BY <1>1, <2>1, <2>2, ExecuteIs, ApplyAtIs
    <3>2. conf[m] = members /\ EndsWith(since[m], members)
          BY <1>0, <2>1, <2>2 DEF Knows, HasConf
    <3>3. EndsWith(Append(since[m], c), members)
          BY <1>0, <1>1, <3>2, EndsAppended
    <3> QED
        BY <1>1, <3>1, <3>2, <3>3 DEF Knows, EndsWith
  <2>3. CASE m # leader
    <3>1. todo'[m] = Append(todo[m], c) /\ since'[m] = since[m]
          BY <1>1, <2>1, <2>3, ExecuteIs, ApplyAtIs
    <3>2. EndsWith(Append(todo[m], c), members)
          BY <1>0, <1>1, EndsAppended DEF Knows
    <3>3. HasConf(todo[m]) => HasConf(Append(todo[m], c))
          BY <1>0, HasConfAppended
    <3> QED
        BY <1>0, <1>1, <3>1, <3>2, <3>3 DEF Knows
  <2> QED
      BY <2>2, <2>3
<1>2. ASSUME NEW cluster \in SUBSET Nodes, Reconfigure(cluster)
      PROVE  Knows(m)'
  <2> DEFINE c == [kind |-> "conf", members |-> cluster]
  <2>1. c \in Commands /\ Execute(c) /\ members' = cluster
        BY <1>2, CommandTypes DEF Reconfigure
  <2>2. PICK informed \in SUBSET Nodes :
           conf' = [n \in Nodes |-> IF n \in informed \cup {leader} THEN cluster ELSE conf[n]]
        BY <1>2 DEF Reconfigure
  <2>3. c.kind = "conf" /\ c.members = cluster
        OBVIOUS
  <2> HIDE DEF c
  <2>4. ApplyAt(leader, c)
        BY <2>1, ExecuteIs
  <2>5. CASE m = leader
    <3>1. todo'[m] = <<>> /\ since'[m] = Append(since[m], c)
          BY <2>1, <2>4, <2>5, ExecuteIs, ApplyAtIs
    <3>2. EndsWith(Append(since[m], c), cluster)
          BY <1>0, <2>1, <2>3, EndsAppended
    <3>3. conf'[m] = cluster
          BY <2>2, <2>5
    <3> QED
        BY <2>1, <3>1, <3>2, <3>3 DEF Knows, EndsWith
  <2>6. CASE m # leader
    <3>1. todo'[m] = Append(todo[m], c)
          BY <2>1, <2>6, ExecuteIs
    <3>2. EndsWith(Append(todo[m], c), cluster) /\ HasConf(Append(todo[m], c))
          BY <1>0, <2>1, <2>3, EndsAppended, HasConfAppended
    <3> QED
        BY <2>1, <3>1, <3>2 DEF Knows
  <2> QED
      BY <2>5, <2>6
<1>3. ASSUME NEW n \in Nodes, Apply(n)
      PROVE  Knows(m)'
  <2> DEFINE c == Head(todo[n])
  <2>1. /\ todo[n] # <<>> /\ c \in Commands /\ ApplyAt(n, c) /\ todo'[n] = Tail(todo[n])
        /\ \A l \in Nodes \ {n} : todo'[l] = todo[l]
        BY <1>3, ApplyIs
  <2>2. /\ members' = members
        /\ conf' = [conf EXCEPT ![n] = IF c.kind = "conf" /\ conf[n] # members THEN c.members ELSE conf[n]]
        BY <1>3 DEF Apply
  <2>3. CASE m = n
    <3>1. since'[n] = Append(since[n], c)
          BY <2>1, ApplyAtIs
    <3>2. /\ EndsWith(Tail(todo[n]), members)
          /\ HasConf(todo[n]) => c.kind = "conf" \/ HasConf(Tail(todo[n]))
          /\ c.kind = "conf" => c.members = members \/ HasConf(Tail(todo[n]))
          BY <1>0, <2>1, EndsTail DEF Knows
    <3>3. ASSUME ~HasConf(Tail(todo[n]))
          PROVE  conf'[n] = members /\ EndsWith(Append(since[n], c), members)
      <4>1. CASE c.kind = "conf"
        <5>1. c.members = members
              BY <3>2, <3>3, <4>1
        <5>2. EndsWith(Append(since[n], c), members)
              BY <1>0, <2>1, <4>1, <5>1, EndsAppended
        <5>3. conf'[n] = members
              BY <1>0, <2>2, <4>1, <5>1
        <5> QED
            BY <5>2, <5>3
      <4>2. CASE c.kind # "conf"
        <5>1. conf[n] = members /\ EndsWith(since[n], members)
              BY <1>0, <3>2, <3>3, <4>2 DEF Knows
        <5>2. EndsWith(Append(since[n], c), members)
              BY <1>0, <2>1, <4>2, <5>1, EndsAppended
        <5>3. conf'[n] = members
              BY <1>0, <2>2, <4>2, <5>1
        <5> QED
            BY <5>2, <5>3
      <4> QED
          BY <4>1, <4>2
    <3> QED
        BY <2>1, <2>2, <2>3, <3>1, <3>2, <3>3 DEF Knows
  <2>4. CASE m # n
    <3>1. todo'[m] = todo[m] /\ since'[m] = since[m] /\ conf'[m] = conf[m]
          BY <1>0, <2>1, <2>2, <2>4, ApplyAtIs
    <3> QED
        BY <1>0, <2>2, <3>1 DEF Knows
  <2> QED
      BY <2>3, <2>4
<1>4. ASSUME NEW n \in Nodes, Persist(n)
      PROVE  Knows(m)'
  <2>1. UNCHANGED <<todo, conf, members>>
        BY <1>4 DEF Persist
  <2>2. \/ since'[m] = since[m]
        \/ \E p \in Nat : p <= Len(since[m]) /\ since'[m] = SubSeq(since[m], Len(since[m]) - p + 1, Len(since[m]))
        BY <1>4, PersistIs
  <2>3. EndsWith(since[m], members) => EndsWith(since'[m], members)
        BY <1>0, <2>2, EndsSuffix
  <2> QED
      BY <1>0, <2>1, <2>3 DEF Knows
<1>5. ASSUME NEW n \in Nodes
      PROVE  /\ EndsWith(since[n] \o todo[n], members)
             /\ HasConf(todo[n]) => HasConf(since[n] \o todo[n])
      BY <1>0, EndsTogether DEF Knows
<1>6. ASSUME NEW n \in Nodes, Restart(n)
      PROVE  Knows(m)'
  <2>1. UNCHANGED <<conf, members>>
        BY <1>6 DEF Restart
  <2>2. CASE m = n
    <3>1. todo'[m] = since[m] \o todo[m] /\ since'[m] = <<>>
          BY <1>6, <2>2, RestartIs
    <3> QED
        BY <1>0, <1>5, <2>1, <3>1, EndsEmpty DEF Knows
  <2>3. CASE m # n
    <3>1. todo'[m] = todo[m] /\ since'[m] = since[m]
          BY <1>6, <2>3, RestartIs
    <3> QED
        BY <1>0, <2>1, <3>1 DEF Knows
  <2> QED
      BY <2>2, <2>3
<1>7. ASSUME NEW n \in Nodes, InstallSnapshot(n)
      PROVE  Knows(m)'
  <2>1. PICK known \in {conf[n], members} :
           /\ known = members \/ \E k \in DOMAIN todo'[n] : todo'[n][k].kind = "conf"
           /\ conf' = [conf EXCEPT ![n] = known]
        BY <1>7 DEF InstallSnapshot
  <2>2. members' = members
        BY <1>7 DEF InstallSnapshot
  <2>3. CASE m = n
    <3>1. todo'[m] = since[leader] \o todo[leader] /\ since'[m] = <<>>
          BY <1>7, <2>3, InstallIs
    <3>2. since[leader] \o todo[leader] \in Seq(Commands)
          BY <1>0
    <3>3. known = members \/ HasConf(since[leader] \o todo[leader])
      <4> DEFINE s == since[leader] \o todo[leader]
      <4>1. DOMAIN s = 1..Len(s)
            BY <3>2
      <4>2. known = members \/ \E k \in DOMAIN s : s[k].kind = "conf"
            BY <2>1, <2>3, <3>1
      <4> QED
          BY <4>1, <4>2 DEF HasConf
    <3>4. conf'[m] = known
          BY <1>0, <2>1, <2>3
    <3> QED
        BY <1>0, <1>5, <2>1, <2>2, <3>1, <3>3, <3>4, EndsEmpty DEF Knows
  <2>4. CASE m # n
    <3>1. todo'[m] = todo[m] /\ since'[m] = since[m] /\ conf'[m] = conf[m]
          BY <1>0, <1>7, <2>1, <2>4, InstallIs
    <3> QED
        BY <1>0, <2>2, <3>1 DEF Knows
  <2> QED
      BY <2>3, <2>4
<1>8. CASE UNCHANGED <<todo, since, conf, members>>
      BY <1>0, <1>8 DEF Knows
<1> QED
    BY <1>1, <1>2, <1>3, <1>4, <1>6, <1>7, <1>8, ClusterSteps

LEMMA CountedAmongStep ==
  ASSUME Types, ClusterKnown, CountedAmong, [Next]_vars
  PROVE  CountedAmong'
<1> SUFFICES ASSUME NEW n \in Nodes, NEW d \in completed'[n]
             PROVE  \E cluster \in clusters'[d] : n \in cluster
    BY DEF CountedAmong
<1>1. d \in Descriptors
      BY TypesStep DEF Types, SchedulerTypes
<1>2. CASE d \in completed[n]
  <2>1. PICK cluster \in clusters[d] : n \in cluster
        BY <1>2 DEF CountedAmong
  <2> QED
      BY <1>1, <2>1, HistoryGrows
<1>3. CASE d \notin completed[n]
  <2>1. PICK c \in Commands : /\ Execute(c) /\ UNCHANGED <<conf, members>>
                              /\ n \in members /\ c.kind = "complete" /\ c.desc = d
    <3>1. completed'[n] # completed[n]
          BY <1>3
    <3>2. ~(\E l \in Nodes : Apply(l) \/ Persist(l) \/ Restart(l) \/ InstallSnapshot(l))
          BY <3>1 DEF Apply, Persist, Restart, InstallSnapshot, schedulerVars
    <3>3. ~(\E m \in SUBSET Nodes : Reconfigure(m))
          BY <3>1 DEF Reconfigure, schedulerVars
    <3> QED
        BY <1>3, <3>1, <3>2, <3>3, ClusterSteps
  <2>2. leader \in Nodes /\ todo[leader] = <<>> /\ ApplyAt(leader, c)
        BY <2>1, ExecuteIs
  <2>3. conf[leader] = members
        BY <2>2 DEF ClusterKnown, Knows, HasConf
  <2>4. conf[leader] \in clusters'[d]
        BY <2>1, <2>2, ApplyAtIs
  <2> QED
      BY <2>1, <2>3, <2>4
<1> QED
    BY <1>2, <1>3

LEMMA ExecutedImplies == Types /\ Executed /\ CountedAmong => FinishedMeansExecuted
<1> SUFFICES ASSUME Types, Executed, CountedAmong, NEW n \in Nodes, NEW i \in TaskIds,
                    tasks[n][i] # NoTask, tasks[n][i].status = "FINISHED"
             PROVE  LET d == DescOf(i, tasks[n][i])
                        finished == tasks[n][i].finishedNodes
                    IN  /\ \A m \in finished : d \in completed[m]
                        /\ \E cluster \in clusters[d] :
                             /\ Cardinality(finished) = Cardinality(cluster)
                             /\ clusters[d] = {cluster} => finished = cluster
    BY DEF FinishedMeansExecuted
<1> DEFINE d == DescOf(i, tasks[n][i])
           finished == tasks[n][i].finishedNodes
<1>1. tasks[n] \in TaskMaps /\ Backed(tasks[n], completed, sizes)
      BY DEF Types, LogTypes, Executed, ExecutedAt
<1>2. finished \subseteq Nodes /\ d \in Descriptors
      BY <1>1 DEF TaskMaps, Tasks, DescOf, Descriptors
<1>3. TaskBacked(i, tasks[n][i], completed, sizes)
      BY <1>1 DEF Backed
<1>4. (\A m \in finished : d \in completed[m]) /\ Cardinality(finished) \in sizes[d]
      BY <1>3 DEF TaskBacked
<1>5. PICK cluster \in clusters[d] : Cardinality(finished) = Cardinality(cluster)
      BY <1>2, <1>4 DEF sizes
<1>6. ASSUME clusters[d] = {cluster}
      PROVE  finished = cluster
  <2>1. finished \subseteq cluster
        BY <1>2, <1>4, <1>6 DEF CountedAmong
  <2>2. IsFiniteSet(cluster)
    <3>1. cluster \subseteq Nodes
          BY <1>2 DEF Types, HistoryTypes
    <3> QED
        BY <3>1, TasksAssumption, FS_Subset
  <2> QED
      BY <1>5, <2>1, <2>2, FS_Subset
<1> QED
    BY <1>4, <1>5, <1>6

(* A task that is FINISHED was executed, this very run of it, by as many     *)
(* nodes as a cluster had that its completions were counted against, and by  *)
(* exactly the nodes of the cluster if that was always the same: whatever is *)
(* replayed, lost with a restart or restored from a snapshot.                *)
THEOREM FinishedTasksWereExecuted == TasksSpec => []FinishedMeansExecuted
<1>1. Init => Types /\ Executed /\ ClusterKnown /\ CountedAmong
      BY TypesInit, ExecutedInit, ClusterKnownInit
<1>2. Types /\ Executed /\ ClusterKnown /\ CountedAmong /\ [Next]_vars
        => (Types /\ Executed /\ ClusterKnown /\ CountedAmong)'
  <2> SUFFICES ASSUME Types, Executed, ClusterKnown, CountedAmong, [Next]_vars
               PROVE  (Types /\ Executed /\ ClusterKnown /\ CountedAmong)'
      OBVIOUS
  <2>1. ClusterKnown'
        BY ClusterKnownStep DEF ClusterKnown
  <2> QED
      BY <2>1, TypesStep, ExecutedStep, CountedAmongStep
<1> QED
    BY <1>1, <1>2, ExecutedImplies, PTL DEF TasksSpec

----------------------------------------------------------------------------
(* Where tasks and commands come from: whatever anyone lists, runs, keeps or *)
(* refers to was added by some node, and no version is later than the last   *)
(* submission.                                                               *)

Added == {d \in Descriptors : "added" \in verdicts[d]}
Submitted(s, adds) == \A k \in 1..Len(s) : s[k].kind # "conf" => s[k].desc.version <= adds

Held(n) == Listing(listed[n].tasks) \cup running[n] \cup completed[n] \cup toClean[n] \cup local[n]
SourcedAt(n) ==
  /\ Listing(tasks[n]) \subseteq Added
  /\ Listing(snap[n].tasks) \subseteq Added
  /\ Held(n) \subseteq Added
  /\ Submitted(todo[n], used["adds"])
  /\ Submitted(since[n], used["adds"])
Sourced ==
  /\ \A n \in Nodes : SourcedAt(n)
  /\ \A d \in Descriptors : verdicts[d] # {} => d.version <= used["adds"]

(* A command lists no task but the one it adds, and starts none.             *)
LEMMA AppliedKeeps ==
  ASSUME Types, NEW n \in Nodes, NEW c \in Commands, NEW d \in Descriptors,
         Find(Applied(n, c), d), ~(c.kind = "add" /\ c.desc = d)
  PROVE  /\ Find(tasks[n], d)
         /\ Applied(n, c)[d.id].status = "STARTED" => tasks[n][d.id].status = "STARTED"
         /\ tasks[n][d.id].finishedNodes \subseteq Applied(n, c)[d.id].finishedNodes
<1>1. tasks[n] \in TaskMaps /\ d.id \in TaskIds /\ tasks[n] \in [TaskIds -> Tasks \cup {NoTask}]
      BY DEF Types, LogTypes, Descriptors, TaskMaps
<1>2. CASE Applied(n, c) = tasks[n]
      BY <1>2
<1>3. CASE Applied(n, c) # tasks[n]
  <2>1. CASE c.kind = "add"
    <3>1. c.desc \in Descriptors /\ c.desc # d /\ c.desc.id \in TaskIds
          BY <2>1, CommandKinds DEF Descriptors
    <3>2. Applied(n, c) = [tasks[n] EXCEPT ![c.desc.id] =
                             [version |-> c.desc.version, status |-> "STARTED", finishedNodes |-> {}]]
          BY <1>3, <2>1 DEF Applied, AddTask
    <3>3. c.desc.id # d.id
      <4>1. SUFFICES ASSUME c.desc.id = d.id PROVE FALSE
            OBVIOUS
      <4>2. Applied(n, c)[d.id].version = c.desc.version
            BY <1>1, <3>2, <4>1
      <4>3. c.desc.version = d.version
            BY <4>2 DEF Find
      <4> QED
          BY <3>1, <4>1, <4>3 DEF Descriptors
    <3>4. Applied(n, c)[d.id] = tasks[n][d.id]
          BY <1>1, <3>1, <3>2, <3>3
    <3> QED
        BY <3>4 DEF Find
  <2>2. CASE c.kind = "complete"
    <3>1. c.desc \in Descriptors /\ c.desc.id \in TaskIds /\ c.node \in Nodes
          BY <2>2, CommandKinds DEF Descriptors
    <3>2. Find(tasks[n], c.desc) /\ tasks[n][c.desc.id].status = "STARTED"
          BY <1>3, <2>2 DEF Applied, RecordNodeCompletion
    <3>3. Applied(n, c) = [tasks[n] EXCEPT ![c.desc.id] =
                             Counted(tasks[n][c.desc.id], c.node, Cardinality(conf[n]))]
          BY <1>1, <2>2, <3>1, <3>2, Completion DEF Applied
    <3>4. CASE c.desc.id = d.id
      <4>1. Applied(n, c)[d.id] = Counted(tasks[n][d.id], c.node, Cardinality(conf[n]))
            BY <1>1, <3>3, <3>4
      <4> QED
          BY <3>2, <3>4, <4>1 DEF Counted, Find
    <3>5. CASE c.desc.id # d.id
      <4>1. Applied(n, c)[d.id] = tasks[n][d.id]
            BY <1>1, <3>1, <3>3, <3>5
      <4> QED
          BY <4>1 DEF Find
    <3> QED
        BY <3>4, <3>5
  <2>3. ASSUME c.kind \in {"fail", "cancel"}
        PROVE  /\ Find(tasks[n], d)
               /\ Applied(n, c)[d.id].status = "STARTED" => tasks[n][d.id].status = "STARTED"
               /\ tasks[n][d.id].finishedNodes \subseteq Applied(n, c)[d.id].finishedNodes
    <3>1. c.desc \in Descriptors /\ c.desc.id \in TaskIds
          BY <2>3, CommandKinds DEF Descriptors
    <3>2. PICK s \in {"FAILED", "CANCELLED"} : Applied(n, c) = EndTask(tasks[n], c.desc, s)
          BY <2>3 DEF Applied
    <3>3. Find(tasks[n], c.desc) /\ tasks[n][c.desc.id].status = "STARTED"
          BY <1>3, <3>2 DEF EndTask
    <3>4. Applied(n, c) = [tasks[n] EXCEPT ![c.desc.id] = WithStatus(tasks[n][c.desc.id], s)]
          BY <1>1, <3>1, <3>2, <3>3, Ending DEF Statuses
    <3>5. CASE c.desc.id = d.id
      <4>1. Applied(n, c)[d.id] = WithStatus(tasks[n][d.id], s)
            BY <1>1, <3>4, <3>5
      <4> QED
          BY <3>3, <3>5, <4>1 DEF WithStatus, Find
    <3>6. CASE c.desc.id # d.id
      <4>1. Applied(n, c)[d.id] = tasks[n][d.id]
            BY <1>1, <3>1, <3>4, <3>6
      <4> QED
          BY <4>1 DEF Find
    <3> QED
        BY <3>5, <3>6
  <2>4. CASE c.kind = "cleanup"
    <3>1. c.desc.id \in TaskIds
          BY <2>4, CommandKinds DEF Descriptors
    <3>2. Applied(n, c) = [tasks[n] EXCEPT ![c.desc.id] = NoTask]
          BY <1>3, <2>4 DEF Applied, CleanUpTask
    <3>3. c.desc.id # d.id
          BY <1>1, <3>2 DEF Find
    <3>4. Applied(n, c)[d.id] = tasks[n][d.id]
          BY <1>1, <3>1, <3>2, <3>3
    <3> QED
        BY <3>4 DEF Find
  <2>5. CASE c.kind = "conf"
        BY <1>3, <2>5 DEF Applied
  <2> QED
      BY <2>1, <2>2, <2>3, <2>4, <2>5, CommandKinds
<1> QED
    BY <1>2, <1>3

LEMMA AppliedLists ==
  ASSUME Types, NEW n \in Nodes, NEW c \in Commands, ApplyAt(n, c), Listing(tasks[n]) \subseteq Added
  PROVE  Listing(tasks'[n]) \subseteq Added'
<1>1. tasks[n] \in TaskMaps /\ Applied(n, c) \in TaskMaps /\ tasks'[n] = Applied(n, c)
      BY AppliedTypes, ApplyAtIs DEF Types, LogTypes
<1> SUFFICES ASSUME NEW d \in Descriptors, d \in Listing(Applied(n, c))
             PROVE  "added" \in verdicts'[d]
    BY <1>1, ListingTypes DEF Added
<1>2. CASE c.kind = "add" /\ c.desc = d
  <2>1. Verdict(tasks[n], d) = {"added"}
        BY <1>2 DEF Applied, Verdict
  <2> QED
      BY <1>2, <2>1 DEF ApplyAt
<1>3. CASE ~(c.kind = "add" /\ c.desc = d)
  <2>1. Find(tasks[n], d)
        BY <1>1, <1>3, Listed, AppliedKeeps
  <2>2. d \in Added
        BY <1>1, <2>1, Listed
  <2> QED
      BY <2>2, ApplyAtRemembers DEF Added
<1> QED
    BY <1>2, <1>3

LEMMA SourcedInit == Init => Sourced
<1> SUFFICES ASSUME Init PROVE Sourced
    OBVIOUS
<1>1. ASSUME NEW n \in Nodes PROVE SourcedAt(n)
  <2>1. Listing([i \in TaskIds |-> NoTask]) = {}
        BY DEF Listing, Present
  <2>2. Listing(tasks[n]) = {} /\ Listing(snap[n].tasks) = {} /\ Held(n) = {}
        BY <2>1 DEF Init, NoList, Held
  <2>3. Submitted(todo[n], used["adds"]) /\ Submitted(since[n], used["adds"])
        BY DEF Init, Submitted
  <2> QED
      BY <2>2, <2>3 DEF SourcedAt
<1>2. \A d \in Descriptors : verdicts[d] = {}
      BY DEF Init
<1> QED
    BY <1>1, <1>2 DEF Sourced

LEMMA HeldKept ==
  ASSUME UNCHANGED schedulerVars, NEW m
  PROVE  Held(m)' = Held(m)
BY DEF schedulerVars, Held

(* A scheduler holds what it held, or what the leader lists. *)
LEMMA HeldStep ==
  ASSUME Types, [Next]_vars, NEW m \in Nodes
  PROVE  Held(m)' \subseteq Held(m) \cup Listing(tasks[leader])
<1> USE DEF Types
<1>0. /\ leader \in Nodes /\ tasks[leader] \in TaskMaps /\ listed[m].tasks \in TaskMaps
      /\ Listing(NoList.tasks) = {}
      BY LeaderIsNode DEF LogTypes, SchedulerTypes, Lists, NoList, Listing, Present
<1>1. ASSUME NEW i \in TaskIds, Add(i) PROVE Held(m)' = Held(m)
      BY <1>1, HeldKept DEF Add
<1>2. ASSUME NEW d \in Descriptors, Cancel(d) PROVE Held(m)' = Held(m)
      BY <1>2, HeldKept DEF Cancel
<1>3. ASSUME NEW n \in Nodes, NEW d \in Descriptors, Complete(n, d) PROVE Held(m)' \subseteq Held(m)
  <2>1. /\ completed' = [completed EXCEPT ![n] = completed[n] \cup {d}] /\ d \in running[n]
        /\ UNCHANGED <<phase, listed, toClean, running, local>>
        BY <1>3 DEF Complete
  <2>2. completed'[m] \subseteq completed[m] \cup running[m]
        BY <2>1 DEF SchedulerTypes
  <2> QED
      BY <2>1, <2>2 DEF Held
<1>4. ASSUME NEW n \in Nodes, NEW d \in Descriptors, CompleteAgain(n, d) \/ Fail(n, d) PROVE Held(m)' = Held(m)
      BY <1>4, HeldKept DEF CompleteAgain, Fail
<1>5. ASSUME NEW n \in Nodes, NEW d \in Descriptors, CleanUp(n, d) \/ CleanUpFails(n, d)
      PROVE  Held(m)' \subseteq Held(m)
  <2>1. CleanedUp(n, d)
        BY <1>5 DEF CleanUp, CleanUpFails
  <2>2. toClean'[m] \subseteq toClean[m] /\ UNCHANGED <<listed, running, local, completed>>
        BY <2>1 DEF CleanedUp, SchedulerTypes
  <2> QED
      BY <2>2 DEF Held
<1>6. ASSUME NEW n \in Nodes,
             Apply(n) \/ Snapshot(n) \/ Persist(n) \/ InstallSnapshot(n) \/ ChangeLeader(n)
      PROVE  Held(m)' = Held(m)
      BY <1>6, HeldKept DEF Apply, Snapshot, Persist, InstallSnapshot, ChangeLeader
<1>7. ASSUME NEW n \in Nodes, Restart(n) PROVE Held(m)' \subseteq Held(m)
  <2>1. /\ listed' = [listed EXCEPT ![n] = NoList] /\ toClean' = [toClean EXCEPT ![n] = {}]
        /\ running' = [running EXCEPT ![n] = {}] /\ UNCHANGED <<local, completed>>
        BY <1>7 DEF Restart
  <2>2. Listing(listed'[m].tasks) \subseteq Listing(listed[m].tasks)
        BY <1>0, <2>1 DEF SchedulerTypes
  <2>3. toClean'[m] \subseteq toClean[m] /\ running'[m] \subseteq running[m]
        BY <2>1 DEF SchedulerTypes
  <2> QED
      BY <2>1, <2>2, <2>3 DEF Held
<1>8. ASSUME NEW n \in Nodes, Start(n) \/ StartFails(n)
      PROVE  Held(m)' \subseteq Held(m) \cup Listing(tasks[leader])
  <2>1. filterStartedTasks(n, tasks[leader]) \subseteq Listing(tasks[leader])
        BY <1>0, StartedAreListed
  <2>2. /\ running'[m] \subseteq running[m] \cup Listing(tasks[leader])
        /\ local'[m] \subseteq local[m] \cup Listing(tasks[leader])
    <3>1. PICK started \in SUBSET filterStartedTasks(n, tasks[leader]), kept \in SUBSET local[n] :
            /\ running' = [running EXCEPT ![n] = started]
            /\ local' = [local EXCEPT ![n] = started \cup kept]
          BY <1>8, StartRunsAndKeeps
    <3> QED
        BY <2>1, <3>1 DEF SchedulerTypes
  <2>3. UNCHANGED <<listed, toClean, completed>>
        BY <1>8 DEF Start, StartFails
  <2> QED
      BY <2>2, <2>3 DEF Held
<1>9. ASSUME NEW n \in Nodes, List(n)
      PROVE  Held(m)' \subseteq Held(m) \cup Listing(tasks[leader])
  <2>1. /\ listed' = [listed EXCEPT ![n] = [tasks |-> tasks[leader], lagging |-> Lagging, stale |-> stale[leader]]]
        /\ UNCHANGED <<toClean, running, local, completed>>
        BY <1>9 DEF List
  <2>2. Listing(listed'[m].tasks) \subseteq Listing(listed[m].tasks) \cup Listing(tasks[leader])
        BY <2>1 DEF SchedulerTypes
  <2> QED
      BY <2>1, <2>2 DEF Held
<1>10. ASSUME NEW n \in Nodes, NEW launched \in SUBSET ToLaunch(n), NEW spared \in SUBSET local[n],
              TickWith(n, launched, spared)
       PROVE  Held(m)' \subseteq Held(m)
  <2>0. listed[n].tasks \in TaskMaps
        BY DEF SchedulerTypes, Lists
  <2>1. /\ launched \subseteq Listing(listed[n].tasks)
        /\ Cleanable(listed[n].tasks) \subseteq Listing(listed[n].tasks)
        BY <2>0, StartedAreListed DEF ToLaunch
  <2>2. /\ running'[m] \subseteq running[m] \cup Listing(listed[m].tasks)
        /\ local'[m] \subseteq local[m] \cup Listing(listed[m].tasks)
        /\ toClean'[m] \subseteq toClean[m] \cup Listing(listed[m].tasks)
        BY <1>10, <2>1 DEF TickWith, Handles, LocalTasks, SchedulerTypes
  <2>3. listed' = [listed EXCEPT ![n] = NoList] /\ completed' = completed
        BY <1>10 DEF TickWith
  <2>4. Listing(listed'[m].tasks) \subseteq Listing(listed[m].tasks)
        BY <1>0, <2>3 DEF SchedulerTypes
  <2> QED
      BY <2>2, <2>3, <2>4 DEF Held
<1>11. ASSUME NEW n \in Nodes, Tick(n) \/ ProviderFails(n)
       PROVE  Held(m)' \subseteq Held(m)
  <2>1. \E launched \in SUBSET ToLaunch(n), spared \in SUBSET local[n] : TickWith(n, launched, spared)
        BY <1>11 DEF Tick, ProviderFails
  <2> QED
      BY <2>1, <1>10
<1>12. ASSUME NEW a \in SUBSET Nodes, Reconfigure(a) PROVE Held(m)' = Held(m)
       BY <1>12, HeldKept DEF Reconfigure
<1>13. CASE Tock
       BY <1>13, HeldKept DEF Tock
<1>14. CASE UNCHANGED vars
       BY <1>14, HeldKept DEF vars
<1> QED
    BY <1>1, <1>2, <1>3, <1>4, <1>5, <1>6, <1>7, <1>8, <1>9, <1>11, <1>12, <1>13, <1>14 DEF Next

LEMMA SubmittedTogether ==
  ASSUME NEW s \in Seq(Commands), NEW t \in Seq(Commands), NEW adds, Submitted(s, adds), Submitted(t, adds)
  PROVE  Submitted(s \o t, adds)
<1>1. \A k \in 1..Len(s \o t) : \/ k \in 1..Len(s) /\ (s \o t)[k] = s[k]
                                \/ \E j \in 1..Len(t) : (s \o t)[k] = t[j]
  <2>1. ASSUME NEW k \in 1..Len(s \o t)
        PROVE  \/ k \in 1..Len(s) /\ (s \o t)[k] = s[k]
               \/ \E j \in 1..Len(t) : k = Len(s) + j /\ (s \o t)[k] = t[j]
        BY ONLY s \in Seq(Commands), t \in Seq(Commands), k \in 1..Len(s \o t), OneOfTwo
  <2> QED
      BY <2>1
<1> SUFFICES ASSUME NEW k \in 1..Len(s \o t), (s \o t)[k].kind # "conf"
             PROVE  (s \o t)[k].desc.version <= adds
    BY DEF Submitted
<1> QED
    BY <1>1 DEF Submitted

LEMMA SubmittedAppended ==
  ASSUME NEW s \in Seq(Commands), NEW c \in Commands, NEW adds, Submitted(s, adds),
         c.kind # "conf" => c.desc.version <= adds
  PROVE  Submitted(Append(s, c), adds)
<1> SUFFICES ASSUME NEW k \in 1..Len(Append(s, c)), Append(s, c)[k].kind # "conf"
             PROVE  Append(s, c)[k].desc.version <= adds
    BY DEF Submitted
<1>1. /\ Len(s) \in Nat /\ k \in 1..(Len(s) + 1)
      /\ Append(s, c)[Len(s) + 1] = c
      /\ \A i \in 1..Len(s) : Append(s, c)[i] = s[i]
      BY Appended
<1>2. CASE k = Len(s) + 1
      BY <1>1, <1>2
<1>3. CASE k \in 1..Len(s)
      BY <1>1, <1>3 DEF Submitted
<1> QED
    BY <1>1, <1>2, <1>3

LEMMA SubmittedGrows ==
  ASSUME NEW s \in Seq(Commands), NEW a \in Nat, NEW b \in Nat, a <= b, Submitted(s, a)
  PROVE  Submitted(s, b)
<1> SUFFICES ASSUME NEW k \in 1..Len(s), s[k].kind # "conf"
             PROVE  s[k].desc.version <= b
    BY DEF Submitted
<1>1. s[k] \in Commands
      OBVIOUS
<1>2. s[k].desc.version \in Nat
      BY <1>1, CommandKinds DEF Descriptors, Versions
<1>3. s[k].desc.version <= a
      BY DEF Submitted
<1> QED
    BY <1>2, <1>3

LEMMA SourcedStep == Types /\ Sourced /\ [Next]_vars => Sourced'
<1> SUFFICES ASSUME Types, Sourced, [Next]_vars PROVE Sourced'
    OBVIOUS
<1>0. /\ \A n \in Nodes : SourcedAt(n)
      /\ \A n \in Nodes : /\ tasks[n] \in TaskMaps /\ snap[n].tasks \in TaskMaps
                          /\ todo[n] \in Seq(Commands) /\ since[n] \in Seq(Commands)
      /\ used["adds"] \in Nat /\ used'["adds"] \in Nat /\ used["adds"] <= used'["adds"]
      /\ leader \in Nodes
      BY LeaderIsNode, TypesStep, HistoryGrows
         DEF Sourced, Types, LogTypes, Snapshots, BoundTypes, Bounds
<1>1. Added \subseteq Added'
      BY HistoryGrows DEF Added
<1>2. \A n \in Nodes : Held(n)' \subseteq Added'
      BY <1>0, <1>1, HeldStep DEF SourcedAt
<1>3. \A n \in Nodes : Submitted(todo[n], used'["adds"]) /\ Submitted(since[n], used'["adds"])
      BY <1>0, SubmittedGrows DEF SourcedAt
<1>4. \A d \in Added : d \in Descriptors /\ d.version <= used["adds"]
      BY DEF Sourced, Added
<1>5. ASSUME NEW c \in Commands, Execute(c), Origin(c)
      PROVE  Sourced'
  <2>1. c.kind # "conf" => c.desc.version <= used'["adds"]
    <3>1. CASE c.kind = "add"
          BY <1>0, <1>5, <3>1 DEF Origin
    <3>2. CASE c.kind \notin {"add", "conf"}
      <4>1. Mentioned \subseteq Added
            BY <1>0 DEF SourcedAt, Mentioned, Held
      <4> QED
          BY <1>4, <1>5, <3>2, <4>1 DEF Origin
    <3> QED
        BY <3>1, <3>2
  <2>2. ApplyAt(leader, c) /\ snap' = snap
        BY <1>5, ExecuteIs
  <2>3. ASSUME NEW n \in Nodes PROVE SourcedAt(n)'
    <3>1. Listing(tasks'[n]) \subseteq Added'
      <4>1. CASE n = leader
            BY <1>0, <2>2, <4>1, AppliedLists DEF SourcedAt
      <4>2. CASE n # leader
            BY <1>0, <1>1, <2>2, <4>2, ApplyAtIs DEF SourcedAt
      <4> QED
          BY <4>1, <4>2
    <3>2. Submitted(Append(todo[n], c), used'["adds"]) /\ Submitted(Append(since[n], c), used'["adds"])
          BY <1>0, <1>3, <1>5, <2>1, SubmittedAppended
    <3>3. Submitted(todo'[n], used'["adds"])
      <4>1. CASE n = leader
            BY <1>5, <4>1, ExecuteIs DEF Submitted
      <4>2. CASE n # leader
            BY <1>5, <3>2, <4>2, ExecuteIs
      <4> QED
          BY <4>1, <4>2
    <3>4. Submitted(since'[n], used'["adds"])
          BY <1>0, <1>3, <2>2, <3>2, ApplyAtIs
    <3>5. Listing(snap'[n].tasks) \subseteq Added'
          BY <1>0, <1>1, <2>2 DEF SourcedAt
    <3> QED
        BY <1>2, <3>1, <3>3, <3>4, <3>5 DEF SourcedAt
  <2>4. ASSUME NEW d \in Descriptors, verdicts'[d] # {} PROVE d.version <= used'["adds"]
    <3>1. CASE c.kind = "add" /\ c.desc = d
          BY <2>1, <3>1
    <3>2. CASE ~(c.kind = "add" /\ c.desc = d)
      <4>1. verdicts[d] # {}
            BY <2>2, <2>4, <3>2 DEF ApplyAt
      <4>2. d.version <= used["adds"] /\ d.version \in Nat
            BY <4>1 DEF Sourced, Descriptors, Versions
      <4> QED
          BY <1>0, <4>2
    <3> QED
        BY <3>1, <3>2
  <2> QED
      BY <2>3, <2>4 DEF Sourced
<1>6. ASSUME NEW m \in Nodes, Apply(m), AddsKept
      PROVE  Sourced'
  <2> DEFINE c == Head(todo[m])
  <2>1. /\ c \in Commands /\ ApplyAt(m, c) /\ todo[m] # <<>> /\ snap' = snap
        /\ todo'[m] = Tail(todo[m]) /\ \A l \in Nodes \ {m} : todo'[l] = todo[l]
        BY <1>6, ApplyIs
  <2>2. c.kind # "conf" => c.desc.version <= used'["adds"]
        BY <1>0, <1>3, <2>1, HeadTail DEF Submitted
  <2>3. ASSUME NEW n \in Nodes PROVE SourcedAt(n)'
    <3>1. Listing(tasks'[n]) \subseteq Added'
      <4>1. CASE n = m
            BY <1>0, <2>1, <4>1, AppliedLists DEF SourcedAt
      <4>2. CASE n # m
            BY <1>0, <1>1, <2>1, <4>2, ApplyAtIs DEF SourcedAt
      <4> QED
          BY <4>1, <4>2
    <3>2. Submitted(Append(since[n], c), used'["adds"])
          BY <1>0, <1>3, <2>1, <2>2, SubmittedAppended
    <3>3. Submitted(Tail(todo[m]), used'["adds"])
      <4> SUFFICES ASSUME NEW k \in 1..Len(Tail(todo[m])), Tail(todo[m])[k].kind # "conf"
                   PROVE  Tail(todo[m])[k].desc.version <= used'["adds"]
          BY DEF Submitted
      <4>1. Tail(todo[m])[k] = todo[m][k + 1] /\ k + 1 \in 1..Len(todo[m])
            BY <1>0, <2>1, HeadTail
      <4> QED
          BY <1>3, <4>1 DEF Submitted
    <3>4. Submitted(todo'[n], used'["adds"])
          BY <1>3, <2>1, <3>3
    <3>5. Submitted(since'[n], used'["adds"])
          BY <1>3, <2>1, <3>2, ApplyAtIs
    <3>6. Listing(snap'[n].tasks) \subseteq Added'
          BY <1>0, <1>1, <2>1 DEF SourcedAt
    <3> QED
        BY <1>2, <3>1, <3>4, <3>5, <3>6 DEF SourcedAt
  <2>4. ASSUME NEW d \in Descriptors, verdicts'[d] # {} PROVE d.version <= used'["adds"]
    <3>1. CASE c.kind = "add" /\ c.desc = d
          BY <2>2, <3>1
    <3>2. CASE ~(c.kind = "add" /\ c.desc = d)
      <4>1. verdicts[d] # {}
            BY <2>1, <2>4, <3>2 DEF ApplyAt
      <4>2. d.version <= used["adds"] /\ d.version \in Nat
            BY <4>1 DEF Sourced, Descriptors, Versions
      <4> QED
          BY <1>0, <4>2
    <3> QED
        BY <3>1, <3>2
  <2> QED
      BY <2>3, <2>4 DEF Sourced
<1>7. ASSUME UNCHANGED verdicts, used'["adds"] = used["adds"],
             \A n \in Nodes : /\ Listing(tasks'[n]) \subseteq Added /\ Listing(snap'[n].tasks) \subseteq Added
                              /\ Submitted(todo'[n], used["adds"]) /\ Submitted(since'[n], used["adds"])
      PROVE  Sourced'
  <2>1. ASSUME NEW n \in Nodes PROVE SourcedAt(n)'
        BY <1>1, <1>2, <1>7 DEF SourcedAt
  <2>2. \A d \in Descriptors : verdicts'[d] # {} => d.version <= used'["adds"]
        BY <1>7 DEF Sourced
  <2> QED
      BY <2>1, <2>2 DEF Sourced
<1>8. \A n \in Nodes : Submitted(since[n] \o todo[n], used["adds"])
      BY <1>0, SubmittedTogether DEF SourcedAt
<1>9. Submitted(<<>>, used["adds"])
      BY DEF Submitted
<1>10. ASSUME NEW m \in Nodes, Persist(m), AddsKept
       PROVE  Sourced'
  <2>1. PICK p \in Nat :
           /\ p <= Len(since[m])
           /\ snap'[m] = [tasks |-> tasks[m], ahead |-> p + ahead[m], stale |-> stale[m]]
           /\ since'[m] = SubSeq(since[m], Len(since[m]) - p + 1, Len(since[m]))
           /\ UNCHANGED <<tasks, todo, ahead, stale>>
           /\ \A l \in Nodes \ {m} : since'[l] = since[l] /\ snap'[l] = snap[l]
        BY <1>10, PersistIs
  <2>2. Submitted(SubSeq(since[m], Len(since[m]) - p + 1, Len(since[m])), used["adds"])
    <3> DEFINE s == SubSeq(since[m], Len(since[m]) - p + 1, Len(since[m]))
    <3> SUFFICES ASSUME NEW k \in 1..Len(s), s[k].kind # "conf"
                 PROVE  s[k].desc.version <= used["adds"]
        BY DEF Submitted
    <3>1. k \in 1..p /\ s[k] = since[m][Len(since[m]) - p + k]
          BY <1>0, <2>1, Suffix
    <3>2. Len(since[m]) - p + k \in 1..Len(since[m])
          BY <1>0, <2>1, <3>1
    <3> QED
        BY <1>0, <3>1, <3>2 DEF SourcedAt, Submitted
  <2>3. ASSUME NEW n \in Nodes
        PROVE  /\ Listing(tasks'[n]) \subseteq Added /\ Listing(snap'[n].tasks) \subseteq Added
               /\ Submitted(todo'[n], used["adds"]) /\ Submitted(since'[n], used["adds"])
    <3>1. Listing(tasks'[n]) \subseteq Added /\ Submitted(todo'[n], used["adds"])
          BY <1>0, <2>1 DEF SourcedAt
    <3>2. CASE n = m
      <4>1. snap'[n].tasks = tasks[n]
            BY <2>1, <3>2
      <4>2. since'[n] = SubSeq(since[m], Len(since[m]) - p + 1, Len(since[m]))
            BY <2>1, <3>2
      <4> QED
          BY <1>0, <2>2, <3>1, <4>1, <4>2 DEF SourcedAt
    <3>3. CASE n # m
          BY <1>0, <2>1, <3>1, <3>3 DEF SourcedAt
    <3> QED
        BY <3>2, <3>3
  <2>4. UNCHANGED verdicts /\ used'["adds"] = used["adds"]
        BY <1>10 DEF Persist, AddsKept
  <2> QED
      BY <1>7, <2>3, <2>4
<1>11. ASSUME NEW m \in Nodes, Restart(m), AddsKept
       PROVE  Sourced'
  <2>1. ASSUME NEW n \in Nodes
        PROVE  /\ Listing(tasks'[n]) \subseteq Added /\ Listing(snap'[n].tasks) \subseteq Added
               /\ Submitted(todo'[n], used["adds"]) /\ Submitted(since'[n], used["adds"])
    <3>1. CASE n = m
      <4>1. /\ tasks'[n] = snap[n].tasks /\ todo'[n] = since[n] \o todo[n] /\ since'[n] = <<>> /\ snap' = snap
            BY <1>11, <3>1, RestartIs
      <4> QED
          BY <1>0, <1>8, <1>9, <4>1 DEF SourcedAt
    <3>2. CASE n # m
      <4>1. tasks'[n] = tasks[n] /\ todo'[n] = todo[n] /\ since'[n] = since[n] /\ snap' = snap
            BY <1>11, <3>2, RestartIs
      <4> QED
          BY <1>0, <4>1 DEF SourcedAt
    <3> QED
        BY <3>1, <3>2
  <2>2. UNCHANGED verdicts /\ used'["adds"] = used["adds"]
        BY <1>11 DEF Restart, AddsKept
  <2> QED
      BY <1>7, <2>1, <2>2
<1>12. ASSUME NEW m \in Nodes, InstallSnapshot(m), AddsKept
       PROVE  Sourced'
  <2>1. ASSUME NEW n \in Nodes
        PROVE  /\ Listing(tasks'[n]) \subseteq Added /\ Listing(snap'[n].tasks) \subseteq Added
               /\ Submitted(todo'[n], used["adds"]) /\ Submitted(since'[n], used["adds"])
    <3>1. CASE n = m
      <4>1. /\ tasks'[n] = Restore(tasks[n], snap[leader].tasks)
            /\ todo'[n] = since[leader] \o todo[leader] /\ since'[n] = <<>> /\ snap'[n] = snap[leader]
            BY <1>12, <3>1, InstallIs
      <4>2. Listing(Restore(tasks[n], snap[leader].tasks)) \subseteq Listing(tasks[n]) \cup Listing(snap[leader].tasks)
            BY DEF Listing, Present, Restore
      <4> QED
          BY <1>0, <1>8, <1>9, <4>1, <4>2 DEF SourcedAt
    <3>2. CASE n # m
      <4>1. tasks'[n] = tasks[n] /\ todo'[n] = todo[n] /\ since'[n] = since[n] /\ snap'[n] = snap[n]
            BY <1>12, <3>2, InstallIs
      <4> QED
          BY <1>0, <4>1 DEF SourcedAt
    <3> QED
        BY <3>1, <3>2
  <2>2. UNCHANGED verdicts /\ used'["adds"] = used["adds"]
        BY <1>12 DEF InstallSnapshot, AddsKept
  <2> QED
      BY <1>7, <2>1, <2>2
<1>13. CASE AddsKept /\ UNCHANGED <<logVars, clusters, verdicts, gone>>
  <2>1. since' = since
        BY <1>13 DEF logVars
  <2> QED
      BY <1>0, <1>7, <1>13, <2>1 DEF SourcedAt, logVars, AddsKept
<1> QED
    BY <1>5, <1>6, <1>10, <1>11, <1>12, <1>13, LogSteps

----------------------------------------------------------------------------
(* What a node has completed stays so. Of every task a node has recorded as  *)
(* completed, any other node either counts it, or still has that completion  *)
(* to apply; and wherever the task has still to be added, by a replay, the   *)
(* completion follows. A task kept across a snapshot without it is excepted. *)

Completes(c, m, d) == c.kind = "complete" /\ c.desc = d /\ c.node = m
Adds(c, d) == c.kind = "add" /\ c.desc = d

Pending(m, d, s) == \E k \in 1..Len(s) : Completes(s[k], m, d)
Follows(m, d, s, t) ==
  \A k \in 1..Len(s) :
    Adds(s[k], d) => (\E l \in 1..Len(s) : k < l /\ Completes(s[l], m, d)) \/ Pending(m, d, t)
ToRun(ts, m, d) == Find(ts, d) /\ ts[d.id].status = "STARTED" /\ m \notin ts[d.id].finishedNodes

OwedAt(n, m, d) ==
  /\ Follows(m, d, todo[n], <<>>)
  /\ Follows(m, d, since[n], todo[n])
  /\ (d \notin stale[n] /\ ToRun(tasks[n], m, d)) => Pending(m, d, todo[n])
  /\ (d \notin snap[n].stale /\ ToRun(snap[n].tasks, m, d))
        => (Pending(m, d, since[n]) \/ Pending(m, d, todo[n]))
Owed == \A n, m \in Nodes : \A d \in completed[m] : OwedAt(n, m, d)

(* Sequences of commands. *)
LEMMA PendingAppended ==
  ASSUME NEW s \in Seq(Commands), NEW c \in Commands, NEW m, NEW d
  PROVE  Pending(m, d, Append(s, c)) <=> (Pending(m, d, s) \/ Completes(c, m, d))
<1>1. /\ Len(s) \in Nat /\ Len(Append(s, c)) = Len(s) + 1 /\ Append(s, c)[Len(s) + 1] = c
      /\ \A k \in 1..Len(s) : Append(s, c)[k] = s[k]
      BY Appended
<1> QED
    BY <1>1 DEF Pending

LEMMA PendingTail ==
  ASSUME NEW s \in Seq(Commands), s # <<>>, NEW m, NEW d, Pending(m, d, s)
  PROVE  Completes(Head(s), m, d) \/ Pending(m, d, Tail(s))
<1>1. /\ Head(s) = s[1] /\ Len(s) \in Nat /\ Len(Tail(s)) = Len(s) - 1
      /\ \A k \in 1..Len(Tail(s)) : Tail(s)[k] = s[k + 1]
      BY HeadTail
<1>2. PICK k \in 1..Len(s) : Completes(s[k], m, d)
      BY DEF Pending
<1>3. CASE k = 1
      BY <1>1, <1>2, <1>3
<1>4. CASE k # 1
  <2>1. k - 1 \in 1..Len(Tail(s)) /\ Tail(s)[k - 1] = s[k]
        BY <1>1, <1>4
  <2> QED
      BY <1>2, <2>1 DEF Pending
<1> QED
    BY <1>3, <1>4

LEMMA PendingTogether ==
  ASSUME NEW s \in Seq(Commands), NEW t \in Seq(Commands), NEW m, NEW d
  PROVE  Pending(m, d, s) \/ Pending(m, d, t) => Pending(m, d, s \o t)
<1>1. ASSUME Pending(m, d, s) PROVE Pending(m, d, s \o t)
  <2>1. PICK k \in 1..Len(s) : Completes(s[k], m, d)
        BY <1>1 DEF Pending
  <2>2. k \in 1..Len(s \o t) /\ (s \o t)[k] = s[k]
        BY Concatenated
  <2> QED
      BY <2>1, <2>2 DEF Pending
<1>2. ASSUME Pending(m, d, t) PROVE Pending(m, d, s \o t)
  <2>1. PICK k \in 1..Len(t) : Completes(t[k], m, d)
        BY <1>2 DEF Pending
  <2>2. Len(s) + k \in 1..Len(s \o t) /\ (s \o t)[Len(s) + k] = t[k]
        BY Concatenated
  <2> QED
      BY <2>1, <2>2 DEF Pending
<1> QED
    BY <1>1, <1>2

LEMMA NothingPending ==
  ASSUME NEW m, NEW d
  PROVE  ~Pending(m, d, <<>>) /\ \A t : Follows(m, d, <<>>, t)
BY DEF Pending, Follows

(* One more command in the log, that is not the addition. *)
LEMMA FollowsAppended ==
  ASSUME NEW s \in Seq(Commands), NEW c \in Commands, NEW m, NEW d, NEW t, NEW u,
         Follows(m, d, s, t), ~Adds(c, d), Pending(m, d, t) => Completes(c, m, d) \/ Pending(m, d, u)
  PROVE  Follows(m, d, Append(s, c), u)
<1>1. /\ Len(s) \in Nat /\ Len(Append(s, c)) = Len(s) + 1 /\ Append(s, c)[Len(s) + 1] = c
      /\ \A k \in 1..Len(s) : Append(s, c)[k] = s[k]
      BY Appended
<1> SUFFICES ASSUME NEW k \in 1..Len(Append(s, c)), Adds(Append(s, c)[k], d), ~Pending(m, d, u)
             PROVE  \E l \in 1..Len(Append(s, c)) : k < l /\ Completes(Append(s, c)[l], m, d)
    BY DEF Follows
<1>2. k \in 1..Len(s) /\ Adds(s[k], d)
      BY <1>1
<1>3. CASE Pending(m, d, t)
  <2>1. Completes(Append(s, c)[Len(s) + 1], m, d)
        BY <1>1, <1>3
  <2> QED
      BY <1>1, <1>2, <2>1
<1>4. CASE ~Pending(m, d, t)
  <2>1. PICK l \in 1..Len(s) : k < l /\ Completes(s[l], m, d)
        BY <1>2, <1>4 DEF Follows
  <2>2. Completes(Append(s, c)[l], m, d) /\ l \in 1..Len(Append(s, c))
        BY <1>1, <2>1
  <2> QED
      BY <2>1, <2>2
<1> QED
    BY <1>3, <1>4

(* The completion itself follows every addition before it. *)
LEMMA FollowsCompletion ==
  ASSUME NEW s \in Seq(Commands), NEW c \in Commands, NEW m, NEW d, NEW t, Completes(c, m, d)
  PROVE  Follows(m, d, Append(s, c), t)
<1>1. /\ Len(s) \in Nat /\ Len(Append(s, c)) = Len(s) + 1 /\ Append(s, c)[Len(s) + 1] = c
      /\ \A k \in 1..Len(s) : Append(s, c)[k] = s[k]
      BY Appended
<1> SUFFICES ASSUME NEW k \in 1..Len(Append(s, c)), Adds(Append(s, c)[k], d)
             PROVE  \E l \in 1..Len(Append(s, c)) : k < l /\ Completes(Append(s, c)[l], m, d)
    BY DEF Follows
<1>2. k # Len(s) + 1
      BY <1>1 DEF Adds, Completes
<1> QED
    BY <1>1, <1>2

LEMMA FollowsTail ==
  ASSUME NEW s \in Seq(Commands), s # <<>>, NEW m, NEW d, Follows(m, d, s, <<>>)
  PROVE  /\ Follows(m, d, Tail(s), <<>>)
         /\ Adds(Head(s), d) => Pending(m, d, Tail(s))
<1>1. /\ Head(s) = s[1] /\ Len(s) \in Nat /\ Len(s) >= 1 /\ Len(Tail(s)) = Len(s) - 1
      /\ \A k \in 1..Len(Tail(s)) : Tail(s)[k] = s[k + 1]
      BY HeadTail
<1>2. \A k \in 1..Len(s) : Adds(s[k], d) => \E l \in 1..Len(s) : k < l /\ Completes(s[l], m, d)
      BY NothingPending DEF Follows
<1>3. ASSUME NEW k \in 1..Len(Tail(s)), Adds(Tail(s)[k], d)
      PROVE  \E l \in 1..Len(Tail(s)) : k < l /\ Completes(Tail(s)[l], m, d)
  <2>1. k + 1 \in 1..Len(s) /\ Adds(s[k + 1], d)
        BY <1>1, <1>3
  <2>2. PICK l \in 1..Len(s) : k + 1 < l /\ Completes(s[l], m, d)
        BY <1>2, <2>1
  <2>3. l - 1 \in 1..Len(Tail(s)) /\ k < l - 1 /\ Tail(s)[l - 1] = s[l]
        BY <1>1, <2>2
  <2> QED
      BY <2>2, <2>3
<1>4. ASSUME Adds(Head(s), d) PROVE Pending(m, d, Tail(s))
  <2>1. PICK l \in 1..Len(s) : 1 < l /\ Completes(s[l], m, d)
        BY <1>1, <1>2, <1>4
  <2>2. l - 1 \in 1..Len(Tail(s)) /\ Tail(s)[l - 1] = s[l]
        BY <1>1, <2>1
  <2> QED
      BY <2>1, <2>2 DEF Pending
<1> QED
    BY <1>3, <1>4 DEF Follows

LEMMA FollowsSuffix ==
  ASSUME NEW s \in Seq(Commands), NEW p \in Nat, p <= Len(s), NEW m, NEW d, NEW t, Follows(m, d, s, t)
  PROVE  Follows(m, d, SubSeq(s, Len(s) - p + 1, Len(s)), t)
<1> DEFINE r == SubSeq(s, Len(s) - p + 1, Len(s))
<1>1. Len(s) \in Nat /\ Len(r) = p /\ \A k \in 1..p : r[k] = s[Len(s) - p + k]
      BY Suffix
<1> HIDE DEF r
<1> SUFFICES ASSUME NEW k \in 1..Len(r), Adds(r[k], d), ~Pending(m, d, t)
             PROVE  \E l \in 1..Len(r) : k < l /\ Completes(r[l], m, d)
    BY DEF Follows, r
<1>2. Len(s) - p + k \in 1..Len(s) /\ Adds(s[Len(s) - p + k], d)
      BY <1>1
<1>3. PICK l \in 1..Len(s) : Len(s) - p + k < l /\ Completes(s[l], m, d)
      BY <1>2 DEF Follows
<1>4. l - (Len(s) - p) \in 1..Len(r) /\ k < l - (Len(s) - p) /\ r[l - (Len(s) - p)] = s[l]
  <2>1. l - (Len(s) - p) \in 1..p /\ k < l - (Len(s) - p)
        BY <1>1, <1>3
  <2>2. Len(s) - p + (l - (Len(s) - p)) = l
        BY <1>1
  <2> QED
      BY <1>1, <2>1, <2>2
<1> QED
    BY <1>3, <1>4

LEMMA FollowsTogether ==
  ASSUME NEW s \in Seq(Commands), NEW t \in Seq(Commands), NEW m, NEW d,
         Follows(m, d, s, t), Follows(m, d, t, <<>>)
  PROVE  Follows(m, d, s \o t, <<>>)
<1>1. /\ Len(s) \in Nat /\ Len(t) \in Nat /\ Len(s \o t) = Len(s) + Len(t)
      /\ \A k \in 1..Len(s) : (s \o t)[k] = s[k]
      /\ \A k \in 1..Len(t) : (s \o t)[Len(s) + k] = t[k]
      BY Concatenated
<1> SUFFICES ASSUME NEW k \in 1..Len(s \o t), Adds((s \o t)[k], d)
             PROVE  \E l \in 1..Len(s \o t) : k < l /\ Completes((s \o t)[l], m, d)
    BY DEF Follows
<1>2. ASSUME k \in 1..Len(s), Adds(s[k], d)
      PROVE  \E l \in 1..Len(s \o t) : k < l /\ Completes((s \o t)[l], m, d)
  <2>1. CASE Pending(m, d, t)
    <3>1. PICK l \in 1..Len(t) : Completes(t[l], m, d)
          BY <2>1 DEF Pending
    <3>2. Len(s) + l \in 1..Len(s \o t) /\ k < Len(s) + l /\ (s \o t)[Len(s) + l] = t[l]
          BY <1>1, <1>2
    <3> QED
        BY <3>1, <3>2
  <2>2. CASE ~Pending(m, d, t)
    <3>1. PICK l \in 1..Len(s) : k < l /\ Completes(s[l], m, d)
          BY <1>2, <2>2 DEF Follows
    <3>2. l \in 1..Len(s \o t) /\ (s \o t)[l] = s[l]
          BY <1>1
    <3> QED
        BY <3>1, <3>2
  <2> QED
      BY <2>1, <2>2
<1>3. ASSUME NEW j \in 1..Len(t), k = Len(s) + j, Adds(t[j], d)
      PROVE  \E l \in 1..Len(s \o t) : k < l /\ Completes((s \o t)[l], m, d)
  <2>1. PICK l \in 1..Len(t) : j < l /\ Completes(t[l], m, d)
        BY <1>3, NothingPending DEF Follows
  <2>2. Len(s) + l \in 1..Len(s \o t) /\ k < Len(s) + l /\ (s \o t)[Len(s) + l] = t[l]
        BY <1>1, <1>3, <2>1
  <2> QED
      BY <2>1, <2>2
<1>4. \/ k \in 1..Len(s) /\ (s \o t)[k] = s[k]
      \/ \E j \in 1..Len(t) : k = Len(s) + j /\ (s \o t)[k] = t[j]
      BY OneOfTwo
<1> QED
    BY <1>2, <1>3, <1>4

LEMMA OwedInit == Init => Owed
BY DEF Init, Owed

(* A node that applies the completion does not list the task as one to run. *)
LEMMA AppliedCompletion ==
  ASSUME Types, NEW n \in Nodes, NEW c \in Commands, NEW m, NEW d, Completes(c, m, d)
  PROVE  ~ToRun(Applied(n, c), m, d)
<1>1. c.desc \in Descriptors /\ c.node \in Nodes /\ c.kind = "complete" /\ c.desc = d /\ c.node = m
      BY CommandKinds DEF Completes
<1>2. tasks[n] \in TaskMaps /\ d.id \in TaskIds /\ tasks[n] \in [TaskIds -> Tasks \cup {NoTask}]
      BY <1>1 DEF Types, LogTypes, TaskMaps, Descriptors
<1>3. Applied(n, c) = RecordNodeCompletion(tasks[n], d, m, Cardinality(conf[n]))
      BY <1>1 DEF Applied
<1>4. CASE Find(tasks[n], d) /\ tasks[n][d.id].status = "STARTED"
  <2>1. Applied(n, c) = [tasks[n] EXCEPT ![d.id] = Counted(tasks[n][d.id], m, Cardinality(conf[n]))]
        BY <1>1, <1>2, <1>3, <1>4, Completion
  <2>2. Applied(n, c)[d.id] = Counted(tasks[n][d.id], m, Cardinality(conf[n]))
        BY <1>2, <2>1
  <2>3. m \in Applied(n, c)[d.id].finishedNodes
        BY <2>2 DEF Counted
  <2> QED
      BY <2>3 DEF ToRun
<1>5. CASE ~(Find(tasks[n], d) /\ tasks[n][d.id].status = "STARTED")
      BY <1>3, <1>5 DEF RecordNodeCompletion, ToRun
<1> QED
    BY <1>4, <1>5

LEMMA AppliedToRun ==
  ASSUME Types, NEW n \in Nodes, NEW c \in Commands, NEW m, NEW d \in Descriptors,
         ~Adds(c, d), ToRun(Applied(n, c), m, d)
  PROVE  ToRun(tasks[n], m, d)
BY AppliedKeeps DEF ToRun, Adds

LEMMA OwedStep == Types /\ Sourced /\ Owed /\ [Next]_vars => Owed'
<1> SUFFICES ASSUME Types, Sourced, Owed, [Next]_vars,
                    NEW n \in Nodes, NEW m \in Nodes, NEW d \in completed'[m]
             PROVE  OwedAt(n, m, d)'
    BY DEF Owed
<1> DEFINE Old == d \in completed[m]
<1>0. /\ todo[n] \in Seq(Commands) /\ since[n] \in Seq(Commands) /\ d \in Descriptors
      /\ leader \in Nodes /\ todo[leader] \in Seq(Commands) /\ since[leader] \in Seq(Commands)
      /\ tasks[n] \in TaskMaps /\ tasks'[n] \in TaskMaps /\ snap[leader].tasks \in TaskMaps
      BY TypesStep, LeaderIsNode DEF Types, LogTypes, SchedulerTypes, Snapshots
<1>1. ASSUME Old
      PROVE  /\ \A k \in Nodes : OwedAt(k, m, d)
             /\ d.version <= used["adds"]
      BY <1>1 DEF Owed, Sourced, SourcedAt, Held, Added
<1>2. ASSUME NEW c \in Commands, Execute(c), Origin(c)
      PROVE  OwedAt(n, m, d)'
  <2>0. /\ todo[leader] = <<>> /\ todo'[leader] = <<>> /\ ApplyAt(leader, c)
        /\ \A l \in Nodes \ {leader} : todo'[l] = Append(todo[l], c)
        /\ snap' = snap /\ stale' = stale
        BY <1>2, ExecuteIs
  <2>1. CASE Completes(c, m, d)
    <3>1. CASE n = leader
      <4>1. tasks'[n] = Applied(n, c) /\ since'[n] = Append(since[n], c) /\ todo'[n] = <<>>
            BY <2>0, <3>1, ApplyAtIs
      <4>2. ~ToRun(tasks'[n], m, d)
            BY <2>1, <4>1, AppliedCompletion
      <4>3. Follows(m, d, Append(since[n], c), <<>>) /\ Pending(m, d, Append(since[n], c))
            BY <1>0, <2>1, FollowsCompletion, PendingAppended
      <4>4. Follows(m, d, <<>>, <<>>)
            BY NothingPending
      <4> QED
          BY <4>1, <4>2, <4>3, <4>4 DEF OwedAt
    <3>2. CASE n # leader
      <4>1. since'[n] = since[n] /\ todo'[n] = Append(todo[n], c)
        <5>1. n \in Nodes \ {leader}
              BY <3>2
        <5>2. since'[n] = since[n]
              BY <1>0, <2>0, <5>1, ApplyAtIs
        <5> QED
            BY <2>0, <5>1, <5>2
      <4>2. Pending(m, d, Append(todo[n], c)) /\ Follows(m, d, Append(todo[n], c), <<>>)
            BY <1>0, <2>1, FollowsCompletion, PendingAppended
      <4>3. Follows(m, d, since[n], Append(todo[n], c))
            BY <4>2 DEF Follows
      <4> QED
          BY <4>1, <4>2, <4>3 DEF OwedAt
    <3> QED
        BY <3>1, <3>2
  <2>2. CASE ~Completes(c, m, d)
    <3>1. Old
      <4>1. completed' = completed \/ (c.kind = "complete"
              /\ completed' = [completed EXCEPT ![c.node] = completed[c.node] \cup {c.desc}])
            BY <1>2 DEF Origin
      <4> QED
          BY <2>2, <4>1 DEF Completes, Types, SchedulerTypes
    <3>2. ~Adds(c, d)
      <4>1. used["adds"] \in Nat /\ d.version \in Nat /\ d.version <= used["adds"]
            BY <1>0, <1>1, <3>1 DEF Types, BoundTypes, Bounds, Descriptors, Versions
      <4>2. Adds(c, d) => d.version = used["adds"] + 1
            BY <1>2 DEF Origin, Adds
      <4> QED
          BY <4>1, <4>2
    <3>3. OwedAt(n, m, d)
          BY <1>1, <3>1
    <3>4. CASE n = leader
      <4>1. /\ tasks'[n] = Applied(n, c) /\ since'[n] = Append(since[n], c) /\ todo'[n] = <<>>
            /\ todo[n] = <<>>
            BY <2>0, <3>4, ApplyAtIs
      <4>2. Follows(m, d, Append(since[n], c), <<>>)
            BY <1>0, <3>2, <3>3, <4>1, FollowsAppended DEF OwedAt
      <4>3. Pending(m, d, since[n]) => Pending(m, d, Append(since[n], c))
            BY <1>0, PendingAppended
      <4>4. ~Pending(m, d, <<>>) /\ Follows(m, d, <<>>, <<>>)
            BY NothingPending
      <4>5. d \notin stale[n] => ~ToRun(tasks'[n], m, d)
        <5>1. d \notin stale[n] => ~ToRun(tasks[n], m, d)
              BY <3>3, <4>1, <4>4 DEF OwedAt
        <5>2. ToRun(Applied(n, c), m, d) => ToRun(tasks[n], m, d)
              BY <1>0, <3>2, AppliedToRun
        <5> QED
            BY <4>1, <5>1, <5>2
      <4>6. (d \notin snap[n].stale /\ ToRun(snap[n].tasks, m, d)) => Pending(m, d, Append(since[n], c))
            BY <3>3, <4>1, <4>3, <4>4 DEF OwedAt
      <4> QED
          BY <2>0, <4>1, <4>2, <4>4, <4>5, <4>6 DEF OwedAt
    <3>5. CASE n # leader
      <4>1. tasks'[n] = tasks[n] /\ since'[n] = since[n] /\ todo'[n] = Append(todo[n], c)
        <5>1. n \in Nodes \ {leader}
              BY <3>5
        <5>2. tasks'[n] = tasks[n] /\ since'[n] = since[n]
              BY <1>0, <2>0, <5>1, ApplyAtIs
        <5> QED
            BY <2>0, <5>1, <5>2
      <4>2. Pending(m, d, todo[n]) => Pending(m, d, Append(todo[n], c))
            BY <1>0, PendingAppended
      <4>3. Follows(m, d, Append(todo[n], c), <<>>)
            BY <1>0, <3>2, <3>3, NothingPending, FollowsAppended DEF OwedAt
      <4>4. Follows(m, d, since[n], Append(todo[n], c))
            BY <3>3, <4>2 DEF OwedAt, Follows
      <4>5. (d \notin stale[n] /\ ToRun(tasks[n], m, d)) => Pending(m, d, Append(todo[n], c))
            BY <3>3, <4>2 DEF OwedAt
      <4>6. (d \notin snap[n].stale /\ ToRun(snap[n].tasks, m, d))
               => (Pending(m, d, since[n]) \/ Pending(m, d, Append(todo[n], c)))
            BY <3>3, <4>2 DEF OwedAt
      <4> QED
          BY <2>0, <4>1, <4>3, <4>4, <4>5, <4>6 DEF OwedAt
    <3> QED
        BY <3>4, <3>5
  <2> QED
      BY <2>1, <2>2
<1>3. ASSUME NEW l \in Nodes, Apply(l), AddsKept
      PROVE  OwedAt(n, m, d)'
  <2> DEFINE c == Head(todo[l])
  <2>0. /\ c \in Commands /\ ApplyAt(l, c) /\ todo[l] # <<>>
        /\ todo'[l] = Tail(todo[l]) /\ \A k \in Nodes \ {l} : todo'[k] = todo[k]
        /\ snap' = snap /\ stale' = stale
        BY <1>3, ApplyIs
  <2>1. Old /\ OwedAt(n, m, d)
        BY <1>1, <1>3 DEF AddsKept
  <2>2. CASE n = l
    <3>1. tasks'[n] = Applied(n, c) /\ since'[n] = Append(since[n], c) /\ todo'[n] = Tail(todo[n])
          BY <2>0, <2>2, ApplyAtIs
    <3>2. Pending(m, d, todo[n]) => Completes(c, m, d) \/ Pending(m, d, Tail(todo[n]))
          BY <1>0, <2>0, <2>2, PendingTail
    <3>3. Follows(m, d, Tail(todo[n]), <<>>) /\ (Adds(c, d) => Pending(m, d, Tail(todo[n])))
          BY <1>0, <2>0, <2>1, <2>2, FollowsTail DEF OwedAt
    <3>4. Follows(m, d, Append(since[n], c), Tail(todo[n]))
      <4>1. CASE Adds(c, d)
            BY <3>3, <4>1 DEF Follows
      <4>2. CASE ~Adds(c, d)
            BY <1>0, <2>0, <2>1, <3>2, <4>2, FollowsAppended DEF OwedAt
      <4> QED
          BY <4>1, <4>2
    <3>5. (d \notin stale[n] /\ ToRun(Applied(n, c), m, d)) => Pending(m, d, Tail(todo[n]))
      <4>1. CASE Completes(c, m, d)
            BY <2>0, <4>1, AppliedCompletion
      <4>2. CASE Adds(c, d)
            BY <3>3, <4>2
      <4>3. CASE ~Completes(c, m, d) /\ ~Adds(c, d)
            BY <1>0, <2>0, <2>1, <3>2, <4>3, AppliedToRun DEF OwedAt
      <4> QED
          BY <4>1, <4>2, <4>3
    <3>6. (Pending(m, d, since[n]) \/ Pending(m, d, todo[n]))
             => (Pending(m, d, Append(since[n], c)) \/ Pending(m, d, Tail(todo[n])))
          BY <1>0, <2>0, <3>2, PendingAppended
    <3>7. (d \notin snap[n].stale /\ ToRun(snap[n].tasks, m, d))
             => (Pending(m, d, Append(since[n], c)) \/ Pending(m, d, Tail(todo[n])))
          BY <2>1, <3>6 DEF OwedAt
    <3> QED
        BY <2>0, <3>1, <3>3, <3>4, <3>5, <3>7 DEF OwedAt
  <2>3. CASE n # l
    <3>1. tasks'[n] = tasks[n] /\ since'[n] = since[n] /\ todo'[n] = todo[n]
          BY <2>0, <2>3, ApplyAtIs
    <3> QED
        BY <2>0, <2>1, <3>1 DEF OwedAt
  <2> QED
      BY <2>2, <2>3
<1>4. ASSUME NEW l \in Nodes, Persist(l), AddsKept
      PROVE  OwedAt(n, m, d)'
  <2>0. Old /\ OwedAt(n, m, d)
        BY <1>1, <1>4 DEF AddsKept
  <2>1. PICK p \in Nat :
           /\ p <= Len(since[l])
           /\ snap'[l] = [tasks |-> tasks[l], ahead |-> p + ahead[l], stale |-> stale[l]]
           /\ since'[l] = SubSeq(since[l], Len(since[l]) - p + 1, Len(since[l]))
           /\ UNCHANGED <<tasks, todo, ahead, stale>>
           /\ \A k \in Nodes \ {l} : since'[k] = since[k] /\ snap'[k] = snap[k]
        BY <1>4, PersistIs
  <2>2. CASE n = l
    <3>1. /\ tasks'[n] = tasks[n] /\ todo'[n] = todo[n] /\ stale'[n] = stale[n]
          /\ snap'[n].tasks = tasks[n] /\ snap'[n].stale = stale[n]
          /\ since'[n] = SubSeq(since[n], Len(since[n]) - p + 1, Len(since[n]))
      <4>1. snap'[n].tasks = tasks[n] /\ snap'[n].stale = stale[n]
            BY <2>1, <2>2
      <4>2. since'[n] = SubSeq(since[n], Len(since[n]) - p + 1, Len(since[n]))
            BY <2>1, <2>2
      <4>3. tasks'[n] = tasks[n] /\ todo'[n] = todo[n] /\ stale'[n] = stale[n]
            BY <2>1
      <4> QED
          BY <4>1, <4>2, <4>3
    <3>2. Follows(m, d, SubSeq(since[n], Len(since[n]) - p + 1, Len(since[n])), todo[n])
          BY <1>0, <2>0, <2>1, <2>2, FollowsSuffix DEF OwedAt
    <3> QED
        BY <2>0, <3>1, <3>2 DEF OwedAt
  <2>3. CASE n # l
    <3>1. /\ tasks'[n] = tasks[n] /\ todo'[n] = todo[n] /\ stale'[n] = stale[n]
          /\ since'[n] = since[n] /\ snap'[n] = snap[n]
          BY <2>1, <2>3
    <3> QED
        BY <2>0, <3>1 DEF OwedAt
  <2> QED
      BY <2>2, <2>3
<1>5. ASSUME NEW l \in Nodes, Old
      PROVE  /\ l = n \/ l = leader => Follows(m, d, since[l] \o todo[l], <<>>)
             /\ (l = n \/ l = leader) /\ (Pending(m, d, since[l]) \/ Pending(m, d, todo[l]))
                   => Pending(m, d, since[l] \o todo[l])
  <2>1. OwedAt(l, m, d)
        BY <1>1, <1>5
  <2> QED
      BY <1>0, <2>1, FollowsTogether, PendingTogether DEF OwedAt
<1>6. ASSUME NEW l \in Nodes, Restart(l), AddsKept
      PROVE  OwedAt(n, m, d)'
  <2>0. Old /\ OwedAt(n, m, d)
        BY <1>1, <1>6 DEF AddsKept
  <2>1. CASE n = l
    <3>1. /\ tasks'[n] = snap[n].tasks /\ todo'[n] = since[n] \o todo[n] /\ since'[n] = <<>>
          /\ stale'[n] = snap[n].stale /\ snap' = snap
          BY <1>6, <2>1, RestartIs
    <3>2. Follows(m, d, <<>>, since[n] \o todo[n])
          BY NothingPending
    <3>3. Follows(m, d, since[n] \o todo[n], <<>>)
          BY <1>5, <2>0
    <3>4. (d \notin snap[n].stale /\ ToRun(snap[n].tasks, m, d)) => Pending(m, d, since[n] \o todo[n])
          BY <1>5, <2>0 DEF OwedAt
    <3> QED
        BY <3>1, <3>2, <3>3, <3>4 DEF OwedAt
  <2>2. CASE n # l
    <3>1. /\ tasks'[n] = tasks[n] /\ todo'[n] = todo[n] /\ stale'[n] = stale[n]
          /\ since'[n] = since[n] /\ snap'[n] = snap[n]
      <4>1. n \in Nodes \ {l}
            BY <2>2
      <4> QED
          BY <1>6, <4>1, RestartIs
    <3> QED
        BY <2>0, <3>1 DEF OwedAt
  <2> QED
      BY <2>1, <2>2
<1>7. ASSUME NEW l \in Nodes, InstallSnapshot(l), AddsKept
      PROVE  OwedAt(n, m, d)'
  <2>0. Old /\ OwedAt(n, m, d) /\ OwedAt(leader, m, d)
        BY <1>0, <1>1, <1>7 DEF AddsKept
  <2>1. CASE n = l
    <3>1. /\ tasks'[n] = Restore(tasks[n], snap[leader].tasks)
          /\ todo'[n] = since[leader] \o todo[leader] /\ since'[n] = <<>> /\ snap'[n] = snap[leader]
          /\ stale'[n] = snap[leader].stale
                \cup ((Listing(tasks[n]) \cap Listing(tasks'[n])) \ Listing(snap[leader].tasks))
          BY <1>7, <2>1, InstallIs
    <3>2. Follows(m, d, <<>>, since[leader] \o todo[leader])
          BY NothingPending
    <3>3. Follows(m, d, since[leader] \o todo[leader], <<>>)
          BY <1>0, <1>5, <2>0
    <3>4. (d \notin snap[leader].stale /\ ToRun(snap[leader].tasks, m, d))
             => Pending(m, d, since[leader] \o todo[leader])
          BY <1>0, <1>5, <2>0 DEF OwedAt
    <3>5. (d \notin stale'[n] /\ ToRun(tasks'[n], m, d))
             => (d \notin snap[leader].stale /\ ToRun(snap[leader].tasks, m, d))
      <4> SUFFICES ASSUME d \notin stale'[n], ToRun(tasks'[n], m, d)
                   PROVE  ToRun(snap[leader].tasks, m, d)
          BY <3>1
      <4>1. d.id \in TaskIds
            BY <1>0 DEF Descriptors
      <4>2. CASE snap[leader].tasks[d.id] # NoTask
        <5>1. tasks'[n][d.id] = snap[leader].tasks[d.id]
              BY <3>1, <4>1, <4>2 DEF Restore
        <5> QED
            BY <4>2, <5>1 DEF ToRun, Find
      <4>3. CASE snap[leader].tasks[d.id] = NoTask
        <5>1. tasks'[n][d.id] = tasks[n][d.id]
              BY <3>1, <4>1, <4>3 DEF Restore
        <5>2. Find(tasks'[n], d) /\ Find(tasks[n], d) /\ ~Find(snap[leader].tasks, d)
              BY <4>3, <5>1 DEF ToRun, Find
        <5>3. d \in Listing(tasks'[n]) /\ d \in Listing(tasks[n]) /\ d \notin Listing(snap[leader].tasks)
              BY <1>0, <5>2, Listed
        <5> QED
            BY <3>1, <5>3
      <4> QED
          BY <4>2, <4>3
    <3> QED
        BY <3>1, <3>2, <3>3, <3>4, <3>5 DEF OwedAt
  <2>2. CASE n # l
    <3>1. /\ tasks'[n] = tasks[n] /\ todo'[n] = todo[n] /\ stale'[n] = stale[n]
          /\ since'[n] = since[n] /\ snap'[n] = snap[n]
      <4>1. n \in Nodes \ {l}
            BY <2>2
      <4> QED
          BY <1>7, <4>1, InstallIs
    <3> QED
        BY <2>0, <3>1 DEF OwedAt
  <2> QED
      BY <2>1, <2>2
<1>8. CASE AddsKept /\ UNCHANGED <<logVars, clusters, verdicts, gone>>
  <2>1. Old /\ OwedAt(n, m, d)
        BY <1>1, <1>8 DEF AddsKept
  <2>2. UNCHANGED <<tasks, todo, snap, since, stale>>
        BY <1>8 DEF logVars
  <2> QED
      BY <2>1, <2>2 DEF OwedAt
<1> QED
    BY <1>2, <1>3, <1>4, <1>6, <1>7, <1>8, LogSteps

(* What a tick has read from the leader is still true of what the node has   *)
(* completed: it runs that, or does not list it as a task to run.            *)
FreshAt(n) ==
  (phase[n] = "listed" /\ ~listed[n].lagging)
    => \A d \in completed[n] :
         (d \notin listed[n].stale /\ ToRun(listed[n].tasks, n, d)) => d \in running[n]
Fresh == \A n \in Nodes : FreshAt(n)

LEMMA StartedToRun ==
  ASSUME NEW n, NEW ts \in TaskMaps, NEW d \in Descriptors
  PROVE  d \in filterStartedTasks(n, ts) <=> ToRun(ts, n, d)
BY Listed DEF filterStartedTasks, ToRun

(* An up-to-date leader does not list what the node has completed as to run. *)
LEMMA LeaderCounts ==
  ASSUME Types, Owed, ~Lagging, NEW n \in Nodes, NEW d \in completed[n], d \notin stale[leader]
  PROVE  ~ToRun(tasks[leader], n, d)
<1>1. leader \in Nodes /\ todo[leader] = <<>>
      BY LeaderIsNode DEF Types, Lagging
<1>2. OwedAt(leader, n, d)
      BY <1>1 DEF Owed
<1> QED
    BY <1>1, <1>2, NothingPending DEF OwedAt

LEMMA FreshKept ==
  ASSUME NEW m, FreshAt(m), phase'[m] = phase[m], listed'[m] = listed[m], running'[m] = running[m],
         completed'[m] \subseteq completed[m] \cup running[m]
  PROVE  FreshAt(m)'
BY DEF FreshAt

LEMMA FreshInit == Init => Fresh
BY DEF Init, Fresh, FreshAt

LEMMA FreshStep == Types /\ Owed /\ Fresh /\ [Next]_vars => Fresh'
<1> SUFFICES ASSUME Types, Owed, Fresh, [Next]_vars, NEW m \in Nodes PROVE FreshAt(m)'
    BY DEF Fresh
<1> USE DEF Types
<1>0. FreshAt(m)
      BY DEF Fresh
<1>1. ASSUME UNCHANGED schedulerVars PROVE FreshAt(m)'
      BY <1>0, <1>1, FreshKept DEF schedulerVars
<1>2. ASSUME phase'[m] # "listed" PROVE FreshAt(m)'
      BY <1>2 DEF FreshAt
<1>3. ASSUME NEW n \in Nodes, n # m,
             \/ Restart(n) \/ Start(n) \/ StartFails(n) \/ List(n)
             \/ \E launched \in SUBSET ToLaunch(n), spared \in SUBSET local[n] : TickWith(n, launched, spared)
             \/ \E d \in Descriptors : CleanedUp(n, d)
      PROVE  FreshAt(m)'
  <2>1. phase'[m] = phase[m] /\ listed'[m] = listed[m] /\ running'[m] = running[m] /\ completed'[m] = completed[m]
    <3>1. CASE Restart(n)
          BY <1>3, <3>1 DEF Restart, SchedulerTypes
    <3>2. CASE Start(n)
          BY <1>3, <3>2 DEF Start, SchedulerTypes
    <3>3. CASE StartFails(n)
          BY <1>3, <3>3 DEF StartFails, SchedulerTypes
    <3>4. CASE List(n)
          BY <1>3, <3>4 DEF List, SchedulerTypes
    <3>5. ASSUME NEW launched \in SUBSET ToLaunch(n), NEW spared \in SUBSET local[n],
                 TickWith(n, launched, spared)
          PROVE  /\ phase'[m] = phase[m] /\ listed'[m] = listed[m]
                 /\ running'[m] = running[m] /\ completed'[m] = completed[m]
          BY <1>3, <3>5 DEF TickWith, SchedulerTypes
    <3>6. ASSUME NEW d \in Descriptors, CleanedUp(n, d)
          PROVE  /\ phase'[m] = phase[m] /\ listed'[m] = listed[m]
                 /\ running'[m] = running[m] /\ completed'[m] = completed[m]
          BY <1>3, <3>6 DEF CleanedUp, SchedulerTypes
    <3> QED
        BY <1>3, <3>1, <3>2, <3>3, <3>4, <3>5, <3>6
  <2> QED
      BY <1>0, <2>1, FreshKept
<1>4. ASSUME NEW i \in TaskIds, Add(i) PROVE FreshAt(m)'
      BY <1>1, <1>4 DEF Add
<1>5. ASSUME NEW d \in Descriptors, Cancel(d) PROVE FreshAt(m)'
      BY <1>1, <1>5 DEF Cancel
<1>6. ASSUME NEW n \in Nodes, NEW d \in Descriptors, Complete(n, d) PROVE FreshAt(m)'
  <2>1. /\ completed' = [completed EXCEPT ![n] = completed[n] \cup {d}] /\ d \in running[n]
        /\ UNCHANGED <<phase, listed, toClean, running, local>>
        BY <1>6 DEF Complete
  <2>2. completed'[m] \subseteq completed[m] \cup running[m]
        BY <2>1 DEF SchedulerTypes
  <2> QED
      BY <1>0, <2>1, <2>2, FreshKept
<1>7. ASSUME NEW n \in Nodes, NEW d \in Descriptors, CompleteAgain(n, d) \/ Fail(n, d) PROVE FreshAt(m)'
      BY <1>1, <1>7 DEF CompleteAgain, Fail
<1>8. ASSUME NEW n \in Nodes, NEW d \in Descriptors, CleanUp(n, d) \/ CleanUpFails(n, d)
      PROVE  FreshAt(m)'
  <2>1. CleanedUp(n, d) /\ phase[n] = "cleaning"
        BY <1>8 DEF CleanUp, CleanUpFails
  <2>2. CASE n = m
    <3>1. phase'[m] # "listed"
          BY <2>1, <2>2 DEF CleanedUp, SchedulerTypes
    <3> QED
        BY <1>2, <3>1
  <2> QED
      BY <1>3, <2>1, <2>2
<1>9. ASSUME NEW n \in Nodes,
             Apply(n) \/ Snapshot(n) \/ Persist(n) \/ InstallSnapshot(n) \/ ChangeLeader(n)
      PROVE  FreshAt(m)'
      BY <1>1, <1>9 DEF Apply, Snapshot, Persist, InstallSnapshot, ChangeLeader
<1>10. ASSUME NEW n \in Nodes, Restart(n) \/ Start(n) \/ StartFails(n) PROVE FreshAt(m)'
  <2>1. CASE n = m
    <3>1. phase'[m] # "listed"
          BY <1>10, <2>1 DEF Restart, Start, StartFails, SchedulerTypes
    <3> QED
        BY <1>2, <3>1
  <2> QED
      BY <1>3, <1>10, <2>1
<1>11. ASSUME NEW n \in Nodes, List(n) PROVE FreshAt(m)'
  <2>1. CASE n = m
    <3>1. /\ listed'[m] = [tasks |-> tasks[leader], lagging |-> Lagging, stale |-> stale[leader]]
          /\ completed' = completed
          BY <1>11, <2>1 DEF List, SchedulerTypes
    <3>2. listed'[m].tasks = tasks[leader] /\ listed'[m].lagging = Lagging /\ listed'[m].stale = stale[leader]
          BY <3>1
    <3> SUFFICES ASSUME ~listed'[m].lagging, NEW d \in completed[m], d \notin listed'[m].stale
                 PROVE  ~ToRun(listed'[m].tasks, m, d)
        BY <3>1 DEF FreshAt
    <3> QED
        BY <3>2, LeaderCounts
  <2> QED
      BY <1>3, <1>11, <2>1
<1>12. ASSUME NEW n \in Nodes, Tick(n) \/ ProviderFails(n) PROVE FreshAt(m)'
  <2>1. PICK launched \in SUBSET ToLaunch(n), spared \in SUBSET local[n] : TickWith(n, launched, spared)
        BY <1>12 DEF Tick, ProviderFails
  <2>2. CASE n = m
    <3>1. phase'[m] # "listed"
          BY <2>1, <2>2 DEF TickWith, SchedulerTypes
    <3> QED
        BY <1>2, <3>1
  <2> QED
      BY <1>3, <2>1, <2>2
<1>13. ASSUME NEW a \in SUBSET Nodes, Reconfigure(a) PROVE FreshAt(m)'
       BY <1>1, <1>13 DEF Reconfigure
<1>14. CASE Tock
       BY <1>1, <1>14 DEF Tock
<1>15. CASE UNCHANGED vars
       BY <1>1, <1>15 DEF vars
<1> QED
    BY <1>4, <1>5, <1>6, <1>7, <1>8, <1>9, <1>10, <1>11, <1>12, <1>13, <1>14, <1>15 DEF Next

(* Only a start and a tick start tasks. *)
LEMMA Launches ==
  ASSUME Types, [Next]_vars, NEW n \in Nodes, NEW d \in running'[n] \ running[n]
  PROVE  \/ phase[n] = "starting" /\ ToRun(tasks[leader], n, d)
         \/ phase[n] = "listed" /\ ToRun(listed[n].tasks, n, d)
<1> USE DEF Types
<1>0. /\ running' # running /\ d \in running'[n] /\ d \notin running[n]
      /\ leader \in Nodes /\ tasks[leader] \in TaskMaps /\ listed[n].tasks \in TaskMaps
      BY LeaderIsNode DEF LogTypes, SchedulerTypes, Lists
<1>1. ASSUME UNCHANGED running PROVE FALSE
      BY <1>0, <1>1
<1>2. ASSUME NEW m \in Nodes, Restart(m) PROVE FALSE
      BY <1>0, <1>2 DEF Restart, SchedulerTypes
<1>3. ASSUME NEW m \in Nodes, Start(m) \/ StartFails(m)
      PROVE  phase[n] = "starting" /\ ToRun(tasks[leader], n, d)
  <2>1. \E started \in SUBSET filterStartedTasks(m, tasks[leader]) : running' = [running EXCEPT ![m] = started]
        BY <1>3 DEF Start, StartFails
  <2>2. m = n /\ d \in filterStartedTasks(n, tasks[leader])
        BY <1>0, <2>1 DEF SchedulerTypes
  <2>3. d \in Descriptors
        BY <1>0, <2>2, StartedAreListed
  <2> QED
      BY <1>0, <1>3, <2>2, <2>3, StartedToRun DEF Start, StartFails
<1>4. ASSUME NEW m \in Nodes, Tick(m) \/ ProviderFails(m)
      PROVE  phase[n] = "listed" /\ ToRun(listed[n].tasks, n, d)
  <2>1. PICK launched \in SUBSET ToLaunch(m), spared \in SUBSET local[m] : TickWith(m, launched, spared)
        BY <1>4 DEF Tick, ProviderFails
  <2>2. running' = [running EXCEPT ![m] = Handles(m, filterStartedTasks(m, listed[m].tasks), launched)]
        BY <2>1 DEF TickWith
  <2>3. m = n /\ d \in launched
        BY <1>0, <2>2 DEF Handles, SchedulerTypes
  <2>4. d \in filterStartedTasks(n, listed[n].tasks)
        BY <2>3 DEF ToLaunch
  <2>5. d \in Descriptors
        BY <1>0, <2>4, StartedAreListed
  <2> QED
      BY <1>0, <2>1, <2>3, <2>4, <2>5, StartedToRun DEF TickWith
<1>5. ASSUME NEW m \in Nodes, List(m) PROVE FALSE
      BY <1>1, <1>5 DEF List
<1>6. ASSUME NEW m \in Nodes, NEW b \in Descriptors, CleanUp(m, b) \/ CleanUpFails(m, b) PROVE FALSE
      BY <1>1, <1>6 DEF CleanUp, CleanUpFails, CleanedUp
<1>7. ASSUME NEW m \in Nodes, NEW b \in Descriptors, Complete(m, b) \/ CompleteAgain(m, b) \/ Fail(m, b) PROVE FALSE
      BY <1>1, <1>7 DEF Complete, CompleteAgain, Fail, schedulerVars
<1>8. ASSUME NEW m \in Nodes,
             Apply(m) \/ Snapshot(m) \/ Persist(m) \/ InstallSnapshot(m) \/ ChangeLeader(m)
      PROVE  FALSE
      BY <1>1, <1>8 DEF Apply, Snapshot, Persist, InstallSnapshot, ChangeLeader, schedulerVars
<1>9. ASSUME NEW i \in TaskIds, Add(i) PROVE FALSE
      BY <1>1, <1>9 DEF Add, schedulerVars
<1>10. ASSUME NEW b \in Descriptors, Cancel(b) PROVE FALSE
       BY <1>1, <1>10 DEF Cancel, schedulerVars
<1>11. ASSUME NEW a \in SUBSET Nodes, Reconfigure(a) PROVE FALSE
       BY <1>1, <1>11 DEF Reconfigure, schedulerVars
<1>12. CASE Tock
       BY <1>1, <1>12 DEF Tock, schedulerVars
<1>13. CASE UNCHANGED vars
       BY <1>1, <1>13 DEF vars, schedulerVars
<1> QED
    BY <1>2, <1>3, <1>4, <1>5, <1>6, <1>7, <1>8, <1>9, <1>10, <1>11, <1>12, <1>13 DEF Next

LEMMA NotRunAgain ==
  Types /\ Owed /\ Fresh /\ [Next]_vars
    => \A n \in Nodes : \A d \in running'[n] \ running[n] : d \in completed[n] => Misled(n, d)
<1> SUFFICES ASSUME Types, Owed, Fresh, [Next]_vars,
                    NEW n \in Nodes, NEW d \in running'[n] \ running[n], d \in completed[n]
             PROVE  Misled(n, d)
    OBVIOUS
<1>1. CASE phase[n] = "starting" /\ ToRun(tasks[leader], n, d)
  <2>1. Lagging \/ d \in stale[leader]
        BY <1>1, LeaderCounts
  <2> QED
      BY <1>1, <2>1 DEF Misled
<1>2. CASE phase[n] = "listed" /\ ToRun(listed[n].tasks, n, d)
  <2>1. FreshAt(n)
        BY DEF Fresh
  <2>2. listed[n].lagging \/ d \in listed[n].stale
        BY <1>2, <2>1 DEF FreshAt
  <2> QED
      BY <1>2, <2>2 DEF Misled
<1> QED
    BY <1>1, <1>2, Launches

(* A node that has recorded a task as completed does not start it again, not *)
(* after a restart, a change of leader or a lost reply, and not from a list  *)
(* read before; unless the list is that of a leader with commands still to   *)
(* apply, or of one that kept the task across a snapshot without it.         *)
THEOREM CompletedStaysCompleted == TasksSpec => CompletedIsNotRunAgain
<1> DEFINE IInv == Types /\ Sourced /\ Owed /\ Fresh
<1>1. Init => IInv
      BY TypesInit, SourcedInit, OwedInit, FreshInit
<1>2. IInv /\ [Next]_vars => IInv'
      BY TypesStep, SourcedStep, OwedStep, FreshStep
<1>3. IInv /\ [Next]_vars
        => [\A n \in Nodes : \A d \in running'[n] \ running[n] : d \in completed[n] => Misled(n, d)]_vars
      BY NotRunAgain
<1> QED
    BY <1>1, <1>2, <1>3, PTL DEF TasksSpec, CompletedIsNotRunAgain

=============================================================================
