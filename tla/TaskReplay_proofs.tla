-------------------------- MODULE TaskReplay_proofs --------------------------
(***************************************************************************)
(* Proofs about distributed tasks on several nodes: nodes that have        *)
(* applied the same commands have the same tasks, through replays of       *)
(* snapshots that are ahead of their index, and state of a task that is    *)
(* not cleaned up in the cluster is not cleaned up on a node.              *)
(*                                                                         *)
(* The log is no variable of the specification: a node knows what it has   *)
(* still to apply and what it applied since its snapshot. The invariant    *)
(* says that there is one log of which these are sections, and one course  *)
(* of every task along it, without the clean-ups, which depend on clocks;  *)
(* and that the tasks of a node are those at its place in the log or, for  *)
(* a node that replays what its snapshot contains, at a place ahead of it. *)
(***************************************************************************)
EXTENDS DistributedTasks_proofs

----------------------------------------------------------------------------
(* The course of a task                                                      *)

Running(t) == t # NoTask /\ t.status = "STARTED"
Runs(t, d) == Running(t) /\ t.version = d.version
Submission(d) == [version |-> d.version, status |-> "STARTED", finishedNodes |-> {}]
Regards(c, i) == c.kind # "conf" /\ c.desc.id = i
EndStatus(c) == IF c.kind = "fail" THEN "FAILED" ELSE "CANCELLED"

\* What c, counted against k nodes, makes of a task t
Completed(t, c, k) == IF Runs(t, c.desc) THEN Counted(t, c.node, k) ELSE t
Stopped(t, c) == IF Runs(t, c.desc) THEN WithStatus(t, EndStatus(c)) ELSE t

\* The task i before and after c, where the first node to apply c decides
Course(c, i, u, v) ==
  IF ~Regards(c, i) THEN v = u
  ELSE CASE c.kind = "add" ->
              /\ u # NoTask => u.version < c.desc.version
              /\ \/ v = Submission(c.desc) /\ "added" \in verdicts[c.desc]
                 \/ v = u /\ "refused" \in verdicts[c.desc]
         [] c.kind = "complete" -> \E k \in sizes[c.desc] : v = Completed(u, c, k)
         [] c.kind \in {"fail", "cancel"} -> v = Stopped(u, c)
         [] c.kind = "cleanup" -> v = u

\* What is true of a task ever after c
After(c, u) ==
  CASE c.kind = "add" -> \/ "refused" \in verdicts[c.desc]
                         \/ u # NoTask /\ u.version >= c.desc.version
    [] c.kind = "complete" -> Runs(u, c.desc) => c.node \in u.finishedNodes
    [] c.kind \in {"fail", "cancel"} -> ~Runs(u, c.desc)
    [] OTHER -> TRUE

\* A task on its course: as old as the submissions, and not counted by all that count
OnCourse(i, u) ==
  u # NoTask => /\ u.version <= used["adds"]
                /\ (u.status = "STARTED" /\ u.finishedNodes # {})
                     => \E k \in sizes[DescOf(i, u)] : Cardinality(u.finishedNodes) # k

\* end is the length of the log, and course[r] are the tasks after r commands
Courses(end, log, course) ==
  /\ \A r \in 1..end : log[r].kind # "conf" => log[r].desc.version <= used["adds"]
  /\ \A r \in 1..end, i \in TaskIds : Course(log[r], i, course[r - 1][i], course[r][i])
  /\ \A q \in 0..end, i \in TaskIds : OnCourse(i, course[q][i])
  /\ \A r \in 1..end, q \in 1..end, i \in TaskIds :
       (r <= q /\ Regards(log[r], i)) => After(log[r], course[q][i])
  /\ \A d \in Descriptors : "added" \in verdicts[d] => \E r \in 1..end : Adds(log[r], d)

----------------------------------------------------------------------------
(* Places in the log                                                         *)

At(n, end) == end - Len(todo[n])
Base(n, end) == end - Len(todo[n]) - Len(since[n])

Section(s, log, from) == \A k \in 1..Len(s) : s[k] = log[from + k]

Placed(n, end, log) ==
  /\ Len(since[n]) + Len(todo[n]) <= end
  /\ Section(todo[n], log, At(n, end))
  /\ Section(since[n], log, Base(n, end))
  /\ ahead[n] <= Len(todo[n])
  /\ snap[n].ahead <= Len(since[n]) + Len(todo[n])

\* A node's task t is that of the course, but for a clean-up
Follow(t, u) == t = u \/ (t = NoTask /\ ~Running(u))

\* t is the task i after m commands, and other runs of it before are lost
HeldAfter(t, i, m, course, lost) ==
  /\ Follow(t, course[m][i])
  /\ \A r \in 0..m :
       course[r][i] # NoTask => \/ t # NoTask /\ t.version = course[r][i].version
                                \/ DescOf(i, course[r][i]) \in lost

HeldBetween(t, i, low, high, course, lost) ==
  \E m \in low..high : HeldAfter(t, i, m, course, lost)

InPlace(n, i, end, course) ==
  Consistent(i) =>
    /\ ~Concerns(stale[n], i) =>
         HeldBetween(tasks[n][i], i, At(n, end), At(n, end) + ahead[n], course, gone)
    /\ ~Concerns(snap[n].stale, i) =>
         HeldBetween(snap[n].tasks[i], i, Base(n, end), Base(n, end) + snap[n].ahead, course, gone)

ReplayedAlong(end, log, course) ==
  /\ Courses(end, log, course)
  /\ \A n \in Nodes : Placed(n, end, log)
  /\ \A n \in Nodes, i \in TaskIds : InPlace(n, i, end, course)

Replayed ==
  \E end \in Nat : \E log \in [1..end -> Commands], course \in [0..end -> TaskMaps] :
    ReplayedAlong(end, log, course)

----------------------------------------------------------------------------
(* One command and one task                                                  *)

OneTask == Tasks \cup {NoTask}

LEMMA TaskOf ==
  ASSUME NEW ts \in TaskMaps, NEW i \in TaskIds
  PROVE  /\ ts[i] \in OneTask
         /\ ts[i] # NoTask => /\ ts[i] \in Tasks /\ ts[i].version \in Nat /\ ts[i].status \in Statuses
                              /\ ts[i].finishedNodes \in SUBSET Nodes /\ DescOf(i, ts[i]) \in Descriptors
BY DEF TaskMaps, OneTask, Tasks, Versions, DescOf, Descriptors

LEMMA SubmissionTypes ==
  ASSUME NEW d \in Descriptors
  PROVE  Submission(d) \in Tasks /\ Submission(d) \in OneTask /\ Submission(d) # NoTask
<1>1. Submission(d) \in Tasks
      BY DEF Submission, Tasks, Descriptors, Statuses
<1> QED
    BY <1>1, NoTaskAssumption DEF OneTask

LEMMA RegardedDescriptor ==
  ASSUME NEW c \in Commands, NEW i, Regards(c, i)
  PROVE  /\ c.kind \in {"add", "cancel", "cleanup", "complete", "fail"}
         /\ c.desc \in Descriptors /\ c.desc.id = i /\ i \in TaskIds
         /\ c.desc.version \in Nat /\ c.desc = [id |-> i, version |-> c.desc.version]
<1>1. /\ c.kind \in {"add", "cancel", "cleanup", "complete", "fail"} /\ c.desc \in Descriptors
      /\ c.desc.id = i
      BY CommandKinds DEF Regards
<1> QED
    BY <1>1 DEF Descriptors, Versions

(* What applying c makes of the task i of node n. *)
LEMMA AppliedElsewhere ==
  ASSUME Types, NEW n \in Nodes, NEW c \in Commands, NEW i \in TaskIds, ~Regards(c, i)
  PROVE  Applied(n, c)[i] = tasks[n][i]
<1>1. tasks[n] \in TaskMaps /\ tasks[n] \in [TaskIds -> Tasks \cup {NoTask}]
      BY DEF Types, LogTypes, TaskMaps
<1>2. CASE c.kind = "conf"
      BY <1>2 DEF Applied
<1>3. CASE c.kind # "conf"
  <2>1. c.desc \in Descriptors /\ c.desc.id # i /\ c.desc.id \in TaskIds
        BY <1>3, CommandKinds DEF Regards, Descriptors
  <2>2. CASE c.kind = "add"
        BY <1>1, <2>1, <2>2 DEF Applied, AddTask
  <2>3. CASE c.kind = "complete"
        BY <1>1, <2>1, <2>3 DEF Applied, RecordNodeCompletion
  <2>4. CASE c.kind = "fail"
        BY <1>1, <2>1, <2>4 DEF Applied, EndTask
  <2>5. CASE c.kind = "cancel"
        BY <1>1, <2>1, <2>5 DEF Applied, EndTask
  <2>6. CASE c.kind = "cleanup"
        BY <1>1, <2>1, <2>6 DEF Applied, CleanUpTask
  <2> QED
      BY <1>3, <2>2, <2>3, <2>4, <2>5, <2>6, CommandKinds
<1> QED
    BY <1>2, <1>3

\* What keeps a submission d out
Blocks(t, d) == t # NoTask /\ (t.status = "STARTED" \/ d.version <= t.version)

LEMMA AppliedAdd ==
  ASSUME Types, NEW n \in Nodes, NEW c \in Commands, NEW i \in TaskIds, Regards(c, i), c.kind = "add"
  PROVE  /\ Blocks(tasks[n][i], c.desc) => Applied(n, c) = tasks[n]
         /\ ~Blocks(tasks[n][i], c.desc) => Applied(n, c)[i] = Submission(c.desc)
<1>1. tasks[n] \in [TaskIds -> Tasks \cup {NoTask}] /\ c.desc.id = i
      BY RegardedDescriptor DEF Types, LogTypes, TaskMaps
<1>2. Applied(n, c) = AddTask(tasks[n], c.desc)
      BY DEF Applied
<1> QED
    BY <1>1, <1>2 DEF AddTask, Blocks, Submission

LEMMA AppliedRest ==
  ASSUME Types, NEW n \in Nodes, NEW c \in Commands, NEW i \in TaskIds, Regards(c, i)
  PROVE  /\ c.kind = "complete" => Applied(n, c)[i] = Completed(tasks[n][i], c, Cardinality(conf[n]))
         /\ c.kind \in {"fail", "cancel"} => Applied(n, c)[i] = Stopped(tasks[n][i], c)
         /\ c.kind = "cleanup" => \/ Applied(n, c)[i] = tasks[n][i]
                                  \/ Applied(n, c)[i] = NoTask /\ ~Running(tasks[n][i])
<1> DEFINE t == tasks[n][i]
<1>1. /\ tasks[n] \in TaskMaps /\ tasks[n] \in [TaskIds -> Tasks \cup {NoTask}]
      /\ c.desc.id = i /\ c.desc \in Descriptors
      BY RegardedDescriptor DEF Types, LogTypes, TaskMaps
<1>2. Runs(t, c.desc) <=> (Find(tasks[n], c.desc) /\ tasks[n][c.desc.id].status = "STARTED")
      BY <1>1 DEF Runs, Running, Find
<1>3. ASSUME c.kind = "complete"
      PROVE  Applied(n, c)[i] = Completed(t, c, Cardinality(conf[n]))
  <2>1. Applied(n, c) = RecordNodeCompletion(tasks[n], c.desc, c.node, Cardinality(conf[n])) /\ c.node \in Nodes
        BY <1>3, CommandKinds DEF Applied
  <2>2. CASE Runs(t, c.desc)
    <3>1. Applied(n, c) = [tasks[n] EXCEPT ![c.desc.id] = Counted(t, c.node, Cardinality(conf[n]))]
          BY <1>1, <1>2, <2>1, <2>2, Completion
    <3> QED
        BY <1>1, <2>2, <3>1 DEF Completed
  <2>3. CASE ~Runs(t, c.desc)
        BY <1>2, <2>1, <2>3 DEF Completed, RecordNodeCompletion
  <2> QED
      BY <2>2, <2>3
<1>4. ASSUME c.kind \in {"fail", "cancel"}
      PROVE  Applied(n, c)[i] = Stopped(t, c)
  <2>1. Applied(n, c) = EndTask(tasks[n], c.desc, EndStatus(c)) /\ EndStatus(c) \in Statuses
        BY <1>4 DEF Applied, EndStatus, Statuses
  <2>2. CASE Runs(t, c.desc)
    <3>1. Applied(n, c) = [tasks[n] EXCEPT ![c.desc.id] = WithStatus(t, EndStatus(c))]
          BY <1>1, <1>2, <2>1, <2>2, Ending
    <3> QED
        BY <1>1, <2>2, <3>1 DEF Stopped
  <2>3. CASE ~Runs(t, c.desc)
        BY <1>2, <2>1, <2>3 DEF Stopped, EndTask
  <2> QED
      BY <2>2, <2>3
<1>5. ASSUME c.kind = "cleanup"
      PROVE  Applied(n, c)[i] = t \/ (Applied(n, c)[i] = NoTask /\ ~Running(t))
  <2>1. Applied(n, c) = CleanUpTask(tasks[n], c.desc, age[c.desc])
        BY <1>5 DEF Applied
  <2> QED
      BY <1>1, <2>1 DEF CleanUpTask, Running
<1> QED
    BY <1>3, <1>4, <1>5

(* What is recorded of a submission. *)
LEMMA AppliedVerdict ==
  ASSUME Types, NEW n \in Nodes, NEW c \in Commands, NEW i \in TaskIds, ApplyAt(n, c), Regards(c, i),
         c.kind = "add"
  PROVE  /\ ~Blocks(tasks[n][i], c.desc) => "added" \in verdicts'[c.desc]
         /\ (Blocks(tasks[n][i], c.desc) /\ tasks[n][i].version < c.desc.version)
               => "refused" \in verdicts'[c.desc]
<1> DEFINE d == c.desc
           ts == AddTask(tasks[n], d)
<1>1. /\ tasks[n] \in TaskMaps /\ tasks[n] \in [TaskIds -> Tasks \cup {NoTask}]
      /\ d.id = i /\ d \in Descriptors /\ d.version \in Nat
      BY RegardedDescriptor DEF Types, LogTypes, TaskMaps
<1>2. ts \in TaskMaps /\ (d \in Listing(ts) <=> Find(ts, d))
      BY <1>1, AddTaskTypes, Listed
<1>3. verdicts'[d] = verdicts[d] \cup Verdict(tasks[n], d)
      BY <1>1 DEF ApplyAt
<1>4. ASSUME ~Blocks(tasks[n][i], d)
      PROVE  "added" \in verdicts'[d]
  <2>1. ts = [tasks[n] EXCEPT ![i] = Submission(d)]
        BY <1>1, <1>4 DEF Blocks, AddTask, Submission
  <2>2. ts[i] = Submission(d) /\ Submission(d).version = d.version
        BY <1>1, <2>1 DEF Submission
  <2>3. Submission(d) # NoTask
        BY <1>1, SubmissionTypes
  <2> QED
      BY <1>1, <1>2, <1>3, <2>2, <2>3 DEF Find, Verdict
<1>5. ASSUME Blocks(tasks[n][i], d), tasks[n][i].version < d.version
      PROVE  "refused" \in verdicts'[d]
  <2>1. ts = tasks[n]
        BY <1>1, <1>5 DEF Blocks, AddTask
  <2>2. tasks[n][i].version \in Nat
        BY <1>1, <1>5, TaskOf DEF Blocks
  <2>3. d \notin Listing(ts)
        BY <1>1, <1>2, <1>5, <2>1, <2>2 DEF Find
  <2> QED
      BY <1>1, <1>3, <1>5, <2>3 DEF Verdict
<1> QED
    BY <1>4, <1>5

(* A task that is not there any more after a command, or another run of it,  *)
(* is gone.                                                                  *)
LEMMA ReplacedIsGone ==
  ASSUME Types, NEW n \in Nodes, NEW c \in Commands, NEW i \in TaskIds, ApplyAt(n, c),
         tasks[n][i] # NoTask
  PROVE  \/ tasks'[n][i] # NoTask /\ tasks'[n][i].version = tasks[n][i].version
         \/ DescOf(i, tasks[n][i]) \in gone'
<1> DEFINE d == DescOf(i, tasks[n][i])
<1>1. tasks[n] \in TaskMaps /\ tasks'[n] = Applied(n, c) /\ Applied(n, c) \in TaskMaps
      BY ApplyAtIs, AppliedTypes DEF Types, LogTypes
<1>2. d \in Descriptors /\ d.id = i /\ d.version = tasks[n][i].version
      BY <1>1, TaskOf DEF DescOf
<1>3. d \in Listing(tasks[n])
      BY <1>1, <1>2, Listed DEF Find
<1>4. CASE d \in Listing(Applied(n, c))
  <2>1. Find(Applied(n, c), d)
        BY <1>1, <1>2, <1>4, Listed
  <2> QED
      BY <1>1, <1>2, <2>1 DEF Find
<1>5. CASE d \notin Listing(Applied(n, c))
  <2>1. gone' = gone \cup (Listing(tasks[n]) \ Listing(Applied(n, c)))
        BY DEF ApplyAt
  <2> QED
      BY <1>3, <1>5, <2>1
<1> QED
    BY <1>4, <1>5

\* Versions only grow along a course
LEMMA CourseVersions ==
  ASSUME NEW c \in Commands, NEW i \in TaskIds, NEW u \in OneTask, NEW w, Course(c, i, u, w)'
  PROVE  /\ w \in OneTask
         /\ w # NoTask => \/ u # NoTask /\ w.version = u.version
                          \/ /\ Regards(c, i) /\ c.kind = "add" /\ w = Submission(c.desc)
                             /\ "added" \in verdicts'[c.desc]
<1>1. CASE ~Regards(c, i)
      BY <1>1 DEF Course
<1>2. CASE Regards(c, i)
  <2>1. c.desc \in Descriptors /\ c.kind \in {"add", "cancel", "cleanup", "complete", "fail"}
        BY <1>2, RegardedDescriptor
  <2>2. CASE c.kind = "add"
        BY <1>2, <2>1, <2>2, SubmissionTypes DEF Course
  <2>3. CASE c.kind = "complete"
    <3>1. PICK k \in sizes'[c.desc] : w = Completed(u, c, k)
          BY <1>2, <2>3 DEF Course
    <3>2. CASE Runs(u, c.desc)
      <4>1. w = Counted(u, c.node, k) /\ u # NoTask /\ u \in Tasks /\ c.node \in Nodes
            BY <2>3, <3>1, <3>2, CommandKinds DEF Completed, Runs, Running, OneTask
      <4>2. w.version = u.version
            BY <4>1 DEF Counted
      <4>3. w \in Tasks
        <5>1. u.finishedNodes \cup {c.node} \in SUBSET Nodes
              BY <4>1 DEF Tasks
        <5> QED
            BY <4>1, <5>1 DEF Counted, Tasks, Statuses
      <4> QED
          BY <4>1, <4>2, <4>3 DEF OneTask
    <3>3. CASE ~Runs(u, c.desc)
          BY <3>1, <3>3 DEF Completed
    <3> QED
        BY <3>2, <3>3
  <2>4. CASE c.kind \in {"fail", "cancel"}
    <3>1. w = Stopped(u, c)
          BY <1>2, <2>4 DEF Course
    <3>2. CASE Runs(u, c.desc)
      <4>1. w = WithStatus(u, EndStatus(c)) /\ u # NoTask /\ u \in Tasks
            BY <3>1, <3>2 DEF Stopped, Runs, Running, OneTask
      <4>2. w.version = u.version
            BY <4>1 DEF WithStatus
      <4>3. w \in Tasks
            BY <4>1 DEF WithStatus, Tasks, Statuses, EndStatus
      <4> QED
          BY <4>1, <4>2, <4>3 DEF OneTask
    <3>3. CASE ~Runs(u, c.desc)
          BY <3>1, <3>3 DEF Stopped
    <3> QED
        BY <3>2, <3>3
  <2>5. CASE c.kind = "cleanup"
        BY <1>2, <2>5 DEF Course
  <2> QED
      BY <2>1, <2>2, <2>3, <2>4, <2>5
<1> QED
    BY <1>1, <1>2

(* A node that is where the course is makes of its task what the course      *)
(* makes of it, if the task is consistent.                                   *)
LEMMA StepsTogether ==
  ASSUME Types, Types', NEW n \in Nodes, NEW c \in Commands, NEW i \in TaskIds, ApplyAt(n, c),
         NEW u \in OneTask, NEW w, Follow(tasks[n][i], u), Course(c, i, u, w)', Consistent(i)'
  PROVE  Follow(tasks'[n][i], w)
<1> DEFINE t == tasks[n][i]
           v == Applied(n, c)[i]
<1>1. /\ tasks'[n] = Applied(n, c) /\ t \in OneTask
      /\ c.kind = "complete" => Cardinality(conf[n]) \in sizes'[c.desc]
      BY ApplyAtIs, TaskOf DEF Types, LogTypes
<1>2. CASE ~Regards(c, i)
      BY <1>1, <1>2, AppliedElsewhere DEF Course
<1>3. CASE Regards(c, i)
  <2>1. /\ c.desc \in Descriptors /\ c.desc.id = i /\ c.desc.version \in Nat
        /\ c.kind \in {"add", "cancel", "cleanup", "complete", "fail"}
        BY <1>3, RegardedDescriptor
  <2>2. /\ \A k, l \in sizes'[c.desc] : k = l
        /\ ~("added" \in verdicts'[c.desc] /\ "refused" \in verdicts'[c.desc])
    <3>1. verdicts'[c.desc] \in SUBSET {"added", "refused"}
          BY <2>1 DEF Types, HistoryTypes
    <3> QED
        BY <2>1, <3>1 DEF Consistent
  <2>3. CASE c.kind = "add"
    <3>1. /\ u # NoTask => u.version < c.desc.version
          /\ \/ w = Submission(c.desc) /\ "added" \in verdicts'[c.desc]
             \/ w = u /\ "refused" \in verdicts'[c.desc]
          BY <1>3, <2>3 DEF Course
    <3>2. CASE Blocks(t, c.desc)
      <4>1. t # NoTask /\ t = u
            BY <3>2 DEF Blocks, Follow
      <4>2. "refused" \in verdicts'[c.desc]
            BY <1>3, <2>3, <3>1, <3>2, <4>1, AppliedVerdict
      <4>3. v = t
            BY <1>3, <2>3, <3>2, AppliedAdd
      <4> QED
          BY <1>1, <2>2, <3>1, <4>1, <4>2, <4>3 DEF Follow
    <3>3. CASE ~Blocks(t, c.desc)
      <4>1. "added" \in verdicts'[c.desc]
            BY <1>3, <2>3, <3>3, AppliedVerdict
      <4>2. v = Submission(c.desc)
            BY <1>3, <2>3, <3>3, AppliedAdd
      <4> QED
          BY <1>1, <2>2, <3>1, <4>1, <4>2 DEF Follow
    <3> QED
        BY <3>2, <3>3
  <2>4. CASE c.kind = "complete"
    <3>1. PICK k \in sizes'[c.desc] : w = Completed(u, c, k)
          BY <1>3, <2>4 DEF Course
    <3>2. k = Cardinality(conf[n])
          BY <1>1, <2>2, <2>4
    <3>3. v = Completed(t, c, k)
          BY <1>3, <2>4, <3>2, AppliedRest
    <3> QED
        BY <1>1, <3>1, <3>3 DEF Follow, Completed, Runs, Running
  <2>5. CASE c.kind \in {"fail", "cancel"}
    <3>1. w = Stopped(u, c)
          BY <1>3, <2>5 DEF Course
    <3>2. v = Stopped(t, c)
          BY <1>3, <2>5, AppliedRest
    <3> QED
        BY <1>1, <3>1, <3>2 DEF Follow, Stopped, Runs, Running
  <2>6. CASE c.kind = "cleanup"
    <3>1. w = u
          BY <1>3, <2>6 DEF Course
    <3>2. v = t \/ (v = NoTask /\ ~Running(t))
          BY <1>3, <2>6, AppliedRest
    <3> QED
        BY <1>1, <3>1, <3>2 DEF Follow
  <2> QED
      BY <2>1, <2>3, <2>4, <2>5, <2>6
<1> QED
    BY <1>2, <1>3

(* A node that replays a command its task has behind it leaves the task as   *)
(* it is, or adds it again because it was cleaned up since.                  *)
LEMMA Replays ==
  ASSUME Types, Types', NEW n \in Nodes, NEW c \in Commands, NEW i \in TaskIds, ApplyAt(n, c),
         NEW u \in OneTask, Follow(tasks[n][i], u), Regards(c, i) => After(c, u)', OnCourse(i, u)',
         Consistent(i)'
  PROVE  \/ Follow(tasks'[n][i], u)
         \/ /\ tasks[n][i] = NoTask /\ Regards(c, i) /\ c.kind = "add"
            /\ tasks'[n][i] = Submission(c.desc) /\ "added" \in verdicts'[c.desc]
<1> DEFINE t == tasks[n][i]
           v == Applied(n, c)[i]
<1>1. /\ tasks'[n] = Applied(n, c) /\ t \in OneTask
      /\ c.kind = "complete" => Cardinality(conf[n]) \in sizes'[c.desc]
      BY ApplyAtIs, TaskOf DEF Types, LogTypes
<1>2. CASE ~Regards(c, i)
      BY <1>1, <1>2, AppliedElsewhere
<1>3. CASE Regards(c, i)
  <2>1. /\ c.desc \in Descriptors /\ c.desc.id = i /\ c.desc.version \in Nat
        /\ c.kind \in {"add", "cancel", "cleanup", "complete", "fail"}
        /\ c.desc = [id |-> i, version |-> c.desc.version]
        BY <1>3, RegardedDescriptor
  <2>2. /\ \A k, l \in sizes'[c.desc] : k = l
        /\ ~("added" \in verdicts'[c.desc] /\ "refused" \in verdicts'[c.desc])
    <3>1. verdicts'[c.desc] \in SUBSET {"added", "refused"}
          BY <2>1 DEF Types, HistoryTypes
    <3> QED
        BY <2>1, <3>1 DEF Consistent
  <2>3. CASE c.kind = "add"
    <3>1. "refused" \in verdicts'[c.desc] \/ (u # NoTask /\ u.version >= c.desc.version)
          BY <1>3, <2>3 DEF After
    <3>2. CASE Blocks(t, c.desc)
      <4>1. v = t
            BY <1>3, <2>3, <3>2, AppliedAdd
      <4> QED
          BY <1>1, <4>1
    <3>3. CASE ~Blocks(t, c.desc)
      <4>1. "added" \in verdicts'[c.desc]
            BY <1>3, <2>3, <3>3, AppliedVerdict
      <4>2. v = Submission(c.desc)
            BY <1>3, <2>3, <3>3, AppliedAdd
      <4>3. t = NoTask
        <5>1. u # NoTask /\ u.version >= c.desc.version
              BY <2>2, <3>1, <4>1
        <5> QED
            BY <2>1, <3>3, <5>1 DEF Blocks, Follow, OneTask, Tasks, Versions
      <4> QED
          BY <1>1, <1>3, <2>3, <4>1, <4>2, <4>3
    <3> QED
        BY <3>2, <3>3
  <2>4. CASE c.kind = "complete"
    <3> DEFINE size == Cardinality(conf[n])
    <3>1. v = Completed(t, c, size)
          BY <1>3, <2>4, AppliedRest
    <3>2. CASE Runs(t, c.desc)
      <4>1. t = u /\ u # NoTask /\ u \in Tasks /\ u.version = c.desc.version /\ u.status = "STARTED"
            BY <3>2 DEF Runs, Running, Follow, OneTask
      <4>2. c.node \in u.finishedNodes
            BY <1>3, <2>4, <3>2, <4>1 DEF After
      <4>3. DescOf(i, u) = c.desc
            BY <2>1, <4>1 DEF DescOf
      <4>4. PICK k \in sizes'[c.desc] : Cardinality(u.finishedNodes) # k
        <5>1. u.finishedNodes # {}
              BY <4>2
        <5>2. \E k \in sizes'[DescOf(i, u)] : Cardinality(u.finishedNodes) # k
              BY <4>1, <5>1 DEF OnCourse
        <5> QED
            BY <4>3, <5>2
      <4>5. Cardinality(u.finishedNodes) # size
            BY <1>1, <2>2, <2>4, <4>4
      <4>6. u.finishedNodes \cup {c.node} = u.finishedNodes
            BY <4>2
      <4>7. Counted(u, c.node, size) = u
            BY <4>1, <4>5, <4>6 DEF Counted, Tasks
      <4> QED
          BY <1>1, <3>1, <3>2, <4>1, <4>7 DEF Completed
    <3>3. CASE ~Runs(t, c.desc)
          BY <1>1, <3>1, <3>3 DEF Completed
    <3> QED
        BY <3>2, <3>3
  <2>5. CASE c.kind \in {"fail", "cancel"}
    <3>1. ~Runs(u, c.desc)
          BY <1>3, <2>5 DEF After
    <3>2. ~Runs(t, c.desc)
          BY <3>1 DEF Follow, Runs, Running
    <3>3. v = t
          BY <1>3, <2>5, <3>2, AppliedRest DEF Stopped
    <3> QED
        BY <1>1, <3>3
  <2>6. CASE c.kind = "cleanup"
    <3>1. v = t \/ (v = NoTask /\ ~Running(t))
          BY <1>3, <2>6, AppliedRest
    <3> QED
        BY <1>1, <3>1 DEF Follow
  <2> QED
      BY <2>1, <2>3, <2>4, <2>5, <2>6
<1> QED
    BY <1>2, <1>3

----------------------------------------------------------------------------
(* The course goes on when a command is committed                            *)

\* The task i after c, when ts are the tasks of the leader that applied it
Advanced(c, i, u, k, ts) ==
  IF ~Regards(c, i) THEN u
  ELSE IF c.kind = "add" THEN (IF Find(ts, c.desc) THEN Submission(c.desc) ELSE u)
  ELSE IF c.kind = "complete" THEN Completed(u, c, k)
  ELSE IF c.kind \in {"fail", "cancel"} THEN Stopped(u, c)
  ELSE u

\* What is remembered by the properties grew
Remembered ==
  /\ \A d \in Descriptors : sizes[d] \subseteq sizes'[d] /\ verdicts[d] \subseteq verdicts'[d]
  /\ gone \subseteq gone'
  /\ used["adds"] <= used'["adds"]
  /\ used["adds"] \in Nat /\ used'["adds"] \in Nat

LEMMA StepRemembers ==
  ASSUME Types, [Next]_vars
  PROVE  Remembered
<1>1. used["adds"] \in Nat /\ used'["adds"] \in Nat
      BY TypesStep DEF Types, BoundTypes, Bounds
<1> QED
    BY <1>1, HistoryGrows DEF Remembered

LEMMA CourseRemembered ==
  ASSUME Remembered, NEW c \in Commands, NEW i, NEW u, NEW w, Course(c, i, u, w)
  PROVE  Course(c, i, u, w)'
<1>1. CASE ~Regards(c, i)
      BY <1>1 DEF Course
<1>2. CASE Regards(c, i)
  <2>1. /\ c.kind \in {"add", "cancel", "cleanup", "complete", "fail"}
        /\ sizes[c.desc] \subseteq sizes'[c.desc] /\ verdicts[c.desc] \subseteq verdicts'[c.desc]
        BY <1>2, RegardedDescriptor DEF Remembered
  <2>2. CASE c.kind = "add"
        BY <1>2, <2>1, <2>2 DEF Course
  <2>3. CASE c.kind = "complete"
        BY <1>2, <2>1, <2>3 DEF Course
  <2>4. CASE c.kind \in {"fail", "cancel"}
        BY <1>2, <2>4 DEF Course
  <2>5. CASE c.kind = "cleanup"
        BY <1>2, <2>5 DEF Course
  <2> QED
      BY <2>1, <2>2, <2>3, <2>4, <2>5
<1> QED
    BY <1>1, <1>2

LEMMA AfterRemembered ==
  ASSUME Remembered, NEW c \in Commands, NEW i, Regards(c, i), NEW u, After(c, u)
  PROVE  After(c, u)'
<1>1. /\ c.kind \in {"add", "cancel", "cleanup", "complete", "fail"}
      /\ verdicts[c.desc] \subseteq verdicts'[c.desc]
      BY RegardedDescriptor DEF Remembered
<1>2. CASE c.kind = "add"
      BY <1>1, <1>2 DEF After
<1>3. CASE c.kind # "add"
      BY <1>1, <1>3 DEF After
<1> QED
    BY <1>2, <1>3

LEMMA OnCourseRemembered ==
  ASSUME Remembered, NEW i \in TaskIds, NEW u \in OneTask, OnCourse(i, u)
  PROVE  OnCourse(i, u)'
<1> SUFFICES ASSUME u # NoTask
             PROVE  OnCourse(i, u)'
    BY DEF OnCourse
<1>1. u \in Tasks /\ u.version \in Nat /\ DescOf(i, u) \in Descriptors
      BY DEF OneTask, Tasks, Versions, DescOf, Descriptors
<1>2. u.version <= used["adds"]
      BY DEF OnCourse
<1>3. u.version <= used'["adds"]
      BY <1>1, <1>2 DEF Remembered
<1>4. ASSUME u.status = "STARTED", u.finishedNodes # {}
      PROVE  \E k \in sizes'[DescOf(i, u)] : Cardinality(u.finishedNodes) # k
  <2>1. PICK k \in sizes[DescOf(i, u)] : Cardinality(u.finishedNodes) # k
        BY <1>4 DEF OnCourse
  <2> QED
      BY <1>1, <2>1 DEF Remembered
<1> QED
    BY <1>3, <1>4 DEF OnCourse

(* The next task on the course.                                              *)
LEMMA Advances ==
  ASSUME Types, Sourced, Types', NEW c \in Commands, Execute(c), Origin(c), NEW i \in TaskIds,
         NEW u \in OneTask, OnCourse(i, u),
         NEW w, w = Advanced(c, i, u, Cardinality(conf[leader]), tasks'[leader])
  PROVE  Course(c, i, u, w)'
<1> DEFINE l == leader
           t == tasks[l][i]
<1>1. /\ l \in Nodes /\ ApplyAt(l, c) /\ tasks'[l] = Applied(l, c) /\ t \in OneTask
      /\ c.kind = "complete" => Cardinality(conf[l]) \in sizes'[c.desc]
      /\ tasks[l] \in TaskMaps
      BY ExecuteIs, ApplyAtIs, TaskOf DEF Types, LogTypes
<1>2. CASE ~Regards(c, i)
      BY <1>2 DEF Course, Advanced
<1>3. CASE Regards(c, i)
  <2>1. /\ c.desc \in Descriptors /\ c.desc.id = i /\ c.desc.version \in Nat
        /\ c.kind \in {"add", "cancel", "cleanup", "complete", "fail"}
        BY <1>3, RegardedDescriptor
  <2>2. CASE c.kind = "add"
    <3>1. c.desc.version = used["adds"] + 1 /\ used["adds"] \in Nat
          BY <2>2 DEF Origin, Types, BoundTypes, Bounds
    <3>2. u # NoTask => u.version < c.desc.version
          BY <3>1 DEF OnCourse, OneTask, Tasks, Versions
    <3>3. t # NoTask => t.version < c.desc.version
      <4> SUFFICES ASSUME t # NoTask PROVE t.version < c.desc.version
          OBVIOUS
      <4>1. DescOf(i, t) \in Descriptors /\ DescOf(i, t).version = t.version /\ t.version \in Nat
            BY <1>1, TaskOf DEF DescOf
      <4>2. DescOf(i, t) \in Listing(tasks[l])
            BY DEF Listing, Present
      <4>3. "added" \in verdicts[DescOf(i, t)]
            BY <1>1, <4>2 DEF Sourced, SourcedAt, Added
      <4>4. DescOf(i, t).version <= used["adds"]
            BY <4>1, <4>3 DEF Sourced
      <4> QED
          BY <3>1, <4>1, <4>4
    <3>4. CASE Blocks(t, c.desc)
      <4>1. t # NoTask
            BY <3>4 DEF Blocks
      <4>2. "refused" \in verdicts'[c.desc]
            BY <1>1, <1>3, <2>2, <3>3, <3>4, <4>1, AppliedVerdict
      <4>3. Applied(l, c) = tasks[l]
            BY <1>1, <1>3, <2>2, <3>4, AppliedAdd
      <4>4. t.version # c.desc.version
            BY <1>1, <2>1, <3>3, <4>1, TaskOf
      <4>5. ~Find(tasks'[l], c.desc)
            BY <1>1, <2>1, <4>3, <4>4 DEF Find
      <4>6. w = u
            BY <1>3, <2>2, <4>5 DEF Advanced
      <4> QED
          BY <1>3, <2>2, <3>2, <4>2, <4>6 DEF Course
    <3>5. CASE ~Blocks(t, c.desc)
      <4>1. "added" \in verdicts'[c.desc]
            BY <1>1, <1>3, <2>2, <3>5, AppliedVerdict
      <4>2. Applied(l, c)[i] = Submission(c.desc)
            BY <1>1, <1>3, <2>2, <3>5, AppliedAdd
      <4>3. Find(tasks'[l], c.desc)
            BY <1>1, <2>1, <4>2, SubmissionTypes DEF Find, Submission
      <4>4. w = Submission(c.desc)
            BY <1>3, <2>2, <4>3 DEF Advanced
      <4> QED
          BY <1>3, <2>2, <3>2, <4>1, <4>4 DEF Course
    <3> QED
        BY <3>4, <3>5
  <2>3. CASE c.kind = "complete"
    <3>1. w = Completed(u, c, Cardinality(conf[l]))
          BY <1>3, <2>3 DEF Advanced
    <3> QED
        BY <1>1, <1>3, <2>3, <3>1 DEF Course
  <2>4. CASE c.kind \in {"fail", "cancel"}
    <3>1. w = Stopped(u, c)
          BY <1>3, <2>4 DEF Advanced
    <3> QED
        BY <1>3, <2>4, <3>1 DEF Course
  <2>5. CASE c.kind = "cleanup"
    <3>1. w = u
          BY <1>3, <2>5 DEF Advanced
    <3> QED
        BY <1>3, <2>5, <3>1 DEF Course
  <2> QED
      BY <2>1, <2>2, <2>3, <2>4, <2>5
<1> QED
    BY <1>2, <1>3

(* It has c behind it, keeps behind it what was, and stays on course.        *)
LEMMA HasBehind ==
  ASSUME NEW c \in Commands, NEW i \in TaskIds, Regards(c, i), NEW u \in OneTask, NEW w, Course(c, i, u, w)'
  PROVE  After(c, w)'
<1>1. /\ c.desc \in Descriptors /\ c.desc.id = i /\ c.desc.version \in Nat
      /\ c.kind \in {"add", "cancel", "cleanup", "complete", "fail"}
      BY RegardedDescriptor
<1>2. CASE c.kind = "add"
  <2>1. w = Submission(c.desc) \/ "refused" \in verdicts'[c.desc]
        BY <1>2 DEF Course
  <2>2. Submission(c.desc) # NoTask /\ Submission(c.desc).version = c.desc.version
        BY <1>1, SubmissionTypes DEF Submission
  <2> QED
      BY <1>1, <1>2, <2>1, <2>2 DEF After
<1>3. CASE c.kind = "complete"
  <2>1. PICK k \in sizes'[c.desc] : w = Completed(u, c, k)
        BY <1>3 DEF Course
  <2>2. CASE Runs(u, c.desc)
        BY <1>3, <2>1, <2>2 DEF Completed, Counted, After
  <2>3. CASE ~Runs(u, c.desc)
        BY <1>3, <2>1, <2>3 DEF Completed, After
  <2> QED
      BY <2>2, <2>3
<1>4. CASE c.kind \in {"fail", "cancel"}
  <2>1. w = Stopped(u, c)
        BY <1>4 DEF Course
  <2>2. CASE Runs(u, c.desc)
    <3>1. w.status = EndStatus(c) /\ EndStatus(c) # "STARTED"
          BY <2>1, <2>2 DEF Stopped, WithStatus, EndStatus
    <3> QED
        BY <1>4, <3>1 DEF After, Runs, Running
  <2>3. CASE ~Runs(u, c.desc)
        BY <1>4, <2>1, <2>3 DEF Stopped, After
  <2> QED
      BY <2>2, <2>3
<1>5. CASE c.kind = "cleanup"
      BY <1>5 DEF After
<1> QED
    BY <1>1, <1>2, <1>3, <1>4, <1>5

\* What a command makes of a task: another run, a step of the run, or nothing
LEMMA CourseCases ==
  ASSUME NEW c \in Commands, NEW i \in TaskIds, NEW u \in OneTask, NEW w, Course(c, i, u, w)'
  PROVE  \/ w = u
         \/ Regards(c, i) /\ c.kind = "add" /\ w = Submission(c.desc)
         \/ /\ Regards(c, i) /\ c.kind = "complete" /\ Runs(u, c.desc)
            /\ \E k \in sizes'[c.desc] : w = Counted(u, c.node, k)
         \/ /\ Runs(u, c.desc) /\ w = WithStatus(u, EndStatus(c)) /\ Regards(c, i)
            /\ EndStatus(c) # "STARTED"
<1>1. CASE ~Regards(c, i)
      BY <1>1 DEF Course
<1>2. CASE Regards(c, i)
  <2>1. c.kind \in {"add", "cancel", "cleanup", "complete", "fail"}
        BY <1>2, RegardedDescriptor
  <2>2. CASE c.kind = "add"
        BY <1>2, <2>2 DEF Course
  <2>3. CASE c.kind = "complete"
        BY <1>2, <2>3 DEF Course, Completed
  <2>4. CASE c.kind \in {"fail", "cancel"}
        BY <1>2, <2>4 DEF Course, Stopped, EndStatus
  <2>5. CASE c.kind = "cleanup"
        BY <1>2, <2>5 DEF Course
  <2> QED
      BY <2>1, <2>2, <2>3, <2>4, <2>5
<1> QED
    BY <1>1, <1>2

LEMMA CountedIsTask ==
  ASSUME NEW u \in Tasks, NEW m \in Nodes, NEW k
  PROVE  Counted(u, m, k) # NoTask
<1>1. u.finishedNodes \cup {m} \in SUBSET Nodes
      BY DEF Tasks
<1>2. Counted(u, m, k) \in Tasks
      BY <1>1 DEF Counted, Tasks, Statuses
<1> QED
    BY <1>2, NoTaskAssumption

LEMMA EndedIsTask ==
  ASSUME NEW u \in Tasks, NEW c
  PROVE  WithStatus(u, EndStatus(c)) # NoTask
<1>1. WithStatus(u, EndStatus(c)) \in Tasks
      BY DEF WithStatus, Tasks, Statuses, EndStatus
<1> QED
    BY <1>1, NoTaskAssumption

LEMMA KeepsBehind ==
  ASSUME NEW c \in Commands, NEW i \in TaskIds, NEW u \in OneTask, NEW w, Course(c, i, u, w)',
         NEW b \in Commands, Regards(b, i), After(b, u)',
         c.kind = "add" => b.desc.version < c.desc.version
  PROVE  After(b, w)'
<1>1. /\ b.desc \in Descriptors /\ b.desc.version \in Nat
      /\ b.kind \in {"add", "cancel", "cleanup", "complete", "fail"}
      BY RegardedDescriptor
<1>2. CASE w = u
      BY <1>2
<1>3. CASE Regards(c, i) /\ c.kind = "add" /\ w = Submission(c.desc)
  <2>1. /\ w # NoTask /\ w.version = c.desc.version /\ c.desc.version \in Nat
        /\ b.desc.version < c.desc.version
        BY <1>3, RegardedDescriptor, SubmissionTypes DEF Submission
  <2>2. ~Runs(w, b.desc) /\ w.version >= b.desc.version
        BY <1>1, <2>1 DEF Runs
  <2> QED
      BY <1>1, <2>1, <2>2 DEF After
<1>4. CASE \E k \in sizes'[c.desc] : c.kind = "complete" /\ Runs(u, c.desc) /\ w = Counted(u, c.node, k)
  <2>1. PICK k \in sizes'[c.desc] : c.kind = "complete" /\ Runs(u, c.desc) /\ w = Counted(u, c.node, k)
        BY <1>4
  <2>2. /\ u # NoTask /\ w.version = u.version /\ u.finishedNodes \subseteq w.finishedNodes
        /\ u.status = "STARTED"
        BY <2>1 DEF Runs, Running, Counted
  <2>3. w # NoTask
    <3>1. u \in Tasks /\ c.node \in Nodes
          BY <2>1, CommandKinds DEF Runs, Running, OneTask
    <3> QED
        BY <2>1, <3>1, CountedIsTask
  <2>4. Runs(w, b.desc) => Runs(u, b.desc)
        BY <2>2 DEF Runs, Running
  <2> QED
      BY <1>1, <2>2, <2>3, <2>4 DEF After
<1>5. CASE Runs(u, c.desc) /\ w = WithStatus(u, EndStatus(c)) /\ EndStatus(c) # "STARTED"
  <2>1. u \in Tasks /\ w.version = u.version /\ w.status # "STARTED"
        BY <1>5 DEF Runs, Running, WithStatus, OneTask
  <2>2. w # NoTask
        BY <1>5, <2>1, EndedIsTask
  <2>3. ~Runs(w, b.desc)
        BY <2>1 DEF Runs, Running
  <2>4. u # NoTask
        BY <1>5 DEF Runs, Running
  <2> QED
      BY <1>1, <2>1, <2>2, <2>3, <2>4 DEF After
<1> QED
    BY <1>2, <1>3, <1>4, <1>5, CourseCases

LEMMA StaysOnCourse ==
  ASSUME NEW c \in Commands, NEW i \in TaskIds, NEW u \in OneTask, NEW w, Course(c, i, u, w)',
         OnCourse(i, u)', used'["adds"] \in Nat,
         c.kind = "add" => c.desc.version <= used'["adds"]
  PROVE  OnCourse(i, w)'
<1>1. CASE w = u
      BY <1>1
<1>2. CASE Regards(c, i) /\ c.kind = "add" /\ w = Submission(c.desc)
      BY <1>2 DEF OnCourse, Submission
<1>3. CASE \E k \in sizes'[c.desc] : Regards(c, i) /\ Runs(u, c.desc) /\ w = Counted(u, c.node, k)
  <2>1. PICK k \in sizes'[c.desc] : Regards(c, i) /\ Runs(u, c.desc) /\ w = Counted(u, c.node, k)
        BY <1>3
  <2>2. u # NoTask /\ w.version = u.version /\ u.version = c.desc.version
        BY <2>1 DEF Runs, Running, Counted
  <2>3. c.desc = DescOf(i, w)
    <3>1. c.desc = [id |-> i, version |-> c.desc.version]
          BY <2>1, RegardedDescriptor
    <3> QED
        BY <2>2, <3>1 DEF DescOf
  <2>4. w.status = "STARTED" => Cardinality(w.finishedNodes) # k
        BY <2>1 DEF Counted
  <2> QED
      BY <2>1, <2>2, <2>3, <2>4 DEF OnCourse
<1>4. CASE Runs(u, c.desc) /\ w = WithStatus(u, EndStatus(c)) /\ EndStatus(c) # "STARTED"
      BY <1>4 DEF OnCourse, WithStatus, Runs, Running
<1> QED
    BY <1>1, <1>2, <1>3, <1>4, CourseCases


(* The courses as they are remain so while more is remembered.               *)
LEMMA CoursesRemembered ==
  ASSUME Remembered, NEW end \in Nat, NEW log \in [1..end -> Commands], NEW course \in [0..end -> TaskMaps],
         Courses(end, log, course),
         \A d \in Descriptors : "added" \in verdicts'[d] => \E r \in 1..end : Adds(log[r], d)
  PROVE  Courses(end, log, course)'
<1>1. ASSUME NEW r \in 1..end, log[r].kind # "conf"
      PROVE  log[r].desc.version <= used'["adds"]
  <2>1. log[r] \in Commands
        OBVIOUS
  <2>2. log[r].desc.version \in Nat
        BY <1>1, <2>1, CommandKinds DEF Descriptors, Versions
  <2>3. log[r].desc.version <= used["adds"]
        BY <1>1 DEF Courses
  <2> QED
      BY <2>2, <2>3 DEF Remembered
<1>2. ASSUME NEW r \in 1..end, NEW i \in TaskIds
      PROVE  Course(log[r], i, course[r - 1][i], course[r][i])'
  <2>1. log[r] \in Commands /\ Course(log[r], i, course[r - 1][i], course[r][i])
        BY DEF Courses
  <2> QED
      BY <2>1, CourseRemembered
<1>3. ASSUME NEW q \in 0..end, NEW i \in TaskIds
      PROVE  OnCourse(i, course[q][i])'
  <2>1. course[q][i] \in OneTask /\ OnCourse(i, course[q][i])
        BY TaskOf DEF Courses
  <2> QED
      BY <2>1, OnCourseRemembered
<1>4. ASSUME NEW r \in 1..end, NEW q \in 1..end, NEW i \in TaskIds, r <= q, Regards(log[r], i)
      PROVE  After(log[r], course[q][i])'
  <2>1. log[r] \in Commands /\ After(log[r], course[q][i])
        BY <1>4 DEF Courses
  <2> QED
      BY <1>4, <2>1, AfterRemembered
<1> QED
    BY <1>1, <1>2, <1>3, <1>4 DEF Courses

LEMMA SubmittedBefore ==
  ASSUME Types, Sourced
  PROVE  \A d \in Mentioned : d \in Descriptors /\ d.version <= used["adds"]
<1> SUFFICES ASSUME NEW d \in Mentioned
             PROVE  d \in Descriptors /\ d.version <= used["adds"]
    OBVIOUS
<1>1. PICK n \in Nodes : d \in Listing(tasks[n]) \cup running[n] \cup completed[n] \cup toClean[n]
      BY DEF Mentioned
<1>2. d \in Added
      BY <1>1 DEF Sourced, SourcedAt, Held
<1>3. d \in Descriptors /\ "added" \in verdicts[d]
      BY <1>2 DEF Added
<1> QED
    BY <1>3 DEF Sourced

(* What is recorded of a submission comes with its command. *)
LEMMA NewVerdicts ==
  ASSUME NEW n \in Nodes, NEW c \in Commands, ApplyAt(n, c), NEW d \in Descriptors,
         "added" \in verdicts'[d]
  PROVE  "added" \in verdicts[d] \/ Adds(c, d)
BY DEF ApplyAt, Adds

Extends(end, log, course, c, longer, further) ==
  /\ longer \in [1..(end + 1) -> Commands]
  /\ further \in [0..(end + 1) -> TaskMaps]
  /\ \A k \in 1..end : longer[k] = log[k]
  /\ longer[end + 1] = c
  /\ \A q \in 0..end : further[q] = course[q]

LEMMA CourseGoesOn ==
  ASSUME Types, Types', Sourced, NEW c \in Commands, Execute(c),
         NEW end \in Nat, NEW log \in [1..end -> Commands], NEW course \in [0..end -> TaskMaps]
  PROVE  \E longer, further :
            /\ Extends(end, log, course, c, longer, further)
            /\ \A i \in TaskIds : further[end + 1][i]
                 = Advanced(c, i, course[end][i], Cardinality(conf[leader]), tasks'[leader])
<1> DEFINE next == [i \in TaskIds |-> Advanced(c, i, course[end][i], Cardinality(conf[leader]), tasks'[leader])]
           longer == [k \in 1..(end + 1) |-> IF k = end + 1 THEN c ELSE log[k]]
           further == [q \in 0..(end + 1) |-> IF q = end + 1 THEN next ELSE course[q]]
<1>1. next \in TaskMaps
  <2> SUFFICES ASSUME NEW i \in TaskIds
               PROVE  Advanced(c, i, course[end][i], Cardinality(conf[leader]), tasks'[leader])
                        \in Tasks \cup {NoTask}
      BY DEF TaskMaps
  <2> DEFINE u == course[end][i]
             k == Cardinality(conf[leader])
  <2>1. u \in OneTask
        BY TaskOf
  <2>2. CASE ~Regards(c, i)
        BY <2>1, <2>2 DEF Advanced, OneTask
  <2>3. CASE Regards(c, i) /\ c.kind = "add"
        BY <2>1, <2>3, RegardedDescriptor, SubmissionTypes DEF Advanced, OneTask
  <2>4. CASE Regards(c, i) /\ c.kind = "complete"
    <3>1. Advanced(c, i, u, k, tasks'[leader]) = Completed(u, c, k) /\ c.node \in Nodes
          BY <2>4, CommandKinds DEF Advanced
    <3>2. CASE Runs(u, c.desc)
      <4>1. u \in Tasks /\ u.finishedNodes \cup {c.node} \in SUBSET Nodes
            BY <2>1, <3>1, <3>2 DEF OneTask, Tasks, Runs, Running
      <4>2. Counted(u, c.node, k) \in Tasks
            BY <4>1 DEF Counted, Tasks, Statuses
      <4> QED
          BY <3>1, <3>2, <4>2 DEF Completed
    <3> QED
        BY <2>1, <3>1, <3>2 DEF Completed, OneTask
  <2>5. CASE Regards(c, i) /\ c.kind \in {"fail", "cancel"}
    <3>1. Advanced(c, i, u, k, tasks'[leader]) = Stopped(u, c)
          BY <2>5 DEF Advanced
    <3>2. CASE Runs(u, c.desc)
      <4>1. u \in Tasks
            BY <2>1, <3>2 DEF OneTask, Runs, Running
      <4>2. WithStatus(u, EndStatus(c)) \in Tasks
            BY <4>1 DEF WithStatus, Tasks, Statuses, EndStatus
      <4> QED
          BY <3>1, <3>2, <4>2 DEF Stopped
    <3> QED
        BY <2>1, <3>1, <3>2 DEF Stopped, OneTask
  <2>6. CASE Regards(c, i) /\ c.kind = "cleanup"
        BY <2>1, <2>6 DEF Advanced, OneTask
  <2> QED
      BY <2>2, <2>3, <2>4, <2>5, <2>6, RegardedDescriptor
<1>2. longer \in [1..(end + 1) -> Commands]
  <2> SUFFICES ASSUME NEW k \in 1..(end + 1), k # end + 1
               PROVE  log[k] \in Commands
      OBVIOUS
  <2>1. k \in 1..end
        OBVIOUS
  <2> QED
      BY <2>1
<1>3. further \in [0..(end + 1) -> TaskMaps]
  <2> HIDE DEF next
  <2> SUFFICES ASSUME NEW q \in 0..(end + 1), q # end + 1
               PROVE  course[q] \in TaskMaps
      BY <1>1
  <2>1. q \in 0..end
        OBVIOUS
  <2> QED
      BY <2>1
<1>4. end + 1 \in 1..(end + 1) /\ end + 1 \in 0..(end + 1)
      OBVIOUS
<1>5. longer[end + 1] = c /\ further[end + 1] = next
      BY <1>4
<1>6. ASSUME NEW k \in 1..end
      PROVE  longer[k] = log[k]
      OBVIOUS
<1>7. ASSUME NEW q \in 0..end
      PROVE  further[q] = course[q]
      OBVIOUS
<1>8. \A i \in TaskIds : next[i]
        = Advanced(c, i, course[end][i], Cardinality(conf[leader]), tasks'[leader])
      OBVIOUS
<1>9. Extends(end, log, course, c, longer, further)
  <2> HIDE DEF longer, further, next
  <2> QED
      BY <1>2, <1>3, <1>5, <1>6, <1>7 DEF Extends
<1> HIDE DEF longer, further, next
<1> QED
    BY <1>5, <1>8, <1>9

LEMMA CoursesExtended ==
  ASSUME Types, Types', Sourced, Remembered, NEW c \in Commands, Execute(c), Origin(c),
         NEW end \in Nat, NEW log \in [1..end -> Commands], NEW course \in [0..end -> TaskMaps],
         Courses(end, log, course),
         NEW longer, NEW further, Extends(end, log, course, c, longer, further),
         \A i \in TaskIds : further[end + 1][i]
            = Advanced(c, i, course[end][i], Cardinality(conf[leader]), tasks'[leader])
  PROVE  Courses(end + 1, longer, further)'
<1>1. /\ \A k \in 1..end : longer[k] = log[k] /\ log[k] \in Commands
      /\ longer[end + 1] = c
      /\ \A q \in 0..end : further[q] = course[q] /\ course[q] \in TaskMaps
      /\ \A q \in 0..(end + 1) : further[q] \in TaskMaps
      BY DEF Extends
<1>2. /\ \A r \in 1..(end + 1) : r = end + 1 \/ r \in 1..end
      /\ \A q \in 0..(end + 1) : q = end + 1 \/ q \in 0..end
      OBVIOUS
<1>3. /\ c.kind = "add" => c.desc.version = used["adds"] + 1 /\ used'["adds"] = used["adds"] + 1
      /\ c.kind # "conf" => c.desc \in Descriptors /\ c.desc.version <= used'["adds"]
      /\ used["adds"] \in Nat /\ used'["adds"] \in Nat
  <2>1. c.kind = "add" => c.desc.version = used["adds"] + 1 /\ used'["adds"] = used["adds"] + 1
        BY DEF Origin
  <2>2. used["adds"] \in Nat /\ used'["adds"] \in Nat /\ used["adds"] <= used'["adds"]
        BY DEF Remembered
  <2>3. ASSUME c.kind \notin {"add", "conf"}
        PROVE  c.desc.version <= used'["adds"]
    <3>1. c.desc \in Mentioned
          BY <2>3 DEF Origin
    <3>2. c.desc \in Descriptors /\ c.desc.version <= used["adds"]
          BY <3>1, SubmittedBefore
    <3> QED
        BY <2>2, <3>2 DEF Descriptors, Versions
  <2>4. c.kind # "conf" => c.desc \in Descriptors
        BY CommandKinds
  <2> QED
      BY <2>1, <2>2, <2>3, <2>4
<1>4. ASSUME NEW i \in TaskIds
      PROVE  /\ course[end][i] \in OneTask /\ OnCourse(i, course[end][i])
             /\ Course(c, i, course[end][i], further[end + 1][i])'
             /\ further[end + 1][i] \in OneTask
  <2>1. course[end][i] \in OneTask /\ OnCourse(i, course[end][i])
        BY TaskOf DEF Courses
  <2>2. further[end + 1][i] = Advanced(c, i, course[end][i], Cardinality(conf[leader]), tasks'[leader])
        OBVIOUS
  <2>3. Course(c, i, course[end][i], further[end + 1][i])'
        BY <2>1, <2>2, Advances
  <2>4. further[end + 1] \in TaskMaps
        BY <1>1
  <2> QED
      BY <2>1, <2>3, <2>4, TaskOf
<1>5. ASSUME NEW r \in 1..(end + 1), longer[r].kind # "conf"
      PROVE  longer[r].desc.version <= used'["adds"]
  <2>1. CASE r = end + 1
        BY <1>1, <1>3, <1>5, <2>1
  <2>2. CASE r \in 1..end
    <3>1. log[r].desc.version <= used["adds"]
          BY <1>1, <1>5, <2>2 DEF Courses
    <3>2. log[r].desc.version \in Nat
          BY <1>1, <1>5, <2>2, CommandKinds DEF Descriptors, Versions
    <3> QED
        BY <1>1, <2>2, <3>1, <3>2 DEF Remembered
  <2> QED
      BY <1>2, <2>1, <2>2
<1>6. ASSUME NEW r \in 1..(end + 1), NEW i \in TaskIds
      PROVE  Course(longer[r], i, further[r - 1][i], further[r][i])'
  <2>1. CASE r = end + 1
    <3>1. r - 1 = end /\ end \in 0..end
          BY <2>1
    <3>2. longer[r] = c /\ further[r - 1] = course[end]
          BY <1>1, <2>1, <3>1
    <3> QED
        BY <1>4, <2>1, <3>2
  <2>2. CASE r \in 1..end
    <3>1. r - 1 \in 0..end /\ r \in 0..end
          BY <2>2
    <3>2. Course(log[r], i, course[r - 1][i], course[r][i])
          BY <2>2 DEF Courses
    <3>3. Course(log[r], i, course[r - 1][i], course[r][i])'
          BY <1>1, <2>2, <3>2, CourseRemembered
    <3> QED
        BY <1>1, <2>2, <3>1, <3>3
  <2> QED
      BY <1>2, <2>1, <2>2
<1>7. ASSUME NEW q \in 0..(end + 1), NEW i \in TaskIds
      PROVE  OnCourse(i, further[q][i])'
  <2>1. CASE q = end + 1
    <3>1. OnCourse(i, course[end][i])'
          BY <1>4, OnCourseRemembered
    <3>2. OnCourse(i, further[end + 1][i])'
      <4>1. c.kind = "add" => c.desc.version <= used'["adds"]
            BY <1>3
      <4> QED
          BY <1>3, <1>4, <3>1, <4>1, StaysOnCourse
    <3> QED
        BY <2>1, <3>2
  <2>2. CASE q \in 0..end
    <3>1. course[q][i] \in OneTask /\ OnCourse(i, course[q][i])
          BY <1>1, <2>2, TaskOf DEF Courses
    <3>2. OnCourse(i, course[q][i])'
          BY <3>1, OnCourseRemembered
    <3> QED
        BY <1>1, <2>2, <3>2
  <2> QED
      BY <1>2, <2>1, <2>2
<1>8. ASSUME NEW r \in 1..(end + 1), NEW q \in 1..(end + 1), NEW i \in TaskIds, r <= q,
             Regards(longer[r], i)
      PROVE  After(longer[r], further[q][i])'
  <2>1. CASE r = end + 1
    <3>1. q = end + 1 /\ longer[r] = c
          BY <1>1, <1>8, <2>1
    <3>2. After(c, further[end + 1][i])'
          BY <1>4, <1>8, <3>1, HasBehind
    <3> QED
        BY <3>1, <3>2
  <2>2. CASE r \in 1..end /\ q = end + 1
    <3>1. longer[r] = log[r] /\ log[r] \in Commands /\ Regards(log[r], i)
          BY <1>1, <1>8, <2>2
    <3>2. After(log[r], course[end][i])
      <4>1. end \in 1..end /\ r <= end
            BY <2>2
      <4> QED
          BY <2>2, <3>1, <4>1 DEF Courses
    <3>3. After(log[r], course[end][i])'
          BY <3>1, <3>2, AfterRemembered
    <3>4. c.kind = "add" => log[r].desc.version < c.desc.version
      <4>1. log[r].kind # "conf"
            BY <3>1 DEF Regards
      <4>2. log[r].desc.version <= used["adds"]
            BY <2>2, <4>1 DEF Courses
      <4>3. log[r].desc.version \in Nat
            BY <3>1, RegardedDescriptor
      <4> QED
          BY <1>3, <4>2, <4>3
    <3>5. After(log[r], further[end + 1][i])'
          BY <1>4, <3>1, <3>3, <3>4, KeepsBehind
    <3> QED
        BY <2>2, <3>1, <3>5
  <2>3. CASE r \in 1..end /\ q \in 1..end
    <3>1. longer[r] = log[r] /\ log[r] \in Commands /\ Regards(log[r], i) /\ further[q] = course[q]
          BY <1>1, <1>8, <2>3
    <3>2. After(log[r], course[q][i])
          BY <1>8, <2>3, <3>1 DEF Courses
    <3>3. After(log[r], course[q][i])'
          BY <3>1, <3>2, AfterRemembered
    <3> QED
        BY <3>1, <3>3
  <2> QED
      BY <1>2, <2>1, <2>2, <2>3
<1>9. ASSUME NEW d \in Descriptors, "added" \in verdicts'[d]
      PROVE  \E r \in 1..(end + 1) : Adds(longer[r], d)
  <2>1. "added" \in verdicts[d] \/ Adds(c, d)
        BY <1>9, ExecuteIs, NewVerdicts
  <2>2. CASE "added" \in verdicts[d]
    <3>1. PICK r \in 1..end : Adds(log[r], d)
          BY <2>2 DEF Courses
    <3>2. r \in 1..(end + 1) /\ longer[r] = log[r]
          BY <1>1
    <3> QED
        BY <3>1, <3>2
  <2>3. CASE Adds(c, d)
    <3>1. end + 1 \in 1..(end + 1)
          OBVIOUS
    <3> QED
        BY <1>1, <2>3, <3>1
  <2> QED
      BY <2>1, <2>2, <2>3
<1> QED
    BY <1>5, <1>6, <1>7, <1>8, <1>9 DEF Courses

----------------------------------------------------------------------------
(* A node's tasks follow the course                                          *)

(* What a command does to the runs of a task that are before it: they are    *)
(* those there were, or gone.                                                *)
LEMMA RunsBefore ==
  ASSUME Types, Types', Remembered, NEW n \in Nodes, NEW c \in Commands, NEW i \in TaskIds, ApplyAt(n, c),
         NEW u, u # NoTask => \/ tasks[n][i] # NoTask /\ tasks[n][i].version = u.version
                              \/ DescOf(i, u) \in gone
  PROVE  u # NoTask => \/ tasks'[n][i] # NoTask /\ tasks'[n][i].version = u.version
                       \/ DescOf(i, u) \in gone'
<1> SUFFICES ASSUME u # NoTask
             PROVE  \/ tasks'[n][i] # NoTask /\ tasks'[n][i].version = u.version
                    \/ DescOf(i, u) \in gone'
    OBVIOUS
<1>1. CASE DescOf(i, u) \in gone
      BY <1>1 DEF Remembered
<1>2. CASE tasks[n][i] # NoTask /\ tasks[n][i].version = u.version
  <2>1. DescOf(i, u) = DescOf(i, tasks[n][i])
        BY <1>2 DEF DescOf
  <2> QED
      BY <1>2, <2>1, ReplacedIsGone
<1> QED
    BY <1>1, <1>2

LEMMA HeldMovesOn ==
  ASSUME Types, Types', Remembered, NEW n \in Nodes, NEW c \in Commands, NEW i \in TaskIds, ApplyAt(n, c),
         NEW end \in Nat, NEW course \in [0..end -> TaskMaps],
         NEW a \in Nat, NEW h \in Nat, a + 1 <= end, a + h <= end,
         HeldBetween(tasks[n][i], i, a, a + h, course, gone),
         Course(c, i, course[a][i], course[a + 1][i])',
         \A q \in (a + 1)..end : Regards(c, i) => After(c, course[q][i])',
         \A q \in 0..end : OnCourse(i, course[q][i])',
         Consistent(i)'
  PROVE  HeldBetween(tasks'[n][i], i, a + 1, a + 1 + (IF h = 0 THEN 0 ELSE h - 1), course, gone')
<1> DEFINE t == tasks[n][i]
           v == tasks'[n][i]
           high == a + 1 + (IF h = 0 THEN 0 ELSE h - 1)
<1>1. PICK m \in a..(a + h) : HeldAfter(t, i, m, course, gone)
      BY DEF HeldBetween
<1>2. /\ m \in 0..end /\ a \in 0..end /\ a + 1 \in 0..end
      /\ \A q \in 0..end : course[q][i] \in OneTask
  <2>1. m \in 0..end /\ a \in 0..end /\ a + 1 \in 0..end
        OBVIOUS
  <2> QED
      BY <2>1, TaskOf
<1>3. \A r \in 0..m : course[r][i] # NoTask => \/ v # NoTask /\ v.version = course[r][i].version
                                               \/ DescOf(i, course[r][i]) \in gone'
  <2> SUFFICES ASSUME NEW r \in 0..m
               PROVE  course[r][i] # NoTask => \/ v # NoTask /\ v.version = course[r][i].version
                                               \/ DescOf(i, course[r][i]) \in gone'
      OBVIOUS
  <2>1. course[r][i] # NoTask => \/ t # NoTask /\ t.version = course[r][i].version
                                 \/ DescOf(i, course[r][i]) \in gone
        BY <1>1 DEF HeldAfter
  <2> QED
      BY <2>1, RunsBefore
<1>4. Follow(t, course[m][i])
      BY <1>1 DEF HeldAfter
<1>5. CASE m = a
  <2> DEFINE w == course[a + 1][i]
  <2>1. Follow(v, w)
        BY <1>2, <1>4, <1>5, StepsTogether
  <2>2. w # NoTask => \/ v # NoTask /\ v.version = w.version
                      \/ DescOf(i, w) \in gone'
    <3> SUFFICES ASSUME w # NoTask
                 PROVE  \/ v # NoTask /\ v.version = w.version
                        \/ DescOf(i, w) \in gone'
        OBVIOUS
    <3>1. CASE v = w
          BY <3>1
    <3>2. CASE v # w
      <4>1. v = NoTask /\ ~Running(w)
            BY <2>1, <3>2 DEF Follow
      <4>2. course[a][i] # NoTask /\ w.version = course[a][i].version
        <5>1. w = Submission(c.desc) => Running(w)
              BY DEF Submission, Running
        <5>2. course[a][i] \in OneTask
              BY <1>2
        <5> QED
            BY <4>1, <5>1, <5>2, CourseVersions
      <4>3. DescOf(i, w) = DescOf(i, course[a][i])
            BY <4>2 DEF DescOf
      <4>4. a \in 0..m
            BY <1>5
      <4> QED
          BY <1>3, <4>1, <4>2, <4>3, <4>4
    <3> QED
        BY <3>1, <3>2
  <2>3. \A r \in 0..(a + 1) : course[r][i] # NoTask => \/ v # NoTask /\ v.version = course[r][i].version
                                                       \/ DescOf(i, course[r][i]) \in gone'
    <3>1. \A r \in 0..(a + 1) : r = a + 1 \/ r \in 0..m
          BY <1>5
    <3> QED
        BY <1>3, <2>2, <3>1
  <2>4. HeldAfter(v, i, a + 1, course, gone')
        BY <2>1, <2>3 DEF HeldAfter
  <2>5. a + 1 \in (a + 1)..high
        OBVIOUS
  <2> QED
      BY <2>4, <2>5 DEF HeldBetween
<1>6. CASE m # a
  <2>1. m \in (a + 1)..end /\ m \in (a + 1)..high /\ a + 1 \in (a + 1)..high /\ a + 1 <= m
        BY <1>6
  <2>2. \/ Follow(v, course[m][i])
        \/ /\ t = NoTask /\ Regards(c, i) /\ c.kind = "add"
           /\ v = Submission(c.desc) /\ "added" \in verdicts'[c.desc]
    <3>1. course[m][i] \in OneTask /\ OnCourse(i, course[m][i])'
          BY <1>2
    <3>2. Regards(c, i) => After(c, course[m][i])'
          BY <2>1
    <3> QED
        BY <1>4, <3>1, <3>2, Replays
  <2>3. CASE Follow(v, course[m][i])
    <3>1. HeldAfter(v, i, m, course, gone')
          BY <1>3, <2>3 DEF HeldAfter
    <3> QED
        BY <2>1, <3>1 DEF HeldBetween
  <2>4. CASE /\ t = NoTask /\ Regards(c, i) /\ c.kind = "add"
             /\ v = Submission(c.desc) /\ "added" \in verdicts'[c.desc]
    <3>1. c.desc \in Descriptors /\ c.desc.id = i
          BY <2>4, RegardedDescriptor
    <3>2. "refused" \notin verdicts'[c.desc]
      <4>1. verdicts'[c.desc] \in SUBSET {"added", "refused"}
            BY <3>1 DEF Types, HistoryTypes
      <4> QED
          BY <2>4, <3>1, <4>1 DEF Consistent
    <3>3. course[a + 1][i] = Submission(c.desc)
          BY <2>4, <3>2 DEF Course
    <3>4. \A r \in 0..(a + 1) : r \in 0..m
          BY <2>1
    <3>5. HeldAfter(v, i, a + 1, course, gone')
          BY <1>3, <2>4, <3>3, <3>4 DEF HeldAfter, Follow
    <3> QED
        BY <2>1, <3>5 DEF HeldBetween
  <2> QED
      BY <2>2, <2>3, <2>4
<1> QED
    BY <1>5, <1>6

(* What was held is held when more is gone, and along a longer course. *)
LEMMA HeldKeeps ==
  ASSUME NEW end \in Nat, NEW low, NEW high, NEW course, NEW longer, NEW t, NEW i, NEW lost, NEW more,
         low \in Nat, high \in Nat, high <= end, \A q \in 0..end : longer[q] = course[q], lost \subseteq more,
         HeldBetween(t, i, low, high, course, lost)
  PROVE  HeldBetween(t, i, low, high, longer, more)
<1>1. PICK m \in low..high : HeldAfter(t, i, m, course, lost)
      BY DEF HeldBetween
<1>2. m \in 0..end /\ \A r \in 0..m : r \in 0..end
      OBVIOUS
<1>3. HeldAfter(t, i, m, longer, more)
      BY <1>1, <1>2 DEF HeldAfter
<1> QED
    BY <1>1, <1>3 DEF HeldBetween

----------------------------------------------------------------------------
(* Sections of the log                                                       *)

LEMMA NoSection == ASSUME NEW log, NEW from PROVE Section(<<>>, log, from)
BY DEF Section

LEMMA SectionKept ==
  ASSUME NEW s \in Seq(Commands), NEW from \in Nat, NEW end \in Nat, from + Len(s) <= end,
         NEW log, NEW longer, \A k \in 1..end : longer[k] = log[k], Section(s, log, from)
  PROVE  Section(s, longer, from)
<1> SUFFICES ASSUME NEW k \in 1..Len(s)
             PROVE  s[k] = longer[from + k]
    BY DEF Section
<1>1. Len(s) \in Nat
      OBVIOUS
<1>2. from + k \in 1..end
      BY <1>1
<1> QED
    BY <1>2 DEF Section

LEMMA SectionAppended ==
  ASSUME NEW s \in Seq(Commands), NEW from \in Nat, NEW log, NEW c \in Commands,
         Section(s, log, from), log[from + Len(s) + 1] = c
  PROVE  Section(Append(s, c), log, from)
<1> SUFFICES ASSUME NEW k \in 1..Len(Append(s, c))
             PROVE  Append(s, c)[k] = log[from + k]
    BY DEF Section
<1>1. /\ Len(s) \in Nat /\ Len(Append(s, c)) = Len(s) + 1 /\ Append(s, c)[Len(s) + 1] = c
      /\ \A j \in 1..Len(s) : Append(s, c)[j] = s[j]
      BY Appended
<1>2. CASE k = Len(s) + 1
  <2>1. from + k = from + Len(s) + 1
        BY <1>1, <1>2
  <2> QED
      BY <1>1, <1>2, <2>1
<1>3. CASE k \in 1..Len(s)
      BY <1>1, <1>3 DEF Section
<1> QED
    BY <1>1, <1>2, <1>3

LEMMA SectionTail ==
  ASSUME NEW s \in Seq(Commands), s # <<>>, NEW from \in Nat, NEW log, Section(s, log, from)
  PROVE  Section(Tail(s), log, from + 1) /\ Head(s) = log[from + 1]
<1>1. /\ Head(s) = s[1] /\ Len(s) \in Nat /\ Len(s) >= 1 /\ Len(Tail(s)) = Len(s) - 1
      /\ \A k \in 1..Len(Tail(s)) : Tail(s)[k] = s[k + 1]
      BY HeadTail
<1>2. ASSUME NEW k \in 1..Len(Tail(s))
      PROVE  Tail(s)[k] = log[from + 1 + k]
  <2>1. k + 1 \in 1..Len(s) /\ from + (k + 1) = from + 1 + k
        BY <1>1
  <2>2. s[k + 1] = log[from + (k + 1)]
        BY <2>1 DEF Section
  <2> QED
      BY <1>1, <2>1, <2>2
<1>3. 1 \in 1..Len(s)
      BY <1>1
<1> QED
    BY <1>1, <1>2, <1>3 DEF Section

LEMMA SectionSuffix ==
  ASSUME NEW s \in Seq(Commands), NEW p \in Nat, p <= Len(s), NEW from \in Nat, NEW log,
         Section(s, log, from)
  PROVE  Section(SubSeq(s, Len(s) - p + 1, Len(s)), log, from + (Len(s) - p))
<1> DEFINE u == SubSeq(s, Len(s) - p + 1, Len(s))
<1>1. Len(s) \in Nat /\ Len(u) = p /\ \A k \in 1..p : u[k] = s[Len(s) - p + k]
      BY Suffix
<1>2. ASSUME NEW k \in 1..p
      PROVE  u[k] = log[from + (Len(s) - p) + k]
  <2>1. Len(s) - p + k \in 1..Len(s) /\ from + (Len(s) - p + k) = from + (Len(s) - p) + k
        BY <1>1
  <2>2. s[Len(s) - p + k] = log[from + (Len(s) - p + k)]
        BY <2>1 DEF Section
  <2> QED
      BY <1>1, <2>1, <2>2
<1> HIDE DEF u
<1> QED
    BY <1>1, <1>2 DEF Section

LEMMA SectionTogether ==
  ASSUME NEW s \in Seq(Commands), NEW t \in Seq(Commands), NEW from \in Nat, NEW log,
         Section(s, log, from), Section(t, log, from + Len(s))
  PROVE  Section(s \o t, log, from)
<1> SUFFICES ASSUME NEW k \in 1..Len(s \o t)
             PROVE  (s \o t)[k] = log[from + k]
    BY DEF Section
<1>1. \/ k \in 1..Len(s) /\ (s \o t)[k] = s[k]
      \/ \E j \in 1..Len(t) : k = Len(s) + j /\ (s \o t)[k] = t[j]
      BY OneOfTwo
<1>2. Len(s) \in Nat
      OBVIOUS
<1>3. CASE k \in 1..Len(s) /\ (s \o t)[k] = s[k]
      BY <1>3 DEF Section
<1>4. ASSUME NEW j \in 1..Len(t), k = Len(s) + j, (s \o t)[k] = t[j]
      PROVE  (s \o t)[k] = log[from + k]
  <2>1. t[j] = log[from + Len(s) + j]
        BY DEF Section
  <2>2. from + Len(s) + j = from + k
        BY <1>2, <1>4
  <2> QED
      BY <1>4, <2>1, <2>2
<1> QED
    BY <1>1, <1>3, <1>4

----------------------------------------------------------------------------
(* A node's step                                                             *)

LEMMA Sums ==
  /\ \A x, y \in Nat : x + y \in Nat
  /\ \A x, y, a, b, e \in Nat : (y = a - b /\ x = e - a /\ a <= e) => y + x = e - b /\ b <= e
  /\ \A x, y, e, f \in Nat : e <= f => (x + y <= e => x + y <= f) /\ (x <= e => x <= f)
OBVIOUS

LEMMA NodeTypes ==
  ASSUME Types, NEW n \in Nodes
  PROVE  /\ todo[n] \in Seq(Commands) /\ since[n] \in Seq(Commands)
         /\ Len(todo[n]) \in Nat /\ Len(since[n]) \in Nat
         /\ ahead[n] \in Nat /\ snap[n].ahead \in Nat
         /\ tasks[n] \in TaskMaps /\ snap[n].tasks \in TaskMaps
         /\ snap[n].stale \in SUBSET Descriptors /\ stale[n] \in SUBSET Descriptors
<1>1. todo[n] \in Seq(Commands) /\ since[n] \in Seq(Commands)
      BY DEF Types, LogTypes
<1>2. Len(todo[n]) \in Nat /\ Len(since[n]) \in Nat
      BY <1>1
<1> QED
    BY <1>1, <1>2 DEF Types, LogTypes, Snapshots

LEMMA ConsistentBefore ==
  ASSUME Types, Types', Remembered, NEW i, Consistent(i)'
  PROVE  Consistent(i)
<1> SUFFICES ASSUME NEW d \in Descriptors, d.id = i
             PROVE  /\ \A k, l \in sizes[d] : k = l
                    /\ verdicts[d] # {"added", "refused"}
    BY DEF Consistent
<1>1. /\ \A k, l \in sizes'[d] : k = l
      /\ verdicts'[d] # {"added", "refused"}
      BY DEF Consistent
<1>2. sizes[d] \subseteq sizes'[d] /\ verdicts[d] \subseteq verdicts'[d]
      BY DEF Remembered
<1>3. verdicts'[d] \in SUBSET {"added", "refused"}
      BY DEF Types, HistoryTypes
<1> QED
    BY <1>1, <1>2, <1>3

(* Where a node is in the log, in numbers: a is its place, b that of its snapshot. *)
PlacedAt(n, end, log, a, b) ==
  /\ a \in Nat /\ b \in Nat /\ a <= end
  /\ Len(todo[n]) = end - a /\ Len(since[n]) = a - b
  /\ Section(todo[n], log, a) /\ Section(since[n], log, b)
  /\ a + ahead[n] <= end /\ b + snap[n].ahead <= end

HeldAt(n, i, a, b, course) ==
  Consistent(i) =>
    /\ ~Concerns(stale[n], i) => HeldBetween(tasks[n][i], i, a, a + ahead[n], course, gone)
    /\ ~Concerns(snap[n].stale, i) =>
          HeldBetween(snap[n].tasks[i], i, b, b + snap[n].ahead, course, gone)

LEMMA InNumbers ==
  ASSUME Types, NEW n \in Nodes, NEW end \in Nat, NEW log, NEW course
  PROVE  /\ Placed(n, end, log) => PlacedAt(n, end, log, At(n, end), Base(n, end))
         /\ \A i \in TaskIds : InPlace(n, i, end, course) <=> HeldAt(n, i, At(n, end), Base(n, end), course)
<1>1. /\ Len(todo[n]) \in Nat /\ Len(since[n]) \in Nat /\ ahead[n] \in Nat /\ snap[n].ahead \in Nat
      BY NodeTypes
<1>2. ASSUME Placed(n, end, log)
      PROVE  PlacedAt(n, end, log, At(n, end), Base(n, end))
  <2> DEFINE a == At(n, end)
             b == Base(n, end)
  <2>1. /\ Len(since[n]) + Len(todo[n]) <= end
        /\ Section(todo[n], log, a) /\ Section(since[n], log, b)
        /\ ahead[n] <= Len(todo[n])
        /\ snap[n].ahead <= Len(since[n]) + Len(todo[n])
        BY <1>2 DEF Placed
  <2>2. \A x, y, g, h \in Nat :
          (y + x <= end /\ g <= x /\ h <= y + x)
            => /\ end - x \in Nat /\ end - x - y \in Nat /\ end - x <= end
               /\ x = end - (end - x) /\ y = (end - x) - (end - x - y)
               /\ (end - x) + g <= end /\ (end - x - y) + h <= end
        OBVIOUS
  <2>3. /\ a \in Nat /\ b \in Nat /\ a <= end
        /\ Len(todo[n]) = end - a /\ Len(since[n]) = a - b
        /\ a + ahead[n] <= end /\ b + snap[n].ahead <= end
        BY <1>1, <2>1, <2>2 DEF At, Base
  <2> QED
      BY <2>1, <2>3 DEF PlacedAt
<1> QED
    BY <1>2 DEF InPlace, HeldAt

LEMMA FromNumbers ==
  ASSUME Types, NEW n \in Nodes, NEW end \in Nat, NEW log, NEW course, NEW a, NEW b,
         PlacedAt(n, end, log, a, b), \A i \in TaskIds : HeldAt(n, i, a, b, course)
  PROVE  Placed(n, end, log) /\ \A i \in TaskIds : InPlace(n, i, end, course)
<1>1. /\ Len(todo[n]) \in Nat /\ Len(since[n]) \in Nat /\ ahead[n] \in Nat /\ snap[n].ahead \in Nat
      BY NodeTypes
<1>2. a = At(n, end) /\ b = Base(n, end)
      BY <1>1 DEF PlacedAt, At, Base
<1>3. Placed(n, end, log)
      BY <1>1, <1>2 DEF Placed, PlacedAt, At, Base
<1>4. ASSUME NEW i \in TaskIds
      PROVE  InPlace(n, i, end, course)
  <2>1. HeldAt(n, i, At(n, end), Base(n, end), course)
        BY <1>2
  <2> QED
      BY <2>1 DEF InPlace, HeldAt
<1> QED
    BY <1>3, <1>4

LEMMA NodeApplies ==
  ASSUME Types, Types', Remembered, NEW n \in Nodes, NEW c \in Commands, ApplyAt(n, c),
         snap'[n] = snap[n], stale'[n] = stale[n],
         NEW end \in Nat, NEW log \in [1..end -> Commands], NEW course \in [0..end -> TaskMaps],
         Courses(end, log, course)',
         NEW a \in Nat, NEW b \in Nat, a + 1 <= end, log[a + 1] = c,
         Len(since[n]) = a - b, Section(since[n], log, b),
         a + ahead[n] <= end, b + snap[n].ahead <= end,
         Len(todo'[n]) = end - (a + 1), Section(todo'[n], log, a + 1),
         \A i \in TaskIds : HeldAt(n, i, a, b, course)
  PROVE  PlacedAt(n, end, log, a + 1, b)' /\ \A i \in TaskIds : HeldAt(n, i, a + 1, b, course)'
<1>1. /\ since[n] \in Seq(Commands) /\ Len(since[n]) \in Nat /\ ahead[n] \in Nat /\ snap[n].ahead \in Nat
      BY NodeTypes
<1>2. since'[n] = Append(since[n], c) /\ ahead'[n] = IF ahead[n] = 0 THEN 0 ELSE ahead[n] - 1
      BY ApplyAtIs
<1>3. PlacedAt(n, end, log, a + 1, b)'
  <2>1. Len(since'[n]) = (a + 1) - b
    <3>1. Len(since'[n]) = Len(since[n]) + 1
          BY <1>1, <1>2, Appended
    <3>2. \A x, y \in Nat : \A z \in Nat : z = x - y => z + 1 = (x + 1) - y
          OBVIOUS
    <3> QED
        BY <3>1, <3>2
  <2>2. Section(since'[n], log, b)
    <3>1. b + Len(since[n]) + 1 = a + 1
          BY <1>1
    <3> QED
        BY <1>1, <1>2, <3>1, SectionAppended
  <2>3. (a + 1) + ahead'[n] <= end
        BY <1>1, <1>2
  <2>4. b + snap'[n].ahead <= end
        OBVIOUS
  <2> QED
      BY <2>1, <2>2, <2>3, <2>4 DEF PlacedAt
<1>4. ASSUME NEW i \in TaskIds
      PROVE  HeldAt(n, i, a + 1, b, course)'
  <2> SUFFICES ASSUME Consistent(i)'
               PROVE  /\ ~Concerns(stale'[n], i) =>
                           HeldBetween(tasks'[n][i], i, a + 1, a + 1 + ahead'[n], course, gone')
                      /\ ~Concerns(snap'[n].stale, i) =>
                           HeldBetween(snap'[n].tasks[i], i, b, b + snap'[n].ahead, course, gone')
      BY DEF HeldAt
  <2>1. Consistent(i) /\ HeldAt(n, i, a, b, course)
        BY ConsistentBefore
  <2>2. ASSUME ~Concerns(stale[n], i)
        PROVE  HeldBetween(tasks'[n][i], i, a + 1, a + 1 + ahead'[n], course, gone')
    <3>1. HeldBetween(tasks[n][i], i, a, a + ahead[n], course, gone)
          BY <2>1, <2>2 DEF HeldAt
    <3>2. Course(c, i, course[a][i], course[a + 1][i])'
      <4>1. a + 1 \in 1..end /\ (a + 1) - 1 = a
            OBVIOUS
      <4>2. Course(log[a + 1], i, course[(a + 1) - 1][i], course[a + 1][i])'
            BY <4>1 DEF Courses
      <4> QED
          BY <4>1, <4>2
    <3>3. \A q \in (a + 1)..end : Regards(c, i) => After(c, course[q][i])'
      <4> SUFFICES ASSUME NEW q \in (a + 1)..end, Regards(c, i)
                   PROVE  After(c, course[q][i])'
          OBVIOUS
      <4>1. a + 1 \in 1..end /\ q \in 1..end /\ a + 1 <= q
            OBVIOUS
      <4> QED
          BY <4>1 DEF Courses
    <3>4. \A q \in 0..end : OnCourse(i, course[q][i])'
          BY DEF Courses
    <3>5. HeldBetween(tasks'[n][i], i, a + 1, a + 1 + (IF ahead[n] = 0 THEN 0 ELSE ahead[n] - 1),
                      course, gone')
          BY <1>1, <3>1, <3>2, <3>3, <3>4, HeldMovesOn
    <3> QED
        BY <1>2, <3>5
  <2>3. ASSUME ~Concerns(snap[n].stale, i)
        PROVE  HeldBetween(snap[n].tasks[i], i, b, b + snap[n].ahead, course, gone')
    <3>1. HeldBetween(snap[n].tasks[i], i, b, b + snap[n].ahead, course, gone)
          BY <2>1, <2>3 DEF HeldAt
    <3>2. b + snap[n].ahead \in Nat
      <4>1. snap[n].ahead \in Nat
            BY <1>1
      <4> QED
          BY <4>1, Sums
    <3>3. gone \subseteq gone'
          BY DEF Remembered
    <3> QED
        BY <3>1, <3>2, <3>3, HeldKeeps
  <2> QED
      BY <2>2, <2>3
<1> QED
    BY <1>3, <1>4

Prolongs(end, log, course, later, longer, further) ==
  /\ end <= later
  /\ \A k \in 1..end : longer[k] = log[k]
  /\ \A q \in 0..end : further[q] = course[q]

(* A node that the step leaves alone, or for which it puts a command in the log. *)
LEMMA NodeStays ==
  ASSUME Types, Types', Remembered, NEW n \in Nodes,
         tasks'[n] = tasks[n], since'[n] = since[n], ahead'[n] = ahead[n],
         stale'[n] = stale[n], snap'[n] = snap[n],
         NEW end \in Nat, NEW log, NEW course, NEW a, NEW b,
         PlacedAt(n, end, log, a, b), \A i \in TaskIds : HeldAt(n, i, a, b, course),
         NEW later \in Nat, NEW longer, NEW further, Prolongs(end, log, course, later, longer, further),
         Len(todo'[n]) = later - a, Section(todo'[n], longer, a)
  PROVE  PlacedAt(n, later, longer, a, b)' /\ \A i \in TaskIds : HeldAt(n, i, a, b, further)'
<1>1. /\ since[n] \in Seq(Commands) /\ Len(since[n]) \in Nat /\ ahead[n] \in Nat /\ snap[n].ahead \in Nat
      BY NodeTypes
<1>2. /\ a \in Nat /\ b \in Nat /\ a <= end /\ Len(since[n]) = a - b /\ Section(since[n], log, b)
      /\ a + ahead[n] <= end /\ b + snap[n].ahead <= end
      BY DEF PlacedAt
<1>5. end <= later /\ (\A k \in 1..end : longer[k] = log[k]) /\ (\A q \in 0..end : further[q] = course[q])
      BY DEF Prolongs
<1>3. PlacedAt(n, later, longer, a, b)'
  <2>1. Section(since[n], longer, b)
    <3>1. b + Len(since[n]) <= end
          BY <1>1, <1>2
    <3> QED
        BY <1>1, <1>2, <1>5, <3>1, SectionKept
  <2>2. a <= later /\ a + ahead[n] <= later /\ b + snap[n].ahead <= later
    <3>1. /\ a \in Nat /\ b \in Nat /\ ahead[n] \in Nat /\ snap[n].ahead \in Nat /\ end <= later
          /\ a <= end /\ a + ahead[n] <= end /\ b + snap[n].ahead <= end
          BY <1>1, <1>2, <1>5
    <3> QED
        BY <3>1, Sums
  <2> QED
      BY <1>2, <2>1, <2>2 DEF PlacedAt
<1>4. ASSUME NEW i \in TaskIds
      PROVE  HeldAt(n, i, a, b, further)'
  <2> SUFFICES ASSUME Consistent(i)'
               PROVE  /\ ~Concerns(stale[n], i) =>
                           HeldBetween(tasks[n][i], i, a, a + ahead[n], further, gone')
                      /\ ~Concerns(snap[n].stale, i) =>
                           HeldBetween(snap[n].tasks[i], i, b, b + snap[n].ahead, further, gone')
      BY DEF HeldAt
  <2>1. Consistent(i) /\ HeldAt(n, i, a, b, course)
        BY ConsistentBefore
  <2>2. gone \subseteq gone'
        BY DEF Remembered
  <2>5. a + ahead[n] \in Nat /\ b + snap[n].ahead \in Nat
    <3>1. a \in Nat /\ b \in Nat /\ ahead[n] \in Nat /\ snap[n].ahead \in Nat
          BY <1>1, <1>2
    <3> QED
        BY <3>1, Sums
  <2>3. ASSUME ~Concerns(stale[n], i)
        PROVE  HeldBetween(tasks[n][i], i, a, a + ahead[n], further, gone')
    <3>1. HeldBetween(tasks[n][i], i, a, a + ahead[n], course, gone)
          BY <2>1, <2>3 DEF HeldAt
    <3> QED
        BY <1>2, <1>5, <2>2, <2>5, <3>1, HeldKeeps
  <2>4. ASSUME ~Concerns(snap[n].stale, i)
        PROVE  HeldBetween(snap[n].tasks[i], i, b, b + snap[n].ahead, further, gone')
    <3>1. HeldBetween(snap[n].tasks[i], i, b, b + snap[n].ahead, course, gone)
          BY <2>1, <2>4 DEF HeldAt
    <3> QED
        BY <1>2, <1>5, <2>2, <2>5, <3>1, HeldKeeps
  <2> QED
      BY <2>3, <2>4
<1> QED
    BY <1>3, <1>4

LEMMA NodePersists ==
  ASSUME Types, Types', Remembered, NEW n \in Nodes, Persist(n),
         NEW end \in Nat, NEW log, NEW course, NEW a, NEW b,
         PlacedAt(n, end, log, a, b), \A i \in TaskIds : HeldAt(n, i, a, b, course)
  PROVE  \E e \in Nat : PlacedAt(n, end, log, a, e)' /\ \A i \in TaskIds : HeldAt(n, i, a, e, course)'
<1>1. /\ todo[n] \in Seq(Commands) /\ since[n] \in Seq(Commands) /\ Len(since[n]) \in Nat
      /\ ahead[n] \in Nat
      BY NodeTypes
<1>2. /\ a \in Nat /\ b \in Nat /\ a <= end /\ Len(todo[n]) = end - a /\ Section(todo[n], log, a)
      /\ Len(since[n]) = a - b /\ Section(since[n], log, b) /\ a + ahead[n] <= end
      BY DEF PlacedAt
<1>3. PICK p \in Nat :
        /\ p <= Len(since[n])
        /\ snap'[n] = [tasks |-> tasks[n], ahead |-> p + ahead[n], stale |-> stale[n]]
        /\ since'[n] = SubSeq(since[n], Len(since[n]) - p + 1, Len(since[n]))
        /\ UNCHANGED <<tasks, todo, ahead, stale>>
      BY PersistIs
<1> DEFINE e == a - p
<1>4. e \in Nat /\ p = a - e /\ b + (Len(since[n]) - p) = e /\ e + (p + ahead[n]) = a + ahead[n]
  <2>1. \A x, y, z, k, g \in Nat :
          (z = x - y /\ k <= z) => /\ x - k \in Nat /\ k = x - (x - k)
                                   /\ y + (z - k) = x - k /\ (x - k) + (k + g) = x + g
        OBVIOUS
  <2> QED
      BY <1>1, <1>2, <1>3, <2>1
<1>5. snap'[n].tasks = tasks[n] /\ snap'[n].ahead = p + ahead[n] /\ snap'[n].stale = stale[n]
      BY <1>3
<1>6. PlacedAt(n, end, log, a, e)'
  <2>1. Len(since'[n]) = a - e
    <3>1. Len(since'[n]) = p
          BY <1>1, <1>3, Suffix
    <3> QED
        BY <1>4, <3>1
  <2>2. Section(since'[n], log, e)
        BY <1>1, <1>2, <1>3, <1>4, SectionSuffix
  <2>3. /\ todo'[n] = todo[n] /\ ahead'[n] = ahead[n]
        /\ e + snap'[n].ahead <= end
        BY <1>2, <1>3, <1>4, <1>5
  <2> QED
      BY <1>2, <1>4, <2>1, <2>2, <2>3 DEF PlacedAt
<1>7. ASSUME NEW i \in TaskIds
      PROVE  HeldAt(n, i, a, e, course)'
  <2> HIDE DEF e
  <2> SUFFICES ASSUME Consistent(i)'
               PROVE  /\ ~Concerns(stale'[n], i) =>
                           HeldBetween(tasks'[n][i], i, a, a + ahead'[n], course, gone')
                      /\ ~Concerns(snap'[n].stale, i) =>
                           HeldBetween(snap'[n].tasks[i], i, e, e + snap'[n].ahead, course, gone')
      BY DEF HeldAt
  <2>1. Consistent(i) /\ HeldAt(n, i, a, b, course)
        BY ConsistentBefore
  <2>2. ASSUME ~Concerns(stale[n], i)
        PROVE  /\ HeldBetween(tasks[n][i], i, a, a + ahead[n], course, gone')
               /\ HeldBetween(tasks[n][i], i, e, e + (p + ahead[n]), course, gone')
    <3>1. HeldBetween(tasks[n][i], i, a, a + ahead[n], course, gone)
          BY <2>1, <2>2 DEF HeldAt
    <3>2. a + ahead[n] \in Nat
      <4>1. a \in Nat /\ ahead[n] \in Nat
            BY <1>1, <1>2
      <4> QED
          BY <4>1, Sums
    <3>5. gone \subseteq gone'
          BY DEF Remembered
    <3>3. HeldBetween(tasks[n][i], i, a, a + ahead[n], course, gone')
          BY <1>2, <3>1, <3>2, <3>5, HeldKeeps
    <3>4. a..(a + ahead[n]) \subseteq e..(e + (p + ahead[n]))
      <4>1. a \in Nat /\ ahead[n] \in Nat /\ e \in Nat /\ p \in Nat
            BY <1>1, <1>2, <1>4
      <4>2. p = a - e /\ e + (p + ahead[n]) = a + ahead[n]
            BY <1>4
      <4>3. \A x, y, q, d \in Nat : q = x - y => x..d \subseteq y..d
            OBVIOUS
      <4> QED
          BY <3>2, <4>1, <4>2, <4>3
    <3> QED
        BY <3>3, <3>4 DEF HeldBetween
  <2>3. stale'[n] = stale[n] /\ tasks'[n] = tasks[n] /\ ahead'[n] = ahead[n]
        BY <1>3
  <2> QED
      BY <1>5, <2>2, <2>3
<1> QED
    BY <1>4, <1>6, <1>7

LEMMA NodeRestarts ==
  ASSUME Types, Types', Remembered, NEW n \in Nodes, Restart(n),
         NEW end \in Nat, NEW log, NEW course, NEW a, NEW b,
         PlacedAt(n, end, log, a, b), \A i \in TaskIds : HeldAt(n, i, a, b, course)
  PROVE  PlacedAt(n, end, log, b, b)' /\ \A i \in TaskIds : HeldAt(n, i, b, b, course)'
<1>1. /\ todo[n] \in Seq(Commands) /\ since[n] \in Seq(Commands) /\ Len(since[n]) \in Nat
      /\ Len(todo[n]) \in Nat /\ snap[n].ahead \in Nat
      BY NodeTypes
<1>2. /\ a \in Nat /\ b \in Nat /\ a <= end /\ Len(todo[n]) = end - a /\ Section(todo[n], log, a)
      /\ Len(since[n]) = a - b /\ Section(since[n], log, b) /\ b + snap[n].ahead <= end
      BY DEF PlacedAt
<1>3. /\ tasks'[n] = snap[n].tasks /\ todo'[n] = since[n] \o todo[n] /\ since'[n] = <<>>
      /\ ahead'[n] = snap[n].ahead /\ stale'[n] = snap[n].stale /\ snap' = snap
      BY RestartIs
<1>4. PlacedAt(n, end, log, b, b)'
  <2>1. Len(todo'[n]) = end - b /\ b <= end
    <3>1. Len(todo'[n]) = Len(since[n]) + Len(todo[n])
          BY <1>1, <1>3, Concatenated
    <3>2. /\ Len(since[n]) \in Nat /\ Len(todo[n]) \in Nat /\ a \in Nat /\ b \in Nat /\ a <= end
          /\ Len(since[n]) = a - b /\ Len(todo[n]) = end - a
          BY <1>1, <1>2
    <3>3. Len(since[n]) + Len(todo[n]) = end - b /\ b <= end
          BY <3>2, Sums
    <3> QED
        BY <3>1, <3>3
  <2>2. Section(todo'[n], log, b)
    <3>1. b + Len(since[n]) = a
          BY <1>1, <1>2
    <3> QED
        BY <1>1, <1>2, <1>3, <3>1, SectionTogether
  <2>3. Len(since'[n]) = b - b /\ Section(since'[n], log, b)
        BY <1>2, <1>3, NoSection
  <2> QED
      BY <1>2, <1>3, <2>1, <2>2, <2>3 DEF PlacedAt
<1>5. ASSUME NEW i \in TaskIds
      PROVE  HeldAt(n, i, b, b, course)'
  <2> SUFFICES ASSUME Consistent(i)', ~Concerns(snap[n].stale, i)
               PROVE  HeldBetween(snap[n].tasks[i], i, b, b + snap[n].ahead, course, gone')
      BY <1>3 DEF HeldAt
  <2>1. Consistent(i) /\ HeldAt(n, i, a, b, course)
        BY ConsistentBefore
  <2>2. HeldBetween(snap[n].tasks[i], i, b, b + snap[n].ahead, course, gone)
        BY <2>1 DEF HeldAt
  <2>3. b + snap[n].ahead \in Nat
    <3>1. b \in Nat /\ snap[n].ahead \in Nat
          BY <1>1, <1>2
    <3> QED
        BY <3>1, Sums
  <2>4. gone \subseteq gone'
        BY DEF Remembered
  <2> QED
      BY <1>2, <2>2, <2>3, <2>4, HeldKeeps
<1> QED
    BY <1>4, <1>5

(* The leader's snapshot, restored over what the node has.                   *)
LEMMA NodeInstalls ==
  ASSUME Types, Types', Remembered, NEW n \in Nodes, InstallSnapshot(n),
         NEW end \in Nat, NEW log, NEW course, NEW a, NEW b,
         PlacedAt(leader, end, log, a, b), \A i \in TaskIds : HeldAt(leader, i, a, b, course)
  PROVE  PlacedAt(n, end, log, b, b)' /\ \A i \in TaskIds : HeldAt(n, i, b, b, course)'
<1> DEFINE l == leader
           ts == snap[l].tasks
<1>0. l \in Nodes
      BY InstallIs
<1>1. /\ todo[l] \in Seq(Commands) /\ since[l] \in Seq(Commands) /\ Len(since[l]) \in Nat
      /\ Len(todo[l]) \in Nat /\ snap[l].ahead \in Nat /\ ts \in TaskMaps /\ tasks[n] \in TaskMaps
      BY <1>0, NodeTypes
<1>2. /\ a \in Nat /\ b \in Nat /\ a <= end /\ Len(todo[l]) = end - a /\ Section(todo[l], log, a)
      /\ Len(since[l]) = a - b /\ Section(since[l], log, b) /\ b + snap[l].ahead <= end
      BY DEF PlacedAt
<1>3. /\ tasks'[n] = Restore(tasks[n], ts)
      /\ todo'[n] = since[l] \o todo[l] /\ since'[n] = <<>>
      /\ ahead'[n] = snap[l].ahead
      /\ stale'[n] = snap[l].stale
            \cup ((Listing(tasks[n]) \cap Listing(tasks'[n])) \ Listing(ts))
      /\ snap'[n] = snap[l]
      BY InstallIs
<1>4. PlacedAt(n, end, log, b, b)'
  <2>1. Len(todo'[n]) = end - b /\ b <= end
    <3>1. Len(todo'[n]) = Len(since[l]) + Len(todo[l])
          BY <1>1, <1>3, Concatenated
    <3>2. /\ Len(since[l]) \in Nat /\ Len(todo[l]) \in Nat /\ a \in Nat /\ b \in Nat /\ a <= end
          /\ Len(since[l]) = a - b /\ Len(todo[l]) = end - a
          BY <1>1, <1>2
    <3>3. Len(since[l]) + Len(todo[l]) = end - b /\ b <= end
          BY <3>2, Sums
    <3> QED
        BY <3>1, <3>3
  <2>2. Section(todo'[n], log, b)
    <3>1. b + Len(since[l]) = a
          BY <1>1, <1>2
    <3> QED
        BY <1>1, <1>2, <1>3, <3>1, SectionTogether
  <2>3. Len(since'[n]) = b - b /\ Section(since'[n], log, b)
        BY <1>2, <1>3, NoSection
  <2> QED
      BY <1>2, <1>3, <2>1, <2>2, <2>3 DEF PlacedAt
<1>5. ASSUME NEW i \in TaskIds
      PROVE  HeldAt(n, i, b, b, course)'
  <2> SUFFICES ASSUME Consistent(i)'
               PROVE  /\ ~Concerns(stale'[n], i) =>
                           HeldBetween(tasks'[n][i], i, b, b + snap[l].ahead, course, gone')
                      /\ ~Concerns(snap[l].stale, i) =>
                           HeldBetween(ts[i], i, b, b + snap[l].ahead, course, gone')
      BY <1>3 DEF HeldAt
  <2>1. Consistent(i) /\ HeldAt(l, i, a, b, course)
        BY ConsistentBefore
  <2>2. ASSUME ~Concerns(snap[l].stale, i)
        PROVE  HeldBetween(ts[i], i, b, b + snap[l].ahead, course, gone')
    <3>1. HeldBetween(ts[i], i, b, b + snap[l].ahead, course, gone)
          BY <2>1, <2>2 DEF HeldAt
    <3>2. b + snap[l].ahead \in Nat
      <4>1. b \in Nat /\ snap[l].ahead \in Nat
            BY <1>1, <1>2
      <4> QED
          BY <4>1, Sums
    <3>3. gone \subseteq gone'
          BY DEF Remembered
    <3> QED
        BY <1>2, <3>1, <3>2, <3>3, HeldKeeps
  <2>3. ASSUME ~Concerns(stale'[n], i)
        PROVE  ~Concerns(snap[l].stale, i) /\ tasks'[n][i] = ts[i]
    <3>1. ~Concerns(snap[l].stale, i)
          BY <1>3, <2>3 DEF Concerns
    <3>4. tasks'[n][i] = IF ts[i] # NoTask THEN ts[i] ELSE tasks[n][i]
          BY <1>3 DEF Restore
    <3>2. CASE ts[i] # NoTask
          BY <3>1, <3>2, <3>4
    <3>3. CASE ts[i] = NoTask
      <4>1. tasks'[n][i] = tasks[n][i]
            BY <3>3, <3>4
      <4>2. CASE tasks[n][i] = NoTask
            BY <3>1, <3>3, <4>1, <4>2
      <4>3. CASE tasks[n][i] # NoTask
        <5> DEFINE d == DescOf(i, tasks[n][i])
        <5>1. d \in Listing(tasks[n]) /\ d \in Listing(tasks'[n]) /\ d.id = i
              BY <4>1, <4>3 DEF Listing, Present, DescOf
        <5>2. d \in Descriptors
              BY <1>1, <4>3, TaskOf
        <5>3. d \notin Listing(ts)
              BY <1>1, <3>3, <5>1, <5>2, Listed DEF Find
        <5>4. d \in stale'[n]
              BY <1>3, <5>1, <5>3
        <5> QED
            BY <2>3, <5>1, <5>4 DEF Concerns
      <4> QED
          BY <4>2, <4>3
    <3> QED
        BY <3>1, <3>2, <3>3
  <2> QED
      BY <2>2, <2>3
<1> QED
    BY <1>4, <1>5

----------------------------------------------------------------------------
(* There is one log and one course of every task along it                    *)

Along(n, end, log, course) ==
  Placed(n, end, log) /\ \A i \in TaskIds : InPlace(n, i, end, course)

LEMMA AlongInNumbers ==
  ASSUME Types, NEW n \in Nodes, NEW end \in Nat, NEW log, NEW course, Along(n, end, log, course)
  PROVE  /\ PlacedAt(n, end, log, At(n, end), Base(n, end))
         /\ \A i \in TaskIds : HeldAt(n, i, At(n, end), Base(n, end), course)
BY InNumbers DEF Along

LEMMA AlongNext ==
  ASSUME Types', NEW n \in Nodes, NEW end \in Nat, NEW log, NEW course, NEW a, NEW b,
         PlacedAt(n, end, log, a, b)', \A i \in TaskIds : HeldAt(n, i, a, b, course)'
  PROVE  Along(n, end, log, course)'
<1>1. todo'[n] \in Seq(Commands) /\ since'[n] \in Seq(Commands) /\ ahead'[n] \in Nat /\ snap'[n].ahead \in Nat
      BY DEF Types, LogTypes, Snapshots
<1>2. Len(todo'[n]) \in Nat /\ Len(since'[n]) \in Nat
      BY <1>1
<1>3. /\ a \in Nat /\ b \in Nat /\ a <= end
      /\ Len(todo'[n]) = end - a /\ Len(since'[n]) = a - b
      /\ Section(todo'[n], log, a) /\ Section(since'[n], log, b)
      /\ a + ahead'[n] <= end /\ b + snap'[n].ahead <= end
      BY DEF PlacedAt
<1>4. end - Len(todo'[n]) = a /\ end - Len(todo'[n]) - Len(since'[n]) = b
      BY <1>2, <1>3
<1>5. a = At(n, end)' /\ b = Base(n, end)'
      BY <1>4 DEF At, Base
<1>6. Placed(n, end, log)'
  <2>1. /\ Len(since'[n]) + Len(todo'[n]) <= end
        /\ ahead'[n] <= Len(todo'[n])
        /\ snap'[n].ahead <= Len(since'[n]) + Len(todo'[n])
    <3>1. \A x, y, g, h \in Nat :
            (x = end - a /\ y = a - b /\ a + g <= end /\ b + h <= end)
              => y + x <= end /\ g <= x /\ h <= y + x
          BY <1>3
    <3> QED
        BY <1>1, <1>2, <1>3, <3>1
  <2> QED
      BY <1>3, <1>4, <2>1 DEF Placed, At, Base
<1>7. ASSUME NEW i \in TaskIds
      PROVE  InPlace(n, i, end, course)'
  <2>1. HeldAt(n, i, a, b, course)'
        OBVIOUS
  <2> QED
      BY <1>4, <2>1 DEF InPlace, HeldAt, At, Base
<1> QED
    BY <1>6, <1>7 DEF Along

LEMMA Unmoved ==
  ASSUME Types, Types', Remembered, NEW n \in Nodes,
         tasks'[n] = tasks[n], todo'[n] = todo[n], since'[n] = since[n], ahead'[n] = ahead[n],
         stale'[n] = stale[n], snap'[n] = snap[n],
         NEW end \in Nat, NEW log, NEW course, Along(n, end, log, course)
  PROVE  Along(n, end, log, course)'
<1>1. PICK a, b : PlacedAt(n, end, log, a, b) /\ \A i \in TaskIds : HeldAt(n, i, a, b, course)
      BY AlongInNumbers
<1>2. /\ Len(todo'[n]) = end - a /\ Section(todo'[n], log, a)
      /\ Prolongs(end, log, course, end, log, course)
      BY <1>1 DEF PlacedAt, Prolongs
<1>3. PlacedAt(n, end, log, a, b)' /\ \A i \in TaskIds : HeldAt(n, i, a, b, course)'
      BY <1>1, <1>2, NodeStays
<1> QED
    BY <1>3, AlongNext

(* A command is put in the log, and the leader applies it. *)
LEMMA ExecuteAlong ==
  ASSUME Types, Types', Sourced, Remembered, NEW c \in Commands, Execute(c), Origin(c),
         NEW end \in Nat, NEW log \in [1..end -> Commands], NEW course \in [0..end -> TaskMaps],
         ReplayedAlong(end, log, course)
  PROVE  Replayed'
<1>1. PICK longer, further :
        /\ Extends(end, log, course, c, longer, further)
        /\ \A i \in TaskIds : further[end + 1][i]
             = Advanced(c, i, course[end][i], Cardinality(conf[leader]), tasks'[leader])
      BY CourseGoesOn
<1>0. PICK later \in Nat : later = end + 1
      OBVIOUS
<1>2. Courses(later, longer, further)'
      BY <1>0, <1>1, CoursesExtended DEF ReplayedAlong
<1>3. /\ longer \in [1..later -> Commands] /\ further \in [0..later -> TaskMaps]
      /\ \A k \in 1..end : longer[k] = log[k]
      /\ longer[later] = c
      /\ \A q \in 0..end : further[q] = course[q]
      /\ later \in Nat /\ end <= later /\ later <= later /\ end + 1 = later
      BY <1>0, <1>1 DEF Extends
<1>4. /\ leader \in Nodes /\ todo[leader] = <<>> /\ ApplyAt(leader, c)
      /\ todo'[leader] = <<>>
      /\ \A m \in Nodes \ {leader} : todo'[m] = Append(todo[m], c)
      /\ snap' = snap /\ stale' = stale
      BY ExecuteIs
<1>5. ASSUME NEW n \in Nodes, n # leader
      PROVE  Along(n, later, longer, further)'
  <2>1. Along(n, end, log, course)
        BY DEF ReplayedAlong, Along
  <2>2. PICK a, b : PlacedAt(n, end, log, a, b) /\ \A i \in TaskIds : HeldAt(n, i, a, b, course)
        BY <2>1, AlongInNumbers
  <2>3. n \in Nodes \ {leader}
        BY <1>5
  <2>4. /\ tasks'[n] = tasks[n] /\ since'[n] = since[n] /\ ahead'[n] = ahead[n]
        /\ todo'[n] = Append(todo[n], c) /\ snap'[n] = snap[n] /\ stale'[n] = stale[n]
        BY <1>4, <2>3, ApplyAtIs
  <2>5. /\ todo[n] \in Seq(Commands) /\ Len(todo[n]) \in Nat
        /\ Len(Append(todo[n], c)) = Len(todo[n]) + 1
        BY NodeTypes, Appended
  <2>6. a \in Nat /\ a <= end /\ Len(todo[n]) = end - a /\ Section(todo[n], log, a)
        BY <2>2 DEF PlacedAt
  <2>7. Len(todo'[n]) = later - a /\ a + Len(todo[n]) <= end /\ a + Len(todo[n]) + 1 = later
    <3>1. \A x, y, z \in Nat : (y <= x /\ z = x - y)
            => z + 1 = (x + 1) - y /\ y + z <= x /\ y + z + 1 = x + 1
          OBVIOUS
    <3>2. /\ Len(todo[n]) + 1 = (end + 1) - a /\ a + Len(todo[n]) <= end
          /\ a + Len(todo[n]) + 1 = end + 1
          BY <2>5, <2>6, <3>1
    <3> QED
        BY <1>3, <2>4, <2>5, <3>2
  <2>8. Section(todo[n], longer, a)
        BY <1>3, <2>5, <2>6, <2>7, SectionKept
  <2>9. Section(todo'[n], longer, a)
    <3>1. longer[a + Len(todo[n]) + 1] = c
          BY <1>3, <2>7
    <3> QED
        BY <2>4, <2>5, <2>6, <2>8, <3>1, SectionAppended
  <2>10. PlacedAt(n, later, longer, a, b)' /\ \A i \in TaskIds : HeldAt(n, i, a, b, further)'
    <3>1. later \in Nat /\ Prolongs(end, log, course, later, longer, further)
          BY <1>3 DEF Prolongs
    <3>2. Len(todo'[n]) = later - a
          BY <2>7
    <3> QED
        BY <2>2, <2>4, <2>9, <3>1, <3>2, NodeStays
  <2> QED
      BY <1>3, <2>10, AlongNext
<1>6. ASSUME NEW l \in Nodes, l = leader
      PROVE  Along(l, later, longer, further)'
  <2>0. ApplyAt(l, c) /\ todo[l] = <<>> /\ todo'[l] = <<>>
        BY <1>4, <1>6
  <2>1. Along(l, end, log, course)
        BY DEF ReplayedAlong, Along
  <2>2. PICK a, b : /\ PlacedAt(l, end, log, a, b)
                    /\ \A i \in TaskIds : HeldAt(l, i, a, b, course)
        BY <2>1, AlongInNumbers
  <2>3. /\ a \in Nat /\ b \in Nat /\ Len(since[l]) = a - b /\ Section(since[l], log, b) /\ a <= end
        /\ Len(todo[l]) = end - a /\ a + ahead[l] <= end /\ b + snap[l].ahead <= end
        BY <2>2 DEF PlacedAt
  <2>4. a = end
        BY <2>0, <2>3
  <2>5. /\ since[l] \in Seq(Commands) /\ Len(since[l]) \in Nat /\ ahead[l] \in Nat /\ snap[l].ahead \in Nat
        BY NodeTypes
  <2>6. Section(since[l], longer, b)
    <3>1. b + Len(since[l]) <= end
          BY <2>3, <2>5
    <3> QED
        BY <1>3, <2>3, <2>5, <3>1, SectionKept
  <2>7. a + ahead[l] <= later /\ b + snap[l].ahead <= later
    <3>1. /\ a \in Nat /\ b \in Nat /\ ahead[l] \in Nat /\ snap[l].ahead \in Nat
          /\ a + ahead[l] <= end /\ b + snap[l].ahead <= end /\ end <= later
          BY <1>3, <2>3, <2>5
    <3> QED
        BY <3>1, Sums
  <2>8. Len(todo'[l]) = later - (a + 1) /\ Section(todo'[l], longer, a + 1)
    <3>1. Len(todo'[l]) = 0 /\ later - (a + 1) = 0
          BY <1>3, <2>0, <2>4
    <3> QED
        BY <2>0, <3>1, NoSection
  <2>9. ASSUME NEW i \in TaskIds
        PROVE  HeldAt(l, i, a, b, further)
    <3>1. HeldAt(l, i, a, b, course)
          BY <2>2
    <3>2. a + ahead[l] \in Nat /\ b + snap[l].ahead \in Nat
      <4>1. a \in Nat /\ b \in Nat /\ ahead[l] \in Nat /\ snap[l].ahead \in Nat
            BY <2>3, <2>5
      <4> QED
          BY <4>1, Sums
    <3>3. ASSUME Consistent(i), ~Concerns(stale[l], i)
          PROVE  HeldBetween(tasks[l][i], i, a, a + ahead[l], further, gone)
      <4>1. HeldBetween(tasks[l][i], i, a, a + ahead[l], course, gone)
            BY <3>1, <3>3 DEF HeldAt
      <4> QED
          BY <1>3, <2>3, <3>2, <4>1, HeldKeeps
    <3>4. ASSUME Consistent(i), ~Concerns(snap[l].stale, i)
          PROVE  HeldBetween(snap[l].tasks[i], i, b, b + snap[l].ahead, further, gone)
      <4>1. HeldBetween(snap[l].tasks[i], i, b, b + snap[l].ahead, course, gone)
            BY <3>1, <3>4 DEF HeldAt
      <4> QED
          BY <1>3, <2>3, <3>2, <4>1, HeldKeeps
    <3> QED
        BY <3>3, <3>4 DEF HeldAt
  <2>10. longer[a + 1] = c /\ a + 1 <= later
        BY <1>3, <2>4
  <2>11. snap'[l] = snap[l] /\ stale'[l] = stale[l]
        BY <1>4
  <2>12. PlacedAt(l, later, longer, a + 1, b)' /\ \A i \in TaskIds : HeldAt(l, i, a + 1, b, further)'
    <3>1. later \in Nat /\ longer \in [1..later -> Commands] /\ further \in [0..later -> TaskMaps]
          BY <1>3
    <3>2. ApplyAt(l, c)
          BY <2>0
    <3>3. a \in Nat /\ b \in Nat /\ Len(since[l]) = a - b
          BY <2>3
    <3> QED
        BY <1>2, <2>6, <2>7, <2>8, <2>9, <2>10, <2>11, <3>1, <3>2, <3>3, NodeApplies
  <2> QED
      BY <1>3, <2>12, AlongNext
<1>7. ReplayedAlong(later, longer, further)'
  <2>1. ASSUME NEW n \in Nodes
        PROVE  Along(n, later, longer, further)'
        BY <1>5, <1>6
  <2> QED
      BY <1>2, <2>1 DEF ReplayedAlong, Along
<1> QED
    BY <1>3, <1>7 DEF Replayed

(* A node applies what is next in the log. *)
LEMMA ApplyAlong ==
  ASSUME Types, Types', Remembered, NEW n \in Nodes, Apply(n),
         NEW end \in Nat, NEW log \in [1..end -> Commands], NEW course \in [0..end -> TaskMaps],
         ReplayedAlong(end, log, course)
  PROVE  Replayed'
<1> DEFINE c == Head(todo[n])
<1>1. /\ todo[n] \in Seq(Commands) /\ todo[n] # <<>> /\ c \in Commands /\ ApplyAt(n, c)
      /\ todo'[n] = Tail(todo[n])
      /\ \A m \in Nodes \ {n} : todo'[m] = todo[m]
      /\ snap' = snap /\ stale' = stale
      BY ApplyIs
<1>2. PICK a, b : PlacedAt(n, end, log, a, b) /\ \A i \in TaskIds : HeldAt(n, i, a, b, course)
  <2>1. Along(n, end, log, course)
        BY DEF ReplayedAlong, Along
  <2> QED
      BY <2>1, AlongInNumbers
<1>3. /\ a \in Nat /\ b \in Nat /\ a <= end /\ Len(since[n]) = a - b /\ Section(since[n], log, b)
      /\ Len(todo[n]) = end - a /\ Section(todo[n], log, a)
      /\ a + ahead[n] <= end /\ b + snap[n].ahead <= end
      BY <1>2 DEF PlacedAt
<1>4. Len(todo[n]) \in Nat /\ Len(todo[n]) >= 1 /\ Len(Tail(todo[n])) = Len(todo[n]) - 1
      BY <1>1, HeadTail
<1>5. Section(Tail(todo[n]), log, a + 1) /\ c = log[a + 1]
      BY <1>1, <1>3, SectionTail
<1>6. a + 1 <= end /\ Len(todo'[n]) = end - (a + 1)
  <2>1. \A x \in Nat : (x >= 1 /\ x = end - a) => a + 1 <= end /\ x - 1 = end - (a + 1)
        BY <1>3
  <2> QED
      BY <1>1, <1>3, <1>4, <2>1
<1> HIDE DEF c
<1>7. Courses(end, log, course)'
  <2>1. \A d \in Descriptors : "added" \in verdicts'[d] => \E r \in 1..end : Adds(log[r], d)
    <3> SUFFICES ASSUME NEW d \in Descriptors, "added" \in verdicts'[d]
                 PROVE  \E r \in 1..end : Adds(log[r], d)
        OBVIOUS
    <3>1. CASE "added" \in verdicts[d]
          BY <3>1 DEF ReplayedAlong, Courses
    <3>2. CASE Adds(c, d)
      <4>1. a + 1 \in 1..end
            BY <1>3, <1>6
      <4> QED
          BY <1>5, <3>2, <4>1
    <3> QED
        BY <1>1, <3>1, <3>2, NewVerdicts
  <2> QED
      BY <2>1, CoursesRemembered DEF ReplayedAlong
<1>8. PlacedAt(n, end, log, a + 1, b)' /\ \A i \in TaskIds : HeldAt(n, i, a + 1, b, course)'
  <2>1. /\ a \in Nat /\ b \in Nat /\ Len(since[n]) = a - b /\ Section(since[n], log, b)
        /\ a + ahead[n] <= end /\ b + snap[n].ahead <= end
        BY <1>3
  <2>2. snap'[n] = snap[n] /\ stale'[n] = stale[n] /\ Section(todo'[n], log, a + 1) /\ log[a + 1] = c
        BY <1>1, <1>5
  <2>3. c \in Commands /\ ApplyAt(n, c)
        BY <1>1
  <2> QED
      BY <1>2, <1>6, <1>7, <2>1, <2>2, <2>3, NodeApplies
<1>9. ASSUME NEW m \in Nodes
      PROVE  Along(m, end, log, course)'
  <2>1. CASE m = n
        BY <1>8, <2>1, AlongNext
  <2>2. CASE m # n
    <3>1. m \in Nodes \ {n}
          BY <2>2
    <3>2. /\ tasks'[m] = tasks[m] /\ todo'[m] = todo[m] /\ since'[m] = since[m] /\ ahead'[m] = ahead[m]
          /\ stale'[m] = stale[m] /\ snap'[m] = snap[m]
          BY <1>1, <3>1, ApplyAtIs
    <3>3. Along(m, end, log, course)
          BY DEF ReplayedAlong, Along
    <3> QED
        BY <3>2, <3>3, Unmoved
  <2> QED
      BY <2>1, <2>2
<1>10. ReplayedAlong(end, log, course)'
       BY <1>7, <1>9 DEF ReplayedAlong, Along
<1> QED
    BY <1>10 DEF Replayed

(* A step in which no submission is decided on, and in which one node moves  *)
(* at most.                                                                  *)
LEMMA NoNewSubmission ==
  ASSUME Types, Types', Remembered, verdicts' = verdicts,
         NEW end \in Nat, NEW log \in [1..end -> Commands], NEW course \in [0..end -> TaskMaps],
         ReplayedAlong(end, log, course), \A m \in Nodes : Along(m, end, log, course)'
  PROVE  Replayed'
<1>1. Courses(end, log, course)'
      BY CoursesRemembered DEF ReplayedAlong, Courses
<1>2. ReplayedAlong(end, log, course)'
      BY <1>1 DEF ReplayedAlong, Along
<1> QED
    BY <1>2 DEF Replayed

LEMMA PersistAlong ==
  ASSUME Types, Types', Remembered, NEW n \in Nodes, Persist(n),
         NEW end \in Nat, NEW log \in [1..end -> Commands], NEW course \in [0..end -> TaskMaps],
         ReplayedAlong(end, log, course)
  PROVE  Replayed'
<1>1. \A m \in Nodes : Along(m, end, log, course)
      BY DEF ReplayedAlong, Along
<1>2. ASSUME NEW m \in Nodes
      PROVE  Along(m, end, log, course)'
  <2>1. CASE m = n
    <3>1. PICK a, b : PlacedAt(n, end, log, a, b) /\ \A i \in TaskIds : HeldAt(n, i, a, b, course)
          BY <1>1, AlongInNumbers
    <3>2. PICK e \in Nat : PlacedAt(n, end, log, a, e)' /\ \A i \in TaskIds : HeldAt(n, i, a, e, course)'
          BY <3>1, NodePersists
    <3> QED
        BY <2>1, <3>2, AlongNext
  <2>2. CASE m # n
    <3>1. m \in Nodes \ {n}
          BY <2>2
    <3>2. /\ tasks'[m] = tasks[m] /\ todo'[m] = todo[m] /\ since'[m] = since[m] /\ ahead'[m] = ahead[m]
          /\ stale'[m] = stale[m] /\ snap'[m] = snap[m]
          BY <3>1, PersistIs
    <3> QED
        BY <1>1, <3>2, Unmoved
  <2> QED
      BY <2>1, <2>2
<1>3. verdicts' = verdicts
      BY DEF Persist
<1> QED
    BY <1>2, <1>3, NoNewSubmission

LEMMA RestartAlong ==
  ASSUME Types, Types', Remembered, NEW n \in Nodes, Restart(n),
         NEW end \in Nat, NEW log \in [1..end -> Commands], NEW course \in [0..end -> TaskMaps],
         ReplayedAlong(end, log, course)
  PROVE  Replayed'
<1>1. \A m \in Nodes : Along(m, end, log, course)
      BY DEF ReplayedAlong, Along
<1>2. ASSUME NEW m \in Nodes
      PROVE  Along(m, end, log, course)'
  <2>1. CASE m = n
    <3>1. PICK a, b : PlacedAt(n, end, log, a, b) /\ \A i \in TaskIds : HeldAt(n, i, a, b, course)
          BY <1>1, AlongInNumbers
    <3>2. PlacedAt(n, end, log, b, b)' /\ \A i \in TaskIds : HeldAt(n, i, b, b, course)'
          BY <3>1, NodeRestarts
    <3> QED
        BY <2>1, <3>2, AlongNext
  <2>2. CASE m # n
    <3>1. m \in Nodes \ {n}
          BY <2>2
    <3>2. /\ tasks'[m] = tasks[m] /\ todo'[m] = todo[m] /\ since'[m] = since[m] /\ ahead'[m] = ahead[m]
          /\ stale'[m] = stale[m] /\ snap'[m] = snap[m]
          BY <3>1, RestartIs
    <3> QED
        BY <1>1, <3>2, Unmoved
  <2> QED
      BY <2>1, <2>2
<1>3. verdicts' = verdicts
      BY DEF Restart
<1> QED
    BY <1>2, <1>3, NoNewSubmission

LEMMA InstallAlong ==
  ASSUME Types, Types', Remembered, NEW n \in Nodes, InstallSnapshot(n),
         NEW end \in Nat, NEW log \in [1..end -> Commands], NEW course \in [0..end -> TaskMaps],
         ReplayedAlong(end, log, course)
  PROVE  Replayed'
<1>1. \A m \in Nodes : Along(m, end, log, course)
      BY DEF ReplayedAlong, Along
<1>2. ASSUME NEW m \in Nodes
      PROVE  Along(m, end, log, course)'
  <2>1. CASE m = n
    <3>1. leader \in Nodes
          BY InstallIs
    <3>2. PICK a, b : /\ PlacedAt(leader, end, log, a, b)
                      /\ \A i \in TaskIds : HeldAt(leader, i, a, b, course)
          BY <1>1, <3>1, AlongInNumbers
    <3>3. PlacedAt(n, end, log, b, b)' /\ \A i \in TaskIds : HeldAt(n, i, b, b, course)'
          BY <3>2, NodeInstalls
    <3> QED
        BY <2>1, <3>3, AlongNext
  <2>2. CASE m # n
    <3>1. m \in Nodes \ {n}
          BY <2>2
    <3>2. /\ tasks'[m] = tasks[m] /\ todo'[m] = todo[m] /\ since'[m] = since[m] /\ ahead'[m] = ahead[m]
          /\ stale'[m] = stale[m] /\ snap'[m] = snap[m]
          BY <3>1, InstallIs
    <3> QED
        BY <1>1, <3>2, Unmoved
  <2> QED
      BY <2>1, <2>2
<1>3. verdicts' = verdicts
      BY DEF InstallSnapshot
<1> QED
    BY <1>2, <1>3, NoNewSubmission

LEMMA ReplayedStep == Types /\ Sourced /\ Replayed /\ [Next]_vars => Replayed'
<1> SUFFICES ASSUME Types, Sourced, Replayed, [Next]_vars
             PROVE  Replayed'
    OBVIOUS
<1>1. Types' /\ Remembered
      BY TypesStep, StepRemembers
<1>2. PICK end \in Nat : \E log \in [1..end -> Commands], course \in [0..end -> TaskMaps] :
        ReplayedAlong(end, log, course)
      BY DEF Replayed
<1>3. PICK log \in [1..end -> Commands], course \in [0..end -> TaskMaps] : ReplayedAlong(end, log, course)
      BY <1>2
<1>4. ASSUME NEW c \in Commands, Execute(c), Origin(c)
      PROVE  Replayed'
      BY <1>1, <1>3, <1>4, ExecuteAlong
<1>5. ASSUME NEW n \in Nodes, Apply(n)
      PROVE  Replayed'
      BY <1>1, <1>3, <1>5, ApplyAlong
<1>6. ASSUME NEW n \in Nodes, Persist(n)
      PROVE  Replayed'
      BY <1>1, <1>3, <1>6, PersistAlong
<1>7. ASSUME NEW n \in Nodes, Restart(n)
      PROVE  Replayed'
      BY <1>1, <1>3, <1>7, RestartAlong
<1>8. ASSUME NEW n \in Nodes, InstallSnapshot(n)
      PROVE  Replayed'
      BY <1>1, <1>3, <1>8, InstallAlong
<1>9. ASSUME UNCHANGED <<logVars, clusters, verdicts, gone>>
      PROVE  Replayed'
  <2>1. ASSUME NEW m \in Nodes
        PROVE  Along(m, end, log, course)'
    <3>1. /\ tasks'[m] = tasks[m] /\ todo'[m] = todo[m] /\ since'[m] = since[m] /\ ahead'[m] = ahead[m]
          /\ stale'[m] = stale[m] /\ snap'[m] = snap[m]
          BY <1>9 DEF logVars
    <3>2. Along(m, end, log, course)
          BY <1>3 DEF ReplayedAlong, Along
    <3> QED
        BY <1>1, <3>1, <3>2, Unmoved
  <2>2. verdicts' = verdicts
        BY <1>9
  <2> QED
      BY <1>1, <1>3, <2>1, <2>2, NoNewSubmission
<1> QED
    BY <1>4, <1>5, <1>6, <1>7, <1>8, <1>9, LogSteps

LEMMA ReplayedInit == Init => Replayed
<1> SUFFICES ASSUME Init
             PROVE  Replayed
    OBVIOUS
<1> DEFINE nothing == [i \in TaskIds |-> NoTask]
<1>1. PICK log : log = [k \in 1..0 |-> CHOOSE c \in Commands : TRUE]
      OBVIOUS
<1>2. PICK course : course = [q \in 0..0 |-> nothing]
      OBVIOUS
<1>3. log \in [1..0 -> Commands] /\ \A r \in 1..0 : FALSE
      BY <1>1
<1>4. nothing \in TaskMaps /\ course \in [0..0 -> TaskMaps] /\ \A i \in TaskIds : course[0][i] = NoTask
      BY <1>2 DEF TaskMaps
<1>5. Courses(0, log, course)
  <2>1. \A q \in 0..0 : q = 0
        OBVIOUS
  <2>2. \A d \in Descriptors : verdicts[d] = {}
        BY DEF Init
  <2>3. \A q \in 0..0, i \in TaskIds : OnCourse(i, course[q][i])
        BY <1>4, <2>1 DEF OnCourse
  <2> QED
      BY <1>3, <2>2, <2>3 DEF Courses
<1>6. ASSUME NEW n \in Nodes
      PROVE  /\ todo[n] = <<>> /\ since[n] = <<>> /\ ahead[n] = 0 /\ tasks[n] = nothing
             /\ snap[n] = [tasks |-> nothing, ahead |-> 0, stale |-> {}]
      BY DEF Init
<1>7. ASSUME NEW n \in Nodes
      PROVE  Placed(n, 0, log)
  <2>1. Len(todo[n]) = 0 /\ Len(since[n]) = 0 /\ ahead[n] = 0 /\ snap[n].ahead = 0
        BY <1>6
  <2>2. Section(todo[n], log, At(n, 0)) /\ Section(since[n], log, Base(n, 0))
        BY <1>6, NoSection
  <2> QED
      BY <2>1, <2>2 DEF Placed
<1>8. ASSUME NEW i \in TaskIds
      PROVE  HeldBetween(NoTask, i, 0, 0, course, gone)
  <2>1. HeldAfter(NoTask, i, 0, course, gone)
    <3>1. \A r \in 0..0 : r = 0
          OBVIOUS
    <3> QED
        BY <1>4, <3>1 DEF HeldAfter, Follow
  <2>2. 0 \in 0..0
        OBVIOUS
  <2> QED
      BY <2>1, <2>2 DEF HeldBetween
<1>9. ASSUME NEW n \in Nodes, NEW i \in TaskIds
      PROVE  InPlace(n, i, 0, course)
  <2>1. /\ At(n, 0) = 0 /\ At(n, 0) + ahead[n] = 0 /\ Base(n, 0) = 0 /\ Base(n, 0) + snap[n].ahead = 0
    <3>1. Len(todo[n]) = 0 /\ Len(since[n]) = 0 /\ ahead[n] = 0 /\ snap[n].ahead = 0
          BY <1>6
    <3>2. At(n, 0) = 0 /\ Base(n, 0) = 0
          BY <3>1 DEF At, Base
    <3> QED
        BY <3>1, <3>2
  <2>2. tasks[n][i] = NoTask /\ snap[n].tasks[i] = NoTask
        BY <1>6
  <2> QED
      BY <1>8, <2>1, <2>2 DEF InPlace
<1>10. ReplayedAlong(0, log, course)
       BY <1>5, <1>7, <1>9 DEF ReplayedAlong
<1> QED
    BY <1>3, <1>4, <1>10 DEF Replayed

(* Nodes at one place in the log, which replay nothing, have the tasks of    *)
(* the course there.                                                         *)
LEMMA InPlaceFollows ==
  ASSUME Types, NEW n \in Nodes, NEW i \in TaskIds, NEW end \in Nat, NEW course,
         InPlace(n, i, end, course), Consistent(i), ~Concerns(stale[n], i), ahead[n] = 0,
         Len(todo[n]) <= end
  PROVE  HeldAfter(tasks[n][i], i, At(n, end), course, gone)
<1>1. At(n, end) \in Nat
      BY NodeTypes DEF At
<1>2. HeldBetween(tasks[n][i], i, At(n, end), At(n, end) + 0, course, gone)
      BY DEF InPlace
<1>3. PICK m \in At(n, end)..(At(n, end) + 0) : HeldAfter(tasks[n][i], i, m, course, gone)
      BY <1>2 DEF HeldBetween
<1>4. m = At(n, end)
      BY <1>1
<1> QED
    BY <1>3, <1>4

LEMMA ReplayedImplies == Types /\ Replayed => NodesAgree
<1> SUFFICES ASSUME Types, Replayed, NEW a \in members, NEW b \in members,
                    Len(todo[a]) = Len(todo[b]), ahead[a] = 0, ahead[b] = 0,
                    NEW i \in TaskIds, Comparable(a, b, i)
             PROVE  AgreeOn(i, tasks[a], tasks[b])
    BY DEF NodesAgree
<1>1. a \in Nodes /\ b \in Nodes
      BY DEF Types, ClusterTypes
<1>2. PICK end \in Nat : \E log \in [1..end -> Commands], course \in [0..end -> TaskMaps] :
        ReplayedAlong(end, log, course)
      BY DEF Replayed
<1>3. PICK log \in [1..end -> Commands], course \in [0..end -> TaskMaps] : ReplayedAlong(end, log, course)
      BY <1>2
<1>4. Consistent(i) /\ ~Concerns(stale[a], i) /\ ~Concerns(stale[b], i)
      BY DEF Comparable, Concerns
<1>5. ASSUME NEW n \in {a, b}
      PROVE  Follow(tasks[n][i], course[At(n, end)][i])
  <2>1. n \in Nodes /\ InPlace(n, i, end, course) /\ Placed(n, end, log)
        BY <1>1, <1>3 DEF ReplayedAlong
  <2>2. Len(todo[n]) <= end
    <3>1. Len(since[n]) + Len(todo[n]) <= end
          BY <2>1 DEF Placed
    <3>2. Len(todo[n]) \in Nat /\ Len(since[n]) \in Nat
          BY <2>1, NodeTypes
    <3>3. \A x, y \in Nat : y + x <= end => x <= end
          OBVIOUS
    <3> QED
        BY <3>1, <3>2, <3>3
  <2>3. HeldAfter(tasks[n][i], i, At(n, end), course, gone)
        BY <1>4, <2>1, <2>2, InPlaceFollows
  <2> QED
      BY <2>3 DEF HeldAfter
<1>6. At(a, end) = At(b, end)
      BY DEF At
<1>7. PICK u : Follow(tasks[a][i], u) /\ Follow(tasks[b][i], u)
      BY <1>5, <1>6
<1> QED
    BY <1>7 DEF Follow, Running, AgreeOn

(***************************************************************************)
(* Nodes that have applied the same commands have the same tasks, however   *)
(* often they restarted from whatever snapshot, except that the clock of    *)
(* one may have let it clean up a task the other still lists as ended.      *)
(***************************************************************************)
THEOREM NodesAgreeOnTasks == TasksSpec => []NodesAgree
<1>1. Init => Types /\ Sourced /\ Replayed
      BY TypesInit, SourcedInit, ReplayedInit
<1>2. Types /\ Sourced /\ Replayed /\ [Next]_vars => Types' /\ Sourced' /\ Replayed'
      BY TypesStep, SourcedStep, ReplayedStep
<1>3. Types /\ Replayed => NodesAgree
      BY ReplayedImplies
<1> QED
    BY <1>1, <1>2, <1>3, PTL DEF TasksSpec

----------------------------------------------------------------------------
(* State of a task that the cluster has not cleaned up                       *)

(* A leader that has applied all that is committed lists every task that was *)
(* ever added, unless it was cleaned up or replaced.                         *)
LEMMA LeaderLists ==
  ASSUME Types, Replayed, ~Lagging, NEW d \in Added, Consistent(d.id), ~Concerns(stale[leader], d.id)
  PROVE  d \in Listing(tasks[leader]) \/ d \in gone
<1> DEFINE i == d.id
           t == tasks[leader][i]
<1>1. /\ leader \in Nodes /\ todo[leader] = <<>> /\ ahead[leader] = 0 /\ tasks[leader] \in TaskMaps
      /\ d \in Descriptors /\ i \in TaskIds /\ "added" \in verdicts[d]
  <2>1. leader \in Nodes
        BY LeaderIsNode DEF Types
  <2>2. ahead[leader] \in Nat /\ tasks[leader] \in TaskMaps
        BY <2>1, NodeTypes
  <2> QED
      BY <2>1, <2>2 DEF Lagging, Added, Descriptors
<1>2. PICK end \in Nat : \E log \in [1..end -> Commands], course \in [0..end -> TaskMaps] :
        ReplayedAlong(end, log, course)
      BY DEF Replayed
<1>3. PICK log \in [1..end -> Commands], course \in [0..end -> TaskMaps] : ReplayedAlong(end, log, course)
      BY <1>2
<1>4. HeldAfter(t, i, end, course, gone)
  <2>1. InPlace(leader, i, end, course)
        BY <1>1, <1>3 DEF ReplayedAlong
  <2>2. Len(todo[leader]) = 0
        BY <1>1
  <2>3. Len(todo[leader]) <= end /\ At(leader, end) = end
        BY <2>2 DEF At
  <2>4. HeldAfter(t, i, At(leader, end), course, gone)
        BY <1>1, <2>1, <2>3, InPlaceFollows
  <2> QED
      BY <2>3, <2>4
<1>5. PICK r \in 1..end : Adds(log[r], d)
      BY <1>1, <1>3 DEF ReplayedAlong, Courses
<1>6. course[r][i] = Submission(d)
  <2>1. Course(log[r], i, course[r - 1][i], course[r][i])
        BY <1>1, <1>3 DEF ReplayedAlong, Courses
  <2>2. log[r].kind = "add" /\ log[r].desc = d
        BY <1>5 DEF Adds
  <2>3. Regards(log[r], i)
        BY <2>2 DEF Regards
  <2>4. course[r][i] = Submission(d) \/ "refused" \in verdicts[d]
        BY <2>1, <2>2, <2>3 DEF Course
  <2>5. verdicts[d] \in SUBSET {"added", "refused"} /\ verdicts[d] # {"added", "refused"}
        BY <1>1 DEF Types, HistoryTypes, Consistent
  <2> QED
      BY <1>1, <2>4, <2>5
<1>7. DescOf(i, Submission(d)) = d /\ Submission(d).version = d.version /\ Submission(d) # NoTask
      BY <1>1, SubmissionTypes DEF DescOf, Submission, Descriptors
<1>8. (t # NoTask /\ t.version = d.version) \/ d \in gone
  <2>1. r \in 0..end
        OBVIOUS
  <2> QED
      BY <1>4, <1>6, <1>7, <2>1 DEF HeldAfter
<1> QED
    BY <1>1, <1>8, Listed DEF Find

\* What the provider of m drops in a step was not listed
DropsUnlisted(m) ==
  \A d \in local[m] \ local'[m] :
     \/ phase[m] = "starting" /\ d \notin filterStartedTasks(m, tasks[leader])
     \/ phase[m] = "listed" /\ d \notin Listing(listed[m].tasks)

(* What a step does to the scheduler of m: nothing, or it lists the tasks,   *)
(* or it does something else, after which it has no list.                    *)
LEMMA SchedulerMoves ==
  ASSUME Types, [Next]_vars, NEW m \in Nodes
  PROVE  \/ phase'[m] = phase[m] /\ listed'[m] = listed[m] /\ local'[m] = local[m]
         \/ /\ listed'[m] = [tasks |-> tasks[leader], lagging |-> Lagging, stale |-> stale[leader]]
            /\ local'[m] = local[m]
         \/ phase'[m] # "listed" /\ DropsUnlisted(m)
<1> USE DEF Types, SchedulerTypes
<1> DEFINE Still == phase'[m] = phase[m] /\ listed'[m] = listed[m] /\ local'[m] = local[m]
           Reads == /\ listed'[m] = [tasks |-> tasks[leader], lagging |-> Lagging, stale |-> stale[leader]]
                     /\ local'[m] = local[m]
           Moves == phase'[m] # "listed" /\ DropsUnlisted(m)
<1>1. ASSUME UNCHANGED schedulerVars PROVE Still
      BY <1>1 DEF schedulerVars
<1>2. ASSUME NEW n \in Nodes, Restart(n) PROVE Still \/ Moves
  <2>1. /\ phase' = [phase EXCEPT ![n] = "starting"] /\ listed' = [listed EXCEPT ![n] = NoList]
        /\ local' = local
        BY <1>2 DEF Restart
  <2>2. CASE n = m
        BY <2>1, <2>2 DEF DropsUnlisted
  <2>3. CASE n # m
        BY <2>1, <2>3
  <2> QED
      BY <2>2, <2>3
<1>3. ASSUME NEW n \in Nodes, Start(n) PROVE Still \/ Moves
  <2>1. /\ phase[n] = "starting" /\ phase' = [phase EXCEPT ![n] = "idle"] /\ listed' = listed
        BY <1>3 DEF Start
  <2>d. PICK spared : local' = [local EXCEPT ![n] = filterStartedTasks(n, tasks[leader]) \cup spared]
        BY <1>3 DEF Start
  <2>2. CASE n = m
        BY <2>1, <2>d, <2>2 DEF DropsUnlisted
  <2>3. CASE n # m
        BY <2>1, <2>d, <2>3
  <2> QED
      BY <2>2, <2>3
<1>4. ASSUME NEW n \in Nodes, StartFails(n) PROVE Still \/ Moves
  <2>1. PICK started, spared :
          local' = [local EXCEPT ![n] =
                      started \cup spared \cup (local[n] \cap filterStartedTasks(n, tasks[leader]))]
        BY <1>4 DEF StartFails
  <2>2. phase[n] = "starting" /\ phase' = [phase EXCEPT ![n] = "off"] /\ listed' = listed
        BY <1>4 DEF StartFails
  <2>3. CASE n = m
        BY <2>1, <2>2, <2>3 DEF DropsUnlisted
  <2>4. CASE n # m
        BY <2>1, <2>2, <2>4
  <2> QED
      BY <2>3, <2>4
<1>5. ASSUME NEW n \in Nodes, List(n) PROVE Still \/ Reads
  <2>1. /\ listed' = [listed EXCEPT ![n] = [tasks |-> tasks[leader], lagging |-> Lagging, stale |-> stale[leader]]]
        /\ phase' = [phase EXCEPT ![n] = "listed"] /\ local' = local
        BY <1>5 DEF List
  <2>2. CASE n = m
        BY <2>1, <2>2
  <2>3. CASE n # m
        BY <2>1, <2>3
  <2> QED
      BY <2>2, <2>3
<1>6. ASSUME NEW n \in Nodes, Tick(n) \/ ProviderFails(n) PROVE Still \/ Moves
  <2>1. PICK launched, spared : TickWith(n, launched, spared)
        BY <1>6 DEF Tick, ProviderFails
  <2>2. /\ phase[n] = "listed" /\ listed' = [listed EXCEPT ![n] = NoList]
        /\ local' = [local EXCEPT ![n] = LocalTasks(n, listed[n].tasks, launched) \cup spared]
        /\ phase' = [phase EXCEPT ![n] = IF Cleanable(listed[n].tasks) = {} THEN "idle" ELSE "cleaning"]
        BY <2>1 DEF TickWith
  <2>3. CASE n = m
        BY <2>2, <2>3 DEF DropsUnlisted, LocalTasks
  <2>4. CASE n # m
        BY <2>2, <2>4
  <2> QED
      BY <2>3, <2>4
<1>7. ASSUME NEW n \in Nodes, NEW d \in Descriptors, CleanUp(n, d) \/ CleanUpFails(n, d)
      PROVE  Still \/ Moves
  <2>1. /\ phase[n] = "cleaning" /\ phase' = [phase EXCEPT ![n] = IF toClean[n] = {d} THEN "idle" ELSE phase[n]]
        /\ listed' = listed /\ local' = local
        BY <1>7 DEF CleanUp, CleanUpFails, CleanedUp
  <2>2. CASE n = m
        BY <2>1, <2>2 DEF DropsUnlisted
  <2>3. CASE n # m
        BY <2>1, <2>3
  <2> QED
      BY <2>2, <2>3
<1>8. ASSUME NEW n \in Nodes, NEW d \in Descriptors, Complete(n, d) PROVE Still
      BY <1>8 DEF Complete
<1>9. ASSUME NEW n \in Nodes, NEW d \in Descriptors, CompleteAgain(n, d) \/ Fail(n, d) PROVE Still
      BY <1>1, <1>9 DEF CompleteAgain, Fail
<1>10. ASSUME NEW n \in Nodes,
              Apply(n) \/ Snapshot(n) \/ Persist(n) \/ InstallSnapshot(n) \/ ChangeLeader(n)
       PROVE  Still
       BY <1>1, <1>10 DEF Apply, Snapshot, Persist, InstallSnapshot, ChangeLeader
<1>11. ASSUME NEW i \in TaskIds, Add(i) PROVE Still
       BY <1>1, <1>11 DEF Add
<1>12. ASSUME NEW d \in Descriptors, Cancel(d) PROVE Still
       BY <1>1, <1>12 DEF Cancel
<1>13. ASSUME NEW a \in SUBSET Nodes, Reconfigure(a) PROVE Still
       BY <1>1, <1>13 DEF Reconfigure
<1>14. CASE Tock
       BY <1>1, <1>14 DEF Tock
<1>15. CASE UNCHANGED vars
       BY <1>1, <1>15 DEF vars
<1> QED
    BY <1>2, <1>3, <1>4, <1>5, <1>6, <1>7, <1>8, <1>9, <1>10, <1>11, <1>12, <1>13, <1>14, <1>15 DEF Next

(* A list that lacks a task the node has state of was read after the cluster *)
(* cleaned the task up, or from a leader that cannot be compared.            *)
Excused(n, d) ==
  d \in gone \/ listed[n].lagging \/ Concerns(listed[n].stale, d.id) \/ ~Consistent(d.id)
CompleteAt(n) ==
  phase[n] = "listed" => \A d \in local[n] : d \in Listing(listed[n].tasks) \/ Excused(n, d)
ListsComplete == \A n \in Nodes : CompleteAt(n)

LEMMA CompleteInit == Init => ListsComplete
BY DEF Init, ListsComplete, CompleteAt

LEMMA CompleteStep == Types /\ Sourced /\ Replayed /\ ListsComplete /\ [Next]_vars => ListsComplete'
<1> SUFFICES ASSUME Types, Sourced, Replayed, ListsComplete, [Next]_vars, NEW n \in Nodes
             PROVE  CompleteAt(n)'
    BY DEF ListsComplete
<1>1. Types' /\ Remembered
      BY TypesStep, StepRemembers
<1>2. gone \subseteq gone' /\ \A i : Consistent(i)' => Consistent(i)
      BY <1>1, ConsistentBefore DEF Remembered
<1>3. CASE phase'[n] = phase[n] /\ listed'[n] = listed[n] /\ local'[n] = local[n]
  <2> SUFFICES ASSUME phase[n] = "listed", NEW d \in local[n], d \notin Listing(listed[n].tasks),
                      ~listed[n].lagging, ~Concerns(listed[n].stale, d.id), Consistent(d.id)'
               PROVE  d \in gone'
      BY <1>3 DEF CompleteAt, Excused
  <2>1. Excused(n, d)
        BY DEF ListsComplete, CompleteAt
  <2> QED
      BY <1>2, <2>1 DEF Excused
<1>4. CASE /\ listed'[n] = [tasks |-> tasks[leader], lagging |-> Lagging, stale |-> stale[leader]]
           /\ local'[n] = local[n]
  <2>1. listed'[n].tasks = tasks[leader] /\ listed'[n].lagging = Lagging /\ listed'[n].stale = stale[leader]
        BY <1>4
  <2> SUFFICES ASSUME NEW d \in local[n], d \notin Listing(tasks[leader]),
                      ~Lagging, ~Concerns(stale[leader], d.id), Consistent(d.id)'
               PROVE  d \in gone'
      BY <1>4, <2>1 DEF CompleteAt, Excused
  <2>2. d \in Added
        BY DEF Sourced, SourcedAt, Held
  <2>3. d \in gone
        BY <1>2, <2>2, LeaderLists
  <2> QED
      BY <1>2, <2>3
<1>5. CASE phase'[n] # "listed" /\ DropsUnlisted(n)
      BY <1>5 DEF CompleteAt
<1> QED
    BY <1>3, <1>4, <1>5, SchedulerMoves

LEMMA LiveTaskKept ==
  Types /\ ListsComplete /\ [Next]_vars
    => \A n \in Nodes : \A d \in local[n] \ local'[n] :
            \/ d \in gone
            \/ phase[n] = "starting" /\ d \notin filterStartedTasks(n, tasks[leader])
            \/ listed[n].lagging \/ Concerns(listed[n].stale, d.id) \/ ~Consistent(d.id)
<1> SUFFICES ASSUME Types, ListsComplete, [Next]_vars, NEW n \in Nodes, NEW d \in local[n] \ local'[n]
             PROVE  \/ Excused(n, d)
                    \/ phase[n] = "starting" /\ d \notin filterStartedTasks(n, tasks[leader])
    BY DEF Excused
<1>1. DropsUnlisted(n)
      BY SchedulerMoves
<1>2. CompleteAt(n)
      BY DEF ListsComplete
<1> QED
    BY <1>1, <1>2 DEF DropsUnlisted, CompleteAt

(***************************************************************************)
(* The state a provider keeps of a task is cleaned up while the node runs  *)
(* only after the task was cleaned up or replaced in the cluster, and when *)
(* the node starts also if the node has nothing left to do for it; unless  *)
(* the list is that of a leader which had commands to apply, or kept a run *)
(* of the task across a snapshot, or the task was counted against          *)
(* different sizes of the cluster, or refused once and added another time. *)
(***************************************************************************)
THEOREM LiveTaskStateIsKept == TasksSpec => LiveTaskKeepsLocalState
<1> DEFINE IInv == Types /\ Sourced /\ Replayed /\ ListsComplete
<1>1. Init => IInv
      BY TypesInit, SourcedInit, ReplayedInit, CompleteInit
<1>2. IInv /\ [Next]_vars => IInv'
      BY TypesStep, SourcedStep, ReplayedStep, CompleteStep
<1>3. IInv /\ [Next]_vars
        => [\A n \in Nodes : \A d \in local[n] \ local'[n] :
              \/ d \in gone
              \/ phase[n] = "starting" /\ d \notin filterStartedTasks(n, tasks[leader])
              \/ listed[n].lagging \/ Concerns(listed[n].stale, d.id) \/ ~Consistent(d.id)]_vars
      BY LiveTaskKept
<1> QED
    BY <1>1, <1>2, <1>3, PTL DEF TasksSpec, LiveTaskKeepsLocalState

=============================================================================
