------------------------- MODULE ReplicatedObject -------------------------
(* One object of a replicated shard: writes by the coordinator's two phases  *)
(* (usecases/replica/coordinator.go), the replicas' pending tasks            *)
(* (adapters/repos/db/shard_replication.go), reads with read repair          *)
(* (finder_stream.go, repairer.go), the overwrite a repair asks a replica    *)
(* for (adapters/repos/db/replication.go) and asynchronous replication       *)
(* (shard_async_replication.go).                                             *)
(*                                                                           *)
(* A write is identified with its update time, which writes get in the order *)
(* they start. A version is a time and a content; a tombstone is a version   *)
(* too, with the time of the deletion.                                       *)
EXTENDS Naturals, FiniteSets

CONSTANTS
    Replicas,       \* the nodes that hold the shard
    Beaters,        \* those with asynchronous replication enabled
    Values,         \* contents an object may have
    Deleted,        \* the content of a tombstone
    Absent,         \* no object and no tombstone
    Nobody,         \* no replica
    Reader,         \* the reading coordinator, as the sender of an overwrite
    Levels,         \* consistency levels of requests, as numbers of replicas
    Strategies,     \* deletion strategies of the class
    MaxWrites,      \* bound: writes
    MaxReads,       \* bound: reads
    MaxFaults       \* bound: failed or lost calls, restarts

ASSUME ReplicatedAssumption ==
    /\ IsFiniteSet(Replicas) /\ Replicas # {}
    /\ Beaters \subseteq Replicas
    /\ Levels \subseteq 1 .. Cardinality(Replicas)
    /\ {MaxWrites, MaxReads, MaxFaults} \subseteq Nat
    /\ Deleted # Absent /\ {Deleted, Absent} \cap Values = {}
    /\ {Nobody, Reader} \cap (Replicas \cup 1 .. MaxWrites) = {} /\ Nobody # Reader
    /\ Strategies \subseteq {"NoAutomatedResolution", "DeleteOnConflict", "TimeBasedResolution"}

N == Cardinality(Replicas)
Writes == 1 .. MaxWrites
Times == 0 .. MaxWrites
Contents == Values \cup {Deleted, Absent}
Versions == [time : Times, content : Contents]
NoVersion == [time |-> 0, content |-> Absent]

VARIABLES
    strategy,   \* the class's deletion strategy
    object,     \* object[r]: the version replica r stores
    tasks,      \* tasks[r]: writes in r's replication map, prepared and not committed
    write,      \* write[w]: content, consistency level and outcome of w
    call,       \* call[w][r]: where w's calls to r are
    read,       \* the read that is served
    votes,      \* votes[r]: the version r answered the read with
    overwrites, \* overwrite requests under way
    beat,       \* beat[r]: what r's asynchronous replication is doing
    floor,      \* floor[k]: a time k replicas have reached, for the properties
    tainted,    \* writes and reads that met a replica going back in time, for the properties
    used        \* how much of each bound is used up

requestVars == <<write, call, tasks>>
readVars == <<read, votes>>
vars == <<strategy, object, requestVars, readVars, overwrites, beat, floor, tainted, used>>

Idle == [phase |-> "idle", to |-> Nobody, localTime |-> 0, stale |-> 0]
NoVotes == [r \in {} |-> NoVersion]
NoRead == [phase |-> "idle", level |-> 0, full |-> Nobody, failed |-> FALSE, result |-> NoVersion, floor |-> 0]

Spend(what, bound) ==
    /\ used[what] < bound
    /\ used' = [used EXCEPT ![what] = @ + 1]

Live(v) == v.content \in Values

-----------------------------------------------------------------------------
(* What a replica stores                                                     *)

\* DeleteObject: without an object there is nothing to do, and no tombstone
DeleteObject(v, time) == IF Live(v) THEN [time |-> time, content |-> Deleted] ELSE v

\* PutObject: an object with the same content is left as it is, its time too
PutObject(v, new) == IF v.content = new.content THEN v ELSE new

Store(v, new) == IF new.content = Deleted THEN DeleteObject(v, new.time) ELSE PutObject(v, new)

\* A replica that goes back in time, or that keeps an older time, takes away what was
\* guaranteed to the requests under way.
GoesBack(r, new) == Store(object[r], new).time < object[r].time
FallsShort(r, new) == Store(object[r], new).time < new.time
Running == {w \in Writes : write[w].outcome = "running"} \cup {Reader}
Tainted(r, new, who) ==
    tainted \cup (IF GoesBack(r, new) THEN Running ELSE {}) \cup (IF FallsShort(r, new) THEN {who} \cap Running ELSE {})
NoFloor == [k \in 1 .. N |-> 0]

\* Replica r stores "new" on behalf of "who"
Stored(r, new, who) ==
    /\ object' = [object EXCEPT ![r] = Store(@, new)]
    /\ tainted' = Tainted(r, new, who)
    /\ floor' = IF GoesBack(r, new) THEN NoFloor ELSE floor

\* k replicas have reached "time"
Raised(k, time) == [i \in 1 .. N |-> IF i <= k /\ floor[i] < time THEN time ELSE floor[i]]

-----------------------------------------------------------------------------
(* Writes                                                                    *)

Init ==
    /\ strategy \in Strategies
    /\ object = [r \in Replicas |-> NoVersion]
    /\ tasks = [r \in Replicas |-> {}]
    /\ write = [w \in Writes |-> [content |-> Absent, level |-> 0, outcome |-> "none"]]
    /\ call = [w \in Writes |-> [r \in Replicas |-> "none"]]
    /\ read = NoRead
    /\ votes = NoVotes
    /\ overwrites = {}
    /\ beat = [r \in Replicas |-> Idle]
    /\ floor = [k \in 1 .. N |-> 0]
    /\ tainted = {}
    /\ used = [what \in {"writes", "reads", "faults"} |-> 0]

Version(w) == [time |-> w, content |-> write[w].content]

\* PutObject and DeleteObject of the replicator: Push asks every replica to prepare
StartWrite(content, level) ==
    /\ Spend("writes", MaxWrites)
    /\ LET w == used.writes + 1
       IN  /\ write' = [write EXCEPT ![w] = [content |-> content, level |-> level, outcome |-> "running"]]
           /\ call' = [call EXCEPT ![w] = [r \in Replicas |-> "prepare"]]
    /\ UNCHANGED <<strategy, object, tasks, readVars, overwrites, beat, floor, tainted>>

In(w, states) == {r \in Replicas : call[w][r] \in states}

\* Replicas that have said they are ready
Ready(calls) == {r \in Replicas : calls[r] \notin {"none", "prepare", "refused"}}

\* Seeded bug: a replica that is ready commits before the level is reached
Answered_Eagerly(w, r, answer) ==
    [call[w] EXCEPT ![r] = IF answer = "ready" THEN "commit" ELSE answer]

\* broadcast: commits go out once "level" replicas are ready, to them and to whoever
\* is ready later
Answered(w, r, answer) ==
    LET calls == [call[w] EXCEPT ![r] = answer]
    IN  IF Cardinality(Ready(calls)) >= write[w].level
        THEN [q \in Replicas |-> IF calls[q] = "ready" THEN "commit" ELSE calls[q]]
        ELSE calls

\* Seeded bug: an error counts as an acknowledgement
Outcome_AnyReply(w, calls) ==
    IF write[w].outcome # "running" THEN write[w].outcome
    ELSE IF Cardinality({r \in Replicas : calls[r] \in {"done", "error", "late"}}) >= write[w].level THEN "ok"
    ELSE "running"

\* readErrors: the write succeeds with the level-th acknowledgement and fails when all
\* replies are in
Outcome(w, calls) ==
    IF write[w].outcome # "running" THEN write[w].outcome
    ELSE IF Cardinality({r \in Replicas : calls[r] = "done"}) >= write[w].level THEN "ok"
    ELSE IF \E r \in Replicas : calls[r] \in {"prepare", "ready", "commit"} THEN "running"
    ELSE "failed"

\* Replica r puts w into its replication map and answers
Prepare(w, r) ==
    /\ call[w][r] = "prepare"
    /\ tasks' = [tasks EXCEPT ![r] = @ \cup {w}]
    /\ call' = [call EXCEPT ![w] = Answered(w, r, "ready")]
    /\ UNCHANGED <<strategy, object, write, readVars, overwrites, beat, floor, tainted, used>>

\* The replica refuses or is not reached, or its answer is lost
PrepareFails(w, r) ==
    /\ call[w][r] = "prepare"
    /\ Spend("faults", MaxFaults)
    /\ tasks' \in {tasks, [tasks EXCEPT ![r] = @ \cup {w}]}
    /\ LET calls == Answered(w, r, "refused")
       IN  /\ call' = [call EXCEPT ![w] = calls]
           /\ write' = [write EXCEPT ![w].outcome =
                            IF Cardinality(Ready(calls)) < write[w].level THEN @ ELSE Outcome(w, calls)]
    /\ UNCHANGED <<strategy, object, readVars, overwrites, beat, floor, tainted>>

\* Every replica answered and too few are ready: the replicas are told to forget w,
\* and those that are reached do
Abort(w) ==
    /\ write[w].outcome = "running"
    /\ In(w, {"ready", "refused"}) = Replicas
    /\ write' = [write EXCEPT ![w].outcome = "aborted"]
    /\ \E reached \in SUBSET Replicas :
         tasks' = [r \in Replicas |-> IF r \in reached THEN tasks[r] \ {w} ELSE tasks[r]]
    /\ UNCHANGED <<strategy, object, call, readVars, overwrites, beat, floor, tainted, used>>

\* commitReplication of r, and its reply
Commit(w, r) ==
    /\ call[w][r] = "commit"
    /\ w \in tasks[r]
    /\ tasks' = [tasks EXCEPT ![r] = @ \ {w}]
    /\ object' = [object EXCEPT ![r] = Store(@, Version(w))]
    /\ tainted' = Tainted(r, Version(w), w)
    /\ LET calls == [call[w] EXCEPT ![r] = "done"]
           outcome == Outcome(w, calls)
       IN  /\ call' = [call EXCEPT ![w] = calls]
           /\ write' = [write EXCEPT ![w].outcome = outcome]
           /\ floor' = IF GoesBack(r, Version(w)) THEN NoFloor
                       ELSE IF outcome = "ok" /\ write[w].outcome = "running" /\ w \notin tainted'
                       THEN Raised(write[w].level, w)
                       ELSE floor
    /\ UNCHANGED <<strategy, readVars, overwrites, beat, used>>

\* The replica has lost the task, or the coordinator gets no reply and the request may
\* still be executed
CommitFails(w, r) ==
    /\ call[w][r] = "commit"
    /\ \/ w \notin tasks[r] /\ UNCHANGED used
       \/ w \in tasks[r] /\ Spend("faults", MaxFaults)
    /\ LET calls == [call[w] EXCEPT ![r] = IF w \in tasks[r] THEN "late" ELSE "error"]
       IN  /\ call' = [call EXCEPT ![w] = calls]
           /\ write' = [write EXCEPT ![w].outcome = Outcome(w, calls)]
    /\ UNCHANGED <<strategy, object, tasks, readVars, overwrites, beat, floor, tainted>>

\* A commit the coordinator gave up on
CommitLate(w, r) ==
    /\ call[w][r] = "late"
    /\ w \in tasks[r]
    /\ tasks' = [tasks EXCEPT ![r] = @ \ {w}]
    /\ Stored(r, Version(w), w)
    /\ UNCHANGED <<strategy, write, call, readVars, overwrites, beat, used>>

\* The process dies: its replication map and what it was doing are gone, what it stored
\* is not, and requests to it fail
Crash(r) ==
    /\ Spend("faults", MaxFaults)
    /\ tasks[r] # {} \/ beat[r] # Idle \/ \E o \in overwrites : o.to = r
    /\ tasks' = [tasks EXCEPT ![r] = {}]
    /\ overwrites' = {[o EXCEPT !.from = IF @ = r THEN Nobody ELSE @] : o \in {p \in overwrites : p.to # r}}
    /\ LET lost == {o.from : o \in {p \in overwrites : p.to = r}} \cup {r}
       IN  /\ beat' = [s \in Replicas |-> IF s \in lost THEN Idle ELSE beat[s]]
           /\ read' = [read EXCEPT !.failed = @ \/ Reader \in lost]
    /\ UNCHANGED <<strategy, object, write, call, votes, floor, tainted>>

-----------------------------------------------------------------------------
(* Reads: GetOne                                                             *)

StartRead(level) ==
    /\ read.phase \in {"idle", "returned"}
    /\ Spend("reads", MaxReads)
    /\ read' = [NoRead EXCEPT !.phase = "pulling", !.level = level, !.floor = floor[N - level + 1]]
    /\ votes' = NoVotes
    /\ tainted' = tainted \ {Reader}
    /\ UNCHANGED <<strategy, object, requestVars, overwrites, beat, floor>>

Voters == DOMAIN votes

\* Pull: "level" workers each get the answer of a replica of their own, one of them
\* the object, the others a digest
Answer(r, full) ==
    /\ read.phase = "pulling"
    /\ Cardinality(Voters) < read.level
    /\ r \notin Voters
    /\ full => read.full = Nobody
    /\ Cardinality(Voters) + 1 = read.level => full \/ read.full # Nobody
    /\ votes' = [q \in Voters \cup {r} |-> IF q = r THEN object[r] ELSE votes[q]]
    /\ read' = [read EXCEPT !.full = IF full THEN r ELSE @]
    /\ UNCHANGED <<strategy, object, requestVars, overwrites, beat, floor, tainted, used>>

\* The read returns v, which "count" replicas have reached. The next read finds
\* nothing of it left.
Return(v, count) ==
    /\ read' = [NoRead EXCEPT !.phase = "returned", !.result = v, !.floor = read.floor]
    /\ votes' = NoVotes
    /\ floor' = IF Reader \in tainted THEN floor ELSE Raised(count, v.time)

Complete == read.phase = "pulling" /\ Cardinality(Voters) = read.level

\* readOne: all votes agree
Agree ==
    /\ Complete
    /\ \A q, r \in Voters : votes[q].time = votes[r].time
    /\ Return(votes[read.full], read.level)
    /\ UNCHANGED <<strategy, object, requestVars, overwrites, beat, tainted, used>>

\* Seeded bug: a repair gets a time of its own
Latest_Fresh(rs) == 1 + CHOOSE t \in {votes[r].time : r \in rs} : \A r \in rs : votes[r].time <= t

Latest(rs) == CHOOSE t \in {votes[r].time : r \in rs} : \A r \in rs : votes[r].time <= t

ToRepair(time) == {r \in Voters : votes[r].time # time}

Repair(v, rs) ==
    /\ overwrites' = overwrites \cup
         {[from |-> Reader, to |-> r, stale |-> votes[r].time, version |-> v,
           checked |-> FALSE, seen |-> 0] : r \in rs}
    /\ read' = [read EXCEPT !.phase = "repairing", !.result = v]

\* repairOne, with a deletion among the votes and DeleteOnConflict: it is propagated
RepairDeletion ==
    LET deletions == {r \in Voters : votes[r].content = Deleted}
        v == [time |-> Latest(deletions), content |-> Deleted]
    IN  Repair(v, {r \in Voters : votes[r] # v})

\* repairOne otherwise: the most recent version, fetched anew unless the vote that
\* carries the object has it, is propagated
RepairLatest ==
    LET last == Latest(Voters)
    IN  IF votes[read.full].time = last
        THEN Repair(votes[read.full], ToRepair(last))
        ELSE \E winner \in {r \in Voters : votes[r].time = last} :
               IF object[winner].time = last
               THEN Repair(object[winner], ToRepair(last))
               ELSE read' = [read EXCEPT !.phase = "repairing", !.failed = TRUE] /\ UNCHANGED overwrites

\* The most recent version is not the one the full answer carries, and nothing decides
\* before it is fetched
NeedsFetch ==
    /\ Complete
    /\ votes[read.full].time # Latest(Voters)
    /\ strategy = "TimeBasedResolution" \/ \A r \in Voters : votes[r].content # Deleted

\* A worker runs out of retries or of time, or the FullRead of the winner fails
ReadFails ==
    /\ read.phase = "pulling"
    /\ Cardinality(Voters) < read.level \/ NeedsFetch
    /\ Spend("faults", MaxFaults)
    /\ read' = NoRead
    /\ votes' = NoVotes
    /\ UNCHANGED <<strategy, object, requestVars, overwrites, beat, floor, tainted>>

RepairOne ==
    /\ Complete
    /\ \E q, r \in Voters : votes[q].time # votes[r].time
    /\ IF \A r \in Voters : votes[r].content # Deleted
       THEN RepairLatest
       ELSE CASE strategy = "DeleteOnConflict" -> RepairDeletion
              [] strategy = "TimeBasedResolution" -> RepairLatest
              [] strategy = "NoAutomatedResolution" ->     \* ErrConflictExistOrDeleted
                   read' = [read EXCEPT !.phase = "repairing", !.failed = TRUE] /\ UNCHANGED overwrites
    /\ UNCHANGED <<strategy, object, requestVars, votes, beat, floor, tainted, used>>

\* All overwrites have been answered: the read returns the object, or the error of a
\* repair
EndRepair ==
    /\ read.phase = "repairing"
    /\ \A o \in overwrites : o.from # Reader
    /\ IF read.failed
       THEN read' = NoRead /\ votes' = NoVotes /\ UNCHANGED floor
       ELSE Return(read.result, read.level)
    /\ UNCHANGED <<strategy, object, requestVars, overwrites, beat, tainted, used>>

-----------------------------------------------------------------------------
(* OverwriteObjects at the replica                                           *)

\* Seeded bug: whatever the strategy, a newer object replaces a deletion
Verdict_AlwaysTimeBased(o, v) ==
    IF v.time # o.stale /\ v.time = o.version.time THEN "skip"
    ELSE IF \/ v.time # o.stale /\ (v.content # Deleted \/ v.time > o.version.time)
            \/ o.version.content # Deleted /\ v.content = Deleted /\ v.time > o.version.time
         THEN "conflict"
    ELSE "write"

\* What becomes of request o at a replica that has v
Verdict(o, v) ==
    LET mayReplaceDeletion == strategy = "TimeBasedResolution" /\ v.time <= o.version.time
    IN  IF v.time # o.stale /\ v.time = o.version.time THEN "skip"
        ELSE IF \/ v.time # o.stale /\ ~(v.content = Deleted /\ mayReplaceDeletion)
                \/ o.version.content # Deleted /\ v.content = Deleted /\ ~mayReplaceDeletion
             THEN "conflict"
        ELSE "write"

\* The reply to o reaches the read or the hashbeat that sent it. A conflict fails the
\* read; the hashbeat goes on with a conflicting deletion.
Replied(o, conflict) ==
    /\ read' = [read EXCEPT !.failed = @ \/ (o.from = Reader /\ conflict)]
    /\ beat' = [s \in Replicas |->
                  IF s # o.from THEN beat[s]
                  ELSE IF conflict /\ object[o.to].content = Deleted
                  THEN [beat[s] EXCEPT !.phase = "conflict", !.stale = object[o.to].time]
                  ELSE Idle]

\* It looks at what it has ...
Check(o) ==
    /\ o \in overwrites /\ ~o.checked
    /\ LET v == object[o.to]
       IN  IF Verdict(o, v) = "write"
           THEN /\ overwrites' = (overwrites \ {o}) \cup {[o EXCEPT !.checked = TRUE, !.seen = v.time]}
                /\ UNCHANGED <<read, beat>>
           ELSE /\ overwrites' = overwrites \ {o}
                /\ Replied(o, Verdict(o, v) = "conflict")
    /\ UNCHANGED <<strategy, object, requestVars, votes, floor, tainted, used>>

\* ... and writes later: nothing is locked in between
Overwrite(o) ==
    /\ o \in overwrites /\ o.checked
    /\ overwrites' = overwrites \ {o}
    /\ Stored(o.to, o.version, o.from)
    /\ Replied(o, FALSE)
    /\ UNCHANGED <<strategy, requestVars, votes, used>>

\* The sender gets no answer, but the request may still be executed
OverwriteFails(o) ==
    /\ o \in overwrites /\ o.from # Nobody
    /\ Spend("faults", MaxFaults)
    /\ overwrites' \in {overwrites \ {o}, (overwrites \ {o}) \cup {[o EXCEPT !.from = Nobody]}}
    /\ read' = [read EXCEPT !.failed = @ \/ o.from = Reader]
    /\ beat' = [s \in Replicas |-> IF s = o.from THEN Idle ELSE beat[s]]
    /\ UNCHANGED <<strategy, object, requestVars, votes, floor, tainted>>

-----------------------------------------------------------------------------
(* Asynchronous replication: hashBeat                                        *)

LiveTime(r) == IF Live(object[r]) THEN object[r].time ELSE 0

\* The hash trees of s and t differ and s has an object: it reads its digest
CompareLocal(s, t) ==
    /\ s \in Beaters /\ t # s
    /\ beat[s] = Idle
    /\ LiveTime(s) # LiveTime(t)
    /\ Live(object[s])
    /\ beat' = [beat EXCEPT ![s] = [Idle EXCEPT !.phase = "local", !.to = t, !.localTime = object[s].time]]
    /\ UNCHANGED <<strategy, object, requestVars, readVars, overwrites, floor, tainted, used>>

Newer(local, remote) == remote < local

\* It compares it with the digest of the remote replica
CompareRemote(s) ==
    /\ beat[s].phase = "local"
    /\ beat' = [beat EXCEPT ![s] =
                  IF Newer(beat[s].localTime, LiveTime(beat[s].to))
                  THEN [@ EXCEPT !.phase = "remote", !.stale = LiveTime(beat[s].to)]
                  ELSE Idle]
    /\ UNCHANGED <<strategy, object, requestVars, readVars, overwrites, floor, tainted, used>>

\* propagateObjects: sends the object as it is now, if it is still there
Propagate(s) ==
    /\ beat[s].phase = "remote"
    /\ IF Live(object[s])
       THEN /\ overwrites' = overwrites \cup
                 {[from |-> s, to |-> beat[s].to, stale |-> beat[s].stale, version |-> object[s],
                   checked |-> FALSE, seen |-> 0]}
            /\ beat' = [beat EXCEPT ![s].phase = "sent"]
       ELSE /\ beat' = [beat EXCEPT ![s] = Idle]
            /\ UNCHANGED overwrites
    /\ UNCHANGED <<strategy, object, requestVars, readVars, floor, tainted, used>>

\* Seeded bug: a conflict with a deletion is left as it is
DeletesLocally_Never(deletionTime, localTime) == strategy = "DeleteOnConflict"

DeletesLocally(deletionTime, localTime) ==
    \/ strategy = "DeleteOnConflict"
    \/ strategy = "TimeBasedResolution" /\ localTime < deletionTime

\* The remote replica answered that it has deleted the object
ResolveConflict(s) ==
    /\ beat[s].phase = "conflict"
    /\ beat' = [beat EXCEPT ![s] = Idle]
    /\ IF DeletesLocally(beat[s].stale, beat[s].localTime)
       THEN Stored(s, [time |-> beat[s].stale, content |-> Deleted], s)
       ELSE UNCHANGED <<object, floor, tainted>>
    /\ UNCHANGED <<strategy, requestVars, readVars, overwrites, used>>

Next ==
    \/ \E content \in Values \cup {Deleted}, level \in Levels : StartWrite(content, level)
    \/ \E w \in Writes, r \in Replicas :
         \/ Prepare(w, r) \/ PrepareFails(w, r)
         \/ Commit(w, r) \/ CommitFails(w, r) \/ CommitLate(w, r)
    \/ \E w \in Writes : Abort(w)
    \/ \E r \in Replicas : Crash(r) \/ \E full \in BOOLEAN : Answer(r, full)
    \/ \E level \in Levels : StartRead(level)
    \/ ReadFails \/ Agree \/ RepairOne \/ EndRepair
    \/ \E o \in overwrites : Check(o) \/ Overwrite(o) \/ OverwriteFails(o)
    \/ \E s \in Beaters, t \in Replicas : CompareLocal(s, t)
    \/ \E s \in Beaters : CompareRemote(s) \/ Propagate(s) \/ ResolveConflict(s)

ReplicatedSpec == Init /\ [][Next]_vars

\* Requests under way are served, and a hashbeat compares the replicas in a random order,
\* so that none is always left out
Fairness ==
    /\ \A w \in Writes, r \in Replicas :
         WF_vars(Prepare(w, r)) /\ WF_vars(Commit(w, r)) /\ WF_vars(CommitFails(w, r) /\ UNCHANGED used)
    /\ \A w \in Writes : WF_vars(Abort(w))
    /\ WF_vars(\E o \in overwrites : Check(o) \/ Overwrite(o))
    /\ \A s, t \in Replicas : SF_vars(CompareLocal(s, t))
    /\ \A s \in Replicas : WF_vars(CompareRemote(s)) /\ WF_vars(Propagate(s)) /\ WF_vars(ResolveConflict(s))

ReplicatedFairSpec == ReplicatedSpec /\ Fairness

-----------------------------------------------------------------------------
(* Properties                                                                *)

OutcomeSet == {"none", "running", "ok", "failed", "aborted"}
Overwrites == [from : Replicas \cup {Reader, Nobody}, to : Replicas, stale : Times, version : Versions,
               checked : BOOLEAN, seen : Times]

ReplicatedTypeOK ==
    /\ strategy \in Strategies
    /\ object \in [Replicas -> Versions]
    /\ tasks \in [Replicas -> SUBSET Writes]
    /\ write \in [Writes -> [content : Contents, level : {0} \cup Levels, outcome : OutcomeSet]]
    /\ call \in [Writes -> [Replicas ->
                    {"none", "prepare", "ready", "refused", "commit", "done", "late", "error"}]]
    /\ read \in [phase : {"idle", "pulling", "repairing", "returned"}, level : {0} \cup Levels,
                 full : Replicas \cup {Nobody}, failed : BOOLEAN, result : Versions, floor : Times]
    /\ Voters \subseteq Replicas /\ \A r \in Voters : votes[r] \in Versions
    /\ overwrites \subseteq Overwrites
    /\ beat \in [Replicas -> [phase : {"idle", "local", "remote", "sent", "conflict"},
                              to : Replicas \cup {Nobody}, localTime : Times, stale : Times]]
    /\ floor \in [1 .. N -> Times]
    /\ tainted \subseteq Writes \cup {Reader}

\* A write that fewer replicas than its level accepted is not stored anywhere, returned by
\* a read, nor about to be.
RefusedWriteLeavesNoTrace ==
    \A w \in Writes : Cardinality(Ready(call[w])) < write[w].level =>
        /\ \A r \in Replicas : object[r].time # w
        /\ \A o \in overwrites : o.version.time # w
        /\ read.result.time # w

\* When a write that W replicas acknowledged, or a read of W replicas, was answered before
\* a read of R replicas started, and W + R > N, the read does not return an older version,
\* unless a replica went back in time, which late commits and overwrites make them do.
ReadsAreMonotonic ==
    [][(read.phase # "returned" /\ read'.phase = "returned" /\ Reader \notin tainted)
            => (read'.result.time >= read.floor \/ strategy = "DeleteOnConflict")]_vars

\* Without automated resolution, whether an object is deleted at a replica changes only
\* when a write is committed there, or an overwrite under way was overtaken by a commit.
DeletionsAreNotResolvedUnasked ==
    [][\A r \in Replicas :
            (/\ strategy = "NoAutomatedResolution"
             /\ (object[r].content = Deleted) # (object'[r].content = Deleted)
             /\ \A o \in overwrites : o.to = r /\ o.checked => o.seen = object[r].time)
                => tasks'[r] # tasks[r]]_vars

\* With a strategy for conflicts and asynchronous replication everywhere, the replicas
\* agree in the end.
ReplicasConverge ==
    (strategy # "NoAutomatedResolution")
        => <>[](\A q, r \in Replicas : Live(object[q]) \/ Live(object[r]) => object[q].content = object[r].content)

=============================================================================
