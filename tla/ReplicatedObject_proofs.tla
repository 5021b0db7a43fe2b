----------------------- MODULE ReplicatedObject_proofs -----------------------
(* Proofs about ReplicatedObject, for every set of replicas, every level and  *)
(* every number of writes, reads and faults: what its variables hold, that    *)
(* reads do not go back behind what writes and reads were answered, that a    *)
(* refused write leaves nothing, and that deletions are not resolved unasked. *)
EXTENDS ReplicatedObject, FiniteSetTheorems, WellFoundedInduction, TLAPS

-----------------------------------------------------------------------------
(* The inductive invariant, in parts                                         *)

Counted ==
    /\ used \in [{"writes", "reads", "faults"} -> Nat]
    /\ used.writes <= MaxWrites

\* A hashbeat that compares and propagates knows with whom
BeatsAreAimed == \A s \in Replicas : beat[s].phase \in {"local", "remote"} => beat[s].to \in Replicas

\* As many replicas as its level asks for have been ready for w
Accepted(w) == write[w].level <= Cardinality(Ready(call[w]))

\* A commit goes out after the level is reached
CommitsAreAccepted ==
    \A w \in Writes, r \in Replicas :
        /\ call[w][r] # "none" => w <= used.writes
        /\ call[w][r] \in {"commit", "done", "late", "error"} => Accepted(w)

\* v is the version of a write that has been accepted, or none
Issued(v) ==
    v = NoVersion \/ /\ v.time \in Writes /\ v.time <= used.writes
                     /\ v.content = write[v.time].content
                     /\ Accepted(v.time)

\* The versions that are stored, answered, sent, returned, or about to be
Held ==
    {object[r] : r \in Replicas} \cup {votes[r] : r \in Voters} \cup {o.version : o \in overwrites}
      \cup {read.result}
      \cup {[time |-> beat[s].stale, content |-> Deleted] : s \in {b \in Replicas : beat[b].phase = "conflict"}}

\* Versions come from accepted writes only, wherever they are
VersionsAreIssued == \A v \in Held : Issued(v)

\* Whom the read has asked, and that its overwrites are out only while it waits for them
ReadIsServed ==
    /\ read.phase = "pulling" =>
         /\ read.level \in Levels
         /\ read.full # Nobody => read.full \in Voters
         /\ Cardinality(Voters) = read.level => read.full # Nobody
    /\ read.phase = "repairing" => read.level \in Levels /\ Cardinality(Voters) = read.level
    /\ \A o \in overwrites : o.from = Reader =>
         read.phase = "repairing" /\ o.version.time = read.result.time

\* The replicas that have reached a time
Reached(time) == {r \in Replicas : time <= object[r].time}

FloorsAreReached == \A k \in 1 .. N : k <= Cardinality(Reached(floor[k]))

\* What a replica acknowledged it has reached, unless the write met one that went back
AcknowledgedIsReached ==
    \A w \in Writes : write[w].outcome = "running" /\ w \notin tainted =>
        \A r \in Replicas : call[w][r] = "done" => w <= object[r].time

\* The replicas that have reached the read's floor, and did when they answered
Current == {r \in Replicas : read.floor <= object[r].time /\ (r \in Voters => read.floor <= votes[r].time)}

\* A read that met no replica that went back ...
ReadKeepsUp ==
    Reader \notin tainted =>
        \* ... has left enough replicas that reached its floor, and answers that still hold,
        /\ read.phase = "pulling" =>
             /\ N - read.level + 1 <= Cardinality(Current)
             /\ \A r \in Voters : votes[r].time <= object[r].time
        \* and repairs towards a version at or after the floor
        /\ read.phase = "repairing" /\ ~read.failed =>
             /\ strategy # "DeleteOnConflict" => read.floor <= read.result.time
             /\ \A r \in Voters : read.result.time <= object[r].time \/ \E o \in overwrites : o.from = Reader /\ o.to = r

\* Without automated resolution, an overwrite carries no deletion, and is checked against
\* a version that is none
OverwritesDeleteNothing ==
    strategy = "NoAutomatedResolution" =>
        \A o \in overwrites :
            /\ o.version.content # Deleted
            /\ o.checked => \E v \in Versions : Issued(v) /\ v.time = o.seen /\ v.content # Deleted

Types == ReplicatedTypeOK /\ Counted

Inductive ==
    /\ Types
    /\ BeatsAreAimed
    /\ CommitsAreAccepted
    /\ VersionsAreIssued
    /\ ReadIsServed
    /\ FloorsAreReached
    /\ AcknowledgedIsReached
    /\ ReadKeepsUp
    /\ OverwritesDeleteNothing

-----------------------------------------------------------------------------
(* Replicas, counted, and their versions, compared                           *)

LEMMA Sizes ==
  /\ IsFiniteSet(Replicas) /\ N \in Nat /\ 1 <= N
  /\ \A level \in Levels : level \in Nat /\ 1 <= level /\ level <= N
  /\ MaxWrites \in Nat /\ MaxReads \in Nat /\ MaxFaults \in Nat
<1>1. IsFiniteSet(Replicas) /\ Replicas # {}
      BY ReplicatedAssumption
<1>2. N \in Nat /\ N # 0
      BY <1>1, FS_CardinalityType, FS_EmptySet DEF N
<1>3. Levels \subseteq 1 .. N /\ {MaxWrites, MaxReads, MaxFaults} \subseteq Nat
      BY ReplicatedAssumption DEF N
<1> QED
    BY <1>1, <1>2, <1>3

LEMMA Subsets ==
  ASSUME NEW S, NEW T, S \subseteq T, T \subseteq Replicas
  PROVE  /\ IsFiniteSet(S) /\ Cardinality(S) \in Nat /\ Cardinality(T) \in Nat
         /\ Cardinality(S) <= Cardinality(T) /\ Cardinality(T) <= N
<1>1. IsFiniteSet(T) /\ Cardinality(T) <= N
      BY Sizes, FS_Subset DEF N
<1>2. IsFiniteSet(S) /\ Cardinality(S) <= Cardinality(T)
      BY <1>1, FS_Subset
<1> QED
    BY <1>1, <1>2, FS_CardinalityType

\* Two sets of replicas that together are more than there are have one in common.
LEMMA QuorumsMeet ==
  ASSUME NEW S, NEW T, S \subseteq Replicas, T \subseteq Replicas,
         NEW s \in Nat, NEW t \in Nat, s <= Cardinality(S), t <= Cardinality(T), N < s + t
  PROVE  \E r \in S : r \in T
<1>1. /\ IsFiniteSet(S) /\ Cardinality(S) \in Nat
      /\ IsFiniteSet(T) /\ Cardinality(T) \in Nat
      BY Subsets
<1>2. Cardinality(S \cup T) <= N
      BY Subsets
<1>3. Cardinality(S \cup T) = Cardinality(S) + Cardinality(T) - Cardinality(S \cap T)
      BY <1>1, FS_Union
<1>4. Cardinality(S \cap T) \in Nat
      BY Subsets
<1>5. Cardinality(S \cap T) # 0
  <2>1. \A a, b, c, d, n \in Nat : \A u : (s <= a /\ t <= b /\ n < s + t /\ u = a + b - c /\ u <= n) => c # 0
        OBVIOUS
  <2> QED
      BY <1>1, <1>2, <1>3, <1>4, <2>1, Sizes
<1> QED
    BY <1>5, FS_EmptySet

\* There is a latest of the answers of some replicas.
LEMMA LatestIs ==
  ASSUME NEW rs, rs # {}, \A r \in rs : votes[r].time \in Times
  PROVE  \E r \in rs : votes[r].time = Latest(rs) /\ \A q \in rs : votes[q].time <= votes[r].time
<1> DEFINE less == OpToRel(<, Nat)
           T == {MaxWrites - votes[r].time : r \in rs}
<1>1. \A t \in Times : t \in Nat /\ MaxWrites - t \in Nat
      BY Sizes DEF Times
<1>2. T \subseteq Nat /\ T # {}
      BY <1>1
<1>3. IsWellFoundedOn(less, Nat)
      BY NatLessThanWellFounded
<1>4. \A i, j \in Nat : i < j => <<i, j>> \in less
      BY DEF OpToRel
<1> HIDE DEF less, T
<1>5. PICK m \in T : \A k \in T : ~(<<k, m>> \in less)
      BY <1>2, <1>3, WFMin
<1>6. PICK r \in rs : m = MaxWrites - votes[r].time
      BY DEF T
<1>7. ASSUME NEW q \in rs
      PROVE  votes[q].time <= votes[r].time
  <2>1. MaxWrites - votes[q].time \in T /\ ~(MaxWrites - votes[q].time < m)
        BY <1>1, <1>2, <1>4, <1>5 DEF T
  <2> QED
      BY <1>1, <1>6, <2>1, Sizes
<1>8. votes[r].time \in {votes[q].time : q \in rs} /\ \A q \in rs : votes[q].time <= votes[r].time
      BY <1>7
<1>9. /\ Latest(rs) \in {votes[q].time : q \in rs}
      /\ \A q \in rs : votes[q].time <= Latest(rs)
      BY <1>8 DEF Latest
<1>10. PICK p \in rs : votes[p].time = Latest(rs)
       BY <1>9
<1> QED
    BY <1>9, <1>10

\* What a replica stores is the new version or the one it has.
LEMMA StoreIs ==
  ASSUME NEW v \in Versions, NEW new \in Versions
  PROVE  /\ Store(v, new) \in {v, new}
         /\ new.content = Deleted /\ ~Live(v) => Store(v, new) = v
         /\ v.content = new.content /\ new.content # Deleted => Store(v, new) = v
<1>1. new = [time |-> new.time, content |-> new.content]
      BY DEF Versions
<1> QED
    BY <1>1 DEF Store, DeleteObject, PutObject

-----------------------------------------------------------------------------
(* What the variables hold                                                   *)

LEMMA TimeTypes ==
  /\ Times \subseteq Nat /\ Writes \subseteq Times /\ 0 \in Times
  /\ NoVersion \in Versions /\ NoVersion.time = 0
  /\ \A w \in Writes : w # Reader
  /\ \A v \in Versions : v.time \in Times /\ v.time \in Nat
<1>1. Times \subseteq Nat /\ Writes \subseteq Times /\ 0 \in Times
      BY Sizes DEF Times, Writes
<1>2. \A w \in Writes : w # Reader
      BY ReplicatedAssumption DEF Writes
<1> QED
    BY <1>1, <1>2 DEF Versions, NoVersion, Contents

LEMMA SpendCounts ==
  ASSUME Counted, NEW what \in {"writes", "reads", "faults"}, NEW bound, Spend(what, bound)
  PROVE  /\ used' \in [{"writes", "reads", "faults"} -> Nat]
         /\ what # "writes" => used'.writes = used.writes
         /\ what = "writes" => used'.writes = used.writes + 1 /\ used.writes < bound
BY DEF Counted, Spend

LEMMA WriteVersion ==
  ASSUME Types, NEW w \in Writes
  PROVE  Version(w) \in Versions
<1>1. write[w].content \in Contents
      BY DEF Types, ReplicatedTypeOK
<1>2. w \in Times
      BY TimeTypes
<1> QED
    BY <1>1, <1>2 DEF Version, Versions

LEMMA StoreTypes ==
  ASSUME Types, NEW r \in Replicas, NEW new \in Versions
  PROVE  [object EXCEPT ![r] = Store(@, new)] \in [Replicas -> Versions]
<1>1. object \in [Replicas -> Versions]
      BY DEF Types, ReplicatedTypeOK
<1>2. Store(object[r], new) \in Versions
      BY <1>1, StoreIs
<1> QED
    BY <1>1, <1>2

LEMMA TaintTypes ==
  ASSUME Types, NEW r, NEW new, NEW who
  PROVE  Tainted(r, new, who) \subseteq Writes \cup {Reader}
BY DEF Types, ReplicatedTypeOK, Tainted, Running

LEMMA FloorTypes ==
  ASSUME Types
  PROVE  /\ NoFloor \in [1 .. N -> Times]
         /\ \A k : \A time \in Times : Raised(k, time) \in [1 .. N -> Times]
BY TimeTypes DEF Types, ReplicatedTypeOK, NoFloor, Raised

LEMMA AnsweredTypes ==
  ASSUME Types, NEW w \in Writes, NEW r \in Replicas, NEW answer \in {"ready", "refused"}
  PROVE  Answered(w, r, answer) \in
           [Replicas -> {"none", "prepare", "ready", "refused", "commit", "done", "late", "error"}]
<1> DEFINE States == {"none", "prepare", "ready", "refused", "commit", "done", "late", "error"}
<1>1. call[w] \in [Replicas -> States]
      BY DEF Types, ReplicatedTypeOK
<1>2. [call[w] EXCEPT ![r] = answer] \in [Replicas -> States]
      BY <1>1
<1>3. \A calls \in [Replicas -> States] :
        [q \in Replicas |-> IF calls[q] = "ready" THEN "commit" ELSE calls[q]] \in [Replicas -> States]
      OBVIOUS
<1> QED
    BY <1>2, <1>3 DEF Answered

LEMMA OutcomeTypes ==
  ASSUME Types, NEW w \in Writes, NEW calls
  PROVE  Outcome(w, calls) \in OutcomeSet
BY DEF Types, ReplicatedTypeOK, Outcome, OutcomeSet

\* Only the outcome of a write changes once it has started.
LEMMA OutcomeChanges ==
  ASSUME Types, NEW w \in Writes, NEW outcome \in OutcomeSet, write' = [write EXCEPT ![w].outcome = outcome]
  PROVE  /\ write' \in [Writes -> [content : Contents, level : {0} \cup Levels, outcome : OutcomeSet]]
         /\ \A v \in Writes : /\ write'[v].content = write[v].content /\ write'[v].level = write[v].level
                             /\ write'[v].outcome = IF v = w THEN outcome ELSE write[v].outcome
<1> DEFINE Records == [content : Contents, level : {0} \cup Levels, outcome : OutcomeSet]
<1>1. write \in [Writes -> Records]
      BY DEF Types, ReplicatedTypeOK
<1>2. /\ [write[w] EXCEPT !.outcome = outcome] \in Records
      /\ [write[w] EXCEPT !.outcome = outcome].content = write[w].content
      /\ [write[w] EXCEPT !.outcome = outcome].level = write[w].level
      /\ [write[w] EXCEPT !.outcome = outcome].outcome = outcome
      BY <1>1
<1>3. write' = [write EXCEPT ![w] = [write[w] EXCEPT !.outcome = outcome]]
      OBVIOUS
<1> HIDE DEF Records
<1>4. write' \in [Writes -> Records]
      BY <1>1, <1>2, <1>3
<1>5. \A v \in Writes : write'[v] = IF v = w THEN [write[w] EXCEPT !.outcome = outcome] ELSE write[v]
      BY <1>1, <1>3
<1> QED
    BY <1>2, <1>4, <1>5 DEF Records

LEMMA StartWriteTypes ==
  ASSUME Types, NEW content \in Values \cup {Deleted}, NEW level \in Levels, StartWrite(content, level)
  PROVE  Types' /\ used.writes + 1 \in Writes /\ used'.writes = used.writes + 1
<1> DEFINE w == used.writes + 1
<1>1. /\ used' \in [{"writes", "reads", "faults"} -> Nat]
      /\ used'.writes = used.writes + 1 /\ used.writes < MaxWrites
      BY SpendCounts DEF StartWrite, Types
<1>2. used.writes \in Nat
      BY DEF Types, Counted
<1>3. w \in Writes /\ Counted'
      BY <1>1, <1>2, Sizes DEF Writes, Counted
<1> HIDE DEF w
<1>4. /\ write' = [write EXCEPT ![w] = [content |-> content, level |-> level, outcome |-> "running"]]
      /\ call' = [call EXCEPT ![w] = [r \in Replicas |-> "prepare"]]
      BY DEF StartWrite, w
<1>5. write' \in [Writes -> [content : Contents, level : {0} \cup Levels, outcome : OutcomeSet]]
      BY <1>4 DEF Types, ReplicatedTypeOK, Contents, OutcomeSet
<1>6. call' \in [Writes -> [Replicas ->
                  {"none", "prepare", "ready", "refused", "commit", "done", "late", "error"}]]
      BY <1>4 DEF Types, ReplicatedTypeOK
<1> QED
    BY <1>1, <1>3, <1>5, <1>6 DEF w, StartWrite, Types, ReplicatedTypeOK, Voters, readVars

LEMMA PrepareTypes ==
  ASSUME Types, NEW w \in Writes, NEW r \in Replicas, Prepare(w, r)
  PROVE  Types'
<1>1. tasks' \in [Replicas -> SUBSET Writes]
      BY DEF Prepare, Types, ReplicatedTypeOK
<1>2. call' \in [Writes -> [Replicas ->
                  {"none", "prepare", "ready", "refused", "commit", "done", "late", "error"}]]
      BY AnsweredTypes DEF Prepare, Types, ReplicatedTypeOK
<1> QED
    BY <1>1, <1>2 DEF Prepare, Types, ReplicatedTypeOK, Counted, Voters, readVars

LEMMA PrepareFailsTypes ==
  ASSUME Types, NEW w \in Writes, NEW r \in Replicas, PrepareFails(w, r)
  PROVE  Types'
<1>1. tasks' \in [Replicas -> SUBSET Writes]
  <2>1. tasks \in [Replicas -> SUBSET Writes] /\ [tasks EXCEPT ![r] = @ \cup {w}] \in [Replicas -> SUBSET Writes]
        BY DEF Types, ReplicatedTypeOK
  <2>2. tasks' \in {tasks, [tasks EXCEPT ![r] = @ \cup {w}]}
        BY DEF PrepareFails
  <2> QED
      BY <2>1, <2>2
<1>2. call' \in [Writes -> [Replicas ->
                  {"none", "prepare", "ready", "refused", "commit", "done", "late", "error"}]]
      BY AnsweredTypes DEF PrepareFails, Types, ReplicatedTypeOK
<1>3. \E outcome \in OutcomeSet : write' = [write EXCEPT ![w].outcome = outcome]
  <2>1. write[w].outcome \in OutcomeSet
        BY DEF Types, ReplicatedTypeOK
  <2> QED
      BY <2>1, OutcomeTypes DEF PrepareFails
<1>4. write' \in [Writes -> [content : Contents, level : {0} \cup Levels, outcome : OutcomeSet]]
      BY <1>3, OutcomeChanges
<1>5. Counted'
      BY SpendCounts DEF PrepareFails, Types, Counted
<1> QED
    BY <1>1, <1>2, <1>4, <1>5 DEF PrepareFails, Types, ReplicatedTypeOK, Voters, readVars

LEMMA AbortTypes ==
  ASSUME Types, NEW w \in Writes, Abort(w)
  PROVE  Types'
<1>1. write' \in [Writes -> [content : Contents, level : {0} \cup Levels, outcome : OutcomeSet]]
      BY OutcomeChanges DEF Abort, OutcomeSet
<1>2. tasks' \in [Replicas -> SUBSET Writes]
      BY DEF Abort, Types, ReplicatedTypeOK
<1> QED
    BY <1>1, <1>2 DEF Abort, Types, ReplicatedTypeOK, Counted, Voters, readVars

LEMMA CommitTypes ==
  ASSUME Types, NEW w \in Writes, NEW r \in Replicas, Commit(w, r)
  PROVE  Types'
<1>1. tasks' \in [Replicas -> SUBSET Writes] /\ tainted' \subseteq Writes \cup {Reader}
      BY TaintTypes DEF Commit, Types, ReplicatedTypeOK
<1>2. object' \in [Replicas -> Versions]
      BY StoreTypes, WriteVersion DEF Commit
<1>3. call' \in [Writes -> [Replicas ->
                  {"none", "prepare", "ready", "refused", "commit", "done", "late", "error"}]]
      BY DEF Commit, Types, ReplicatedTypeOK
<1>4. \E outcome \in OutcomeSet : write' = [write EXCEPT ![w].outcome = outcome]
      BY OutcomeTypes DEF Commit
<1>5. write' \in [Writes -> [content : Contents, level : {0} \cup Levels, outcome : OutcomeSet]]
      BY <1>4, OutcomeChanges
<1>6. floor' \in [1 .. N -> Times]
  <2>1. floor' \in {NoFloor, Raised(write[w].level, w), floor}
        BY DEF Commit
  <2>2. w \in Times /\ floor \in [1 .. N -> Times]
        BY TimeTypes DEF Types, ReplicatedTypeOK
  <2> QED
      BY <2>1, <2>2, FloorTypes
<1>7. UNCHANGED <<strategy, readVars, overwrites, beat, used>>
      BY DEF Commit
<1> QED
    BY <1>1, <1>2, <1>3, <1>5, <1>6, <1>7 DEF Types, ReplicatedTypeOK, Counted, Voters, readVars

LEMMA CommitFailsTypes ==
  ASSUME Types, NEW w \in Writes, NEW r \in Replicas, CommitFails(w, r)
  PROVE  Types'
<1>1. call' \in [Writes -> [Replicas ->
                  {"none", "prepare", "ready", "refused", "commit", "done", "late", "error"}]]
      BY DEF CommitFails, Types, ReplicatedTypeOK
<1>2. \E outcome \in OutcomeSet : write' = [write EXCEPT ![w].outcome = outcome]
      BY OutcomeTypes DEF CommitFails
<1>3. write' \in [Writes -> [content : Contents, level : {0} \cup Levels, outcome : OutcomeSet]]
      BY <1>2, OutcomeChanges
<1>4. Counted'
      BY SpendCounts DEF CommitFails, Types, Counted
<1>5. UNCHANGED <<strategy, object, tasks, readVars, overwrites, beat, floor, tainted>>
      BY DEF CommitFails
<1> QED
    BY <1>1, <1>3, <1>4, <1>5 DEF Types, ReplicatedTypeOK, Voters, readVars

LEMMA StoredTypes ==
  ASSUME Types, NEW r \in Replicas, NEW new \in Versions, NEW who, Stored(r, new, who)
  PROVE  /\ object' \in [Replicas -> Versions] /\ floor' \in [1 .. N -> Times]
         /\ tainted' \subseteq Writes \cup {Reader}
<1>1. object' \in [Replicas -> Versions] /\ tainted' \subseteq Writes \cup {Reader}
      BY StoreTypes, TaintTypes DEF Stored
<1>2. floor' \in [1 .. N -> Times]
      BY FloorTypes DEF Stored, Types, ReplicatedTypeOK
<1> QED
    BY <1>1, <1>2

LEMMA CommitLateTypes ==
  ASSUME Types, NEW w \in Writes, NEW r \in Replicas, CommitLate(w, r)
  PROVE  Types'
<1>1. tasks' \in [Replicas -> SUBSET Writes]
      BY DEF CommitLate, Types, ReplicatedTypeOK
<1>2. /\ object' \in [Replicas -> Versions] /\ floor' \in [1 .. N -> Times]
      /\ tainted' \subseteq Writes \cup {Reader}
      BY StoredTypes, WriteVersion DEF CommitLate
<1>3. UNCHANGED <<strategy, write, call, readVars, overwrites, beat, used>>
      BY DEF CommitLate
<1> QED
    BY <1>1, <1>2, <1>3 DEF Types, ReplicatedTypeOK, Counted, Voters, readVars

Reads == [phase : {"idle", "pulling", "repairing", "returned"}, level : {0} \cup Levels,
          full : Replicas \cup {Nobody}, failed : BOOLEAN, result : Versions, floor : Times]
Beats == [phase : {"idle", "local", "remote", "sent", "conflict"},
          to : Replicas \cup {Nobody}, localTime : Times, stale : Times]

LEMMA RecordTypes ==
  /\ NoRead \in Reads /\ Idle \in Beats
  /\ \A b \in BOOLEAN : \A rd \in Reads : [rd EXCEPT !.failed = b] \in Reads
BY TimeTypes DEF NoRead, Idle, Reads, Beats

LEMMA ReadTypes ==
  ASSUME Types
  PROVE  /\ read \in Reads /\ beat \in [Replicas -> Beats] /\ object \in [Replicas -> Versions]
         /\ \A r \in Voters : votes[r] \in Versions
         /\ Voters \subseteq Replicas /\ floor \in [1 .. N -> Times] /\ overwrites \subseteq Overwrites
BY DEF Types, ReplicatedTypeOK, Reads, Beats

LEMMA ReadStepTypes ==
  ASSUME Types, read' \in Reads, beat' \in [Replicas -> Beats], object' \in [Replicas -> Versions],
         overwrites' \subseteq Overwrites, Voters' \subseteq Replicas, \A r \in Voters' : votes'[r] \in Versions,
         floor' \in [1 .. N -> Times], tainted' \subseteq Writes \cup {Reader}, Counted',
         UNCHANGED <<strategy, write, call>>, tasks' \in [Replicas -> SUBSET Writes]
  PROVE  Types'
<1> QED
    BY DEF Types, ReplicatedTypeOK, Reads, Beats

LEMMA CrashTypes ==
  ASSUME Types, NEW r \in Replicas, Crash(r)
  PROVE  Types'
<1>1. tasks' \in [Replicas -> SUBSET Writes]
      BY DEF Crash, Types, ReplicatedTypeOK
<1>2. overwrites' \subseteq Overwrites
  <2>1. \A o \in Overwrites : [o EXCEPT !.from = IF @ = r THEN Nobody ELSE @] \in Overwrites
        BY DEF Overwrites
  <2> QED
      BY <2>1, ReadTypes DEF Crash
<1>3. beat' \in [Replicas -> Beats]
      BY ReadTypes, RecordTypes DEF Crash
<1>4. read' \in Reads
  <2>1. \E b \in BOOLEAN : read' = [read EXCEPT !.failed = b]
    <3>1. read.failed \in BOOLEAN
          BY ReadTypes DEF Reads
    <3> QED
        BY <3>1 DEF Crash
  <2> QED
      BY <2>1, ReadTypes, RecordTypes
<1>5. Counted'
      BY SpendCounts DEF Crash, Types, Counted
<1>6. UNCHANGED <<strategy, object, write, call, votes, floor, tainted>>
      BY DEF Crash
<1> QED
    BY <1>1, <1>2, <1>3, <1>4, <1>5, <1>6 DEF Types, ReplicatedTypeOK, Reads, Beats, Voters

LEMMA StartReadTypes ==
  ASSUME Types, NEW level \in Levels, StartRead(level)
  PROVE  Types'
<1>1. floor[N - level + 1] \in Times
      BY ReadTypes, Sizes
<1>2. read' \in Reads
      BY <1>1, RecordTypes DEF StartRead, NoRead, Reads
<1>3. Counted'
      BY SpendCounts DEF StartRead, Types, Counted
<1>4. Voters' = {}
      BY DEF StartRead, NoVotes, Voters
<1>5. UNCHANGED <<strategy, object, requestVars, overwrites, beat, floor>> /\ tainted' \subseteq tainted
      BY DEF StartRead
<1> QED
    BY <1>2, <1>3, <1>4, <1>5 DEF Types, ReplicatedTypeOK, Reads, Beats, requestVars

LEMMA AnswerTypes ==
  ASSUME Types, NEW r \in Replicas, NEW full \in BOOLEAN, Answer(r, full)
  PROVE  /\ Types' /\ Voters' = Voters \cup {r}
         /\ \A q \in Voters' : votes'[q] = IF q = r THEN object[r] ELSE votes[q]
<1>1. Voters' = Voters \cup {r} /\ \A q \in Voters' : votes'[q] = IF q = r THEN object[r] ELSE votes[q]
      BY DEF Answer, Voters
<1>2. Voters' \subseteq Replicas /\ \A q \in Voters' : votes'[q] \in Versions
      BY <1>1, ReadTypes
<1>3. read' \in Reads
      BY ReadTypes DEF Answer, Reads
<1>4. UNCHANGED <<strategy, object, requestVars, overwrites, beat, floor, tainted, used>>
      BY DEF Answer
<1> QED
    BY <1>1, <1>2, <1>3, <1>4 DEF Types, ReplicatedTypeOK, Reads, Beats, requestVars, Counted

LEMMA ReadFailsTypes ==
  ASSUME Types, ReadFails
  PROVE  Types'
<1>1. Counted'
      BY SpendCounts DEF ReadFails, Types, Counted
<1>2. Voters' = {} /\ read' \in Reads
      BY RecordTypes DEF ReadFails, NoVotes, Voters
<1>3. UNCHANGED <<strategy, object, requestVars, overwrites, beat, floor, tainted>>
      BY DEF ReadFails
<1> QED
    BY <1>1, <1>2, <1>3 DEF Types, ReplicatedTypeOK, Reads, Beats, requestVars

LEMMA ReturnTypes ==
  ASSUME Types, NEW v \in Versions, NEW count, Return(v, count)
  PROVE  Voters' = {} /\ read' \in Reads /\ floor' \in [1 .. N -> Times]
<1>1. Voters' = {}
      BY DEF Return, NoVotes, Voters
<1>2. read' \in Reads
      BY ReadTypes, RecordTypes DEF Return, Reads, NoRead
<1>3. v.time \in Times
      BY TimeTypes
<1>4. floor' \in [1 .. N -> Times]
      BY <1>3, FloorTypes, ReadTypes DEF Return
<1> QED
    BY <1>1, <1>2, <1>4

\* The replica that answered with the object is among those that answered.
LEMMA FullHasAnswered ==
  ASSUME Types, ReadIsServed, Complete
  PROVE  read.full \in Voters /\ read.level \in Levels /\ Voters # {}
<1>1. read.level \in Levels /\ read.full \in Voters
      BY DEF ReadIsServed, Complete
<1> QED
    BY <1>1

LEMMA AgreeTypes ==
  ASSUME Types, ReadIsServed, Agree
  PROVE  Types'
<1>1. votes[read.full] \in Versions
      BY FullHasAnswered, ReadTypes DEF Agree
<1>2. Voters' = {} /\ read' \in Reads /\ floor' \in [1 .. N -> Times]
      BY <1>1, ReturnTypes DEF Agree
<1>3. UNCHANGED <<strategy, object, requestVars, overwrites, beat, tainted, used>>
      BY DEF Agree
<1> QED
    BY <1>2, <1>3 DEF Types, ReplicatedTypeOK, Reads, Beats, requestVars, Counted

LEMMA RepairTypes ==
  ASSUME Types, NEW v \in Versions, NEW rs \in SUBSET Voters, Repair(v, rs)
  PROVE  read' \in Reads /\ overwrites' \subseteq Overwrites
<1>1. \A r \in rs : [from |-> Reader, to |-> r, stale |-> votes[r].time, version |-> v,
                     checked |-> FALSE, seen |-> 0] \in Overwrites
      BY ReadTypes, TimeTypes DEF Overwrites
<1>2. overwrites' \subseteq Overwrites
      BY <1>1, ReadTypes DEF Repair
<1>3. read' \in Reads
      BY ReadTypes DEF Repair, Reads
<1> QED
    BY <1>2, <1>3

\* What repairOne sends when it does not give up: an answer, or what the replica that gave
\* it has now at the same time, to all whose answer has another time.
Repairs(v, rs) ==
    /\ v \in Versions /\ rs \in SUBSET Voters
    /\ Repair(v, rs)
    /\ \E r \in Voters : v = votes[r] \/ (v = object[r] /\ v.time = votes[r].time)
    /\ \A r \in Voters \ rs : votes[r].time = v.time
    /\ strategy # "DeleteOnConflict" => \A r \in Voters : votes[r].time <= v.time
    /\ strategy = "NoAutomatedResolution" => \A r \in Voters : votes[r].content # Deleted

GivesUp ==
    /\ read' = [read EXCEPT !.phase = "repairing", !.failed = TRUE]
    /\ UNCHANGED overwrites

LEMMA RepairLatestIs ==
  ASSUME Types, ReadIsServed, Complete, RepairLatest,
         strategy = "NoAutomatedResolution" => \A r \in Voters : votes[r].content # Deleted
  PROVE  GivesUp \/ \E v, rs : Repairs(v, rs)
<1> DEFINE last == Latest(Voters)
<1>1. /\ read.full \in Voters /\ \A r \in Voters : votes[r] \in Versions /\ object[r] \in Versions
      /\ ToRepair(last) \in SUBSET Voters
      BY FullHasAnswered, ReadTypes DEF ToRepair
<1>2. \A r \in Voters : votes[r].time <= last
  <2>1. Voters # {} /\ \A r \in Voters : votes[r].time \in Times
        BY <1>1, TimeTypes
  <2> QED
      BY <2>1, LatestIs
<1>3. \A r \in Voters \ ToRepair(last) : votes[r].time = last
      BY DEF ToRepair
<1> HIDE DEF last
<1>4. CASE votes[read.full].time = last
  <2>1. Repair(votes[read.full], ToRepair(last))
        BY <1>4 DEF RepairLatest, last
  <2>2. Repairs(votes[read.full], ToRepair(last))
        BY <1>1, <1>2, <1>3, <1>4, <2>1 DEF Repairs
  <2> QED
      BY <2>2
<1>5. CASE votes[read.full].time # last
  <2>1. PICK winner \in {r \in Voters : votes[r].time = last} :
          IF object[winner].time = last
          THEN Repair(object[winner], ToRepair(last))
          ELSE GivesUp
        BY <1>5 DEF RepairLatest, last, GivesUp
  <2>2. CASE object[winner].time = last
    <3>1. Repair(object[winner], ToRepair(last))
          BY <2>1, <2>2
    <3>2. Repairs(object[winner], ToRepair(last))
          BY <1>1, <1>2, <1>3, <2>1, <2>2, <3>1 DEF Repairs
    <3> QED
        BY <3>2
  <2>3. CASE object[winner].time # last
        BY <2>1, <2>3
  <2> QED
      BY <2>2, <2>3
<1> QED
    BY <1>4, <1>5

LEMMA RepairDeletionIs ==
  ASSUME Types, RepairDeletion, strategy = "DeleteOnConflict", \E r \in Voters : votes[r].content = Deleted
  PROVE  \E v, rs : Repairs(v, rs)
<1> DEFINE deletions == {r \in Voters : votes[r].content = Deleted}
           v == [time |-> Latest(deletions), content |-> Deleted]
           rs == {r \in Voters : votes[r] # v}
<1>1. Repair(v, rs)
      BY DEF RepairDeletion
<1>2. \A r \in deletions : votes[r] \in Versions /\ votes[r].time \in Times
      BY ReadTypes, TimeTypes
<1>3. deletions # {}
      OBVIOUS
<1>4. PICK q \in deletions : votes[q].time = Latest(deletions)
      BY <1>2, <1>3, LatestIs
<1>5. votes[q] = v /\ v \in Versions
      BY <1>2, <1>4 DEF Versions
<1>6. /\ q \in Voters /\ rs \in SUBSET Voters
      /\ \A r \in Voters \ rs : votes[r].time = v.time
      OBVIOUS
<1> HIDE DEF v, rs
<1>7. Repairs(v, rs)
      BY <1>1, <1>5, <1>6 DEF Repairs
<1> QED
    BY <1>7

LEMMA RepairOneIs ==
  ASSUME Types, ReadIsServed, RepairOne
  PROVE  GivesUp \/ \E v, rs : Repairs(v, rs)
<1>1. Complete
      BY DEF RepairOne
<1>2. CASE \A r \in Voters : votes[r].content # Deleted
      BY <1>1, <1>2, RepairLatestIs DEF RepairOne
<1>3. CASE \E r \in Voters : votes[r].content = Deleted
  <2>1. strategy \in {"NoAutomatedResolution", "DeleteOnConflict", "TimeBasedResolution"}
        BY ReplicatedAssumption DEF Types, ReplicatedTypeOK
  <2>2. CASE strategy = "DeleteOnConflict"
        BY <1>3, <2>2, RepairDeletionIs DEF RepairOne
  <2>3. CASE strategy = "TimeBasedResolution"
        BY <1>1, <1>3, <2>3, RepairLatestIs DEF RepairOne
  <2>4. CASE strategy = "NoAutomatedResolution"
        BY <1>3, <2>4 DEF RepairOne, GivesUp
  <2> QED
      BY <2>1, <2>2, <2>3, <2>4
<1> QED
    BY <1>2, <1>3

LEMMA RepairOneTypes ==
  ASSUME Types, ReadIsServed, RepairOne
  PROVE  Types'
<1>1. read' \in Reads /\ overwrites' \subseteq Overwrites
  <2>1. CASE GivesUp
        BY <2>1, ReadTypes DEF GivesUp, Reads
  <2>2. CASE \E v, rs : Repairs(v, rs)
        BY <2>2, RepairTypes DEF Repairs
  <2> QED
      BY <2>1, <2>2, RepairOneIs
<1>2. UNCHANGED <<strategy, object, requestVars, votes, beat, floor, tainted, used>>
      BY DEF RepairOne
<1> QED
    BY <1>1, <1>2 DEF Types, ReplicatedTypeOK, Reads, Beats, requestVars, Counted, Voters

LEMMA EndRepairTypes ==
  ASSUME Types, EndRepair
  PROVE  Types'
<1>1. UNCHANGED <<strategy, object, requestVars, overwrites, beat, tainted, used>>
      BY DEF EndRepair
<1>2. Voters' = {} /\ read' \in Reads /\ floor' \in [1 .. N -> Times]
  <2>1. CASE read.failed
        BY <2>1, RecordTypes, ReadTypes DEF EndRepair, NoVotes, Voters
  <2>2. CASE ~read.failed
    <3>1. read.result \in Versions /\ Return(read.result, read.level)
          BY <2>2, ReadTypes DEF EndRepair, Reads
    <3> QED
        BY <3>1, ReturnTypes
  <2> QED
      BY <2>1, <2>2
<1> QED
    BY <1>1, <1>2 DEF Types, ReplicatedTypeOK, Reads, Beats, requestVars, Counted

LEMMA RepliedTypes ==
  ASSUME Types, NEW o \in Overwrites, NEW conflict \in BOOLEAN, Replied(o, conflict)
  PROVE  read' \in Reads /\ beat' \in [Replicas -> Beats]
<1>1. read' \in Reads
  <2>1. \E b \in BOOLEAN : read' = [read EXCEPT !.failed = b]
    <3>1. read.failed \in BOOLEAN
          BY ReadTypes DEF Reads
    <3> QED
        BY <3>1 DEF Replied
  <2> QED
      BY <2>1, ReadTypes, RecordTypes
<1>2. beat' \in [Replicas -> Beats]
  <2>1. object[o.to].time \in Times
        BY ReadTypes, TimeTypes DEF Overwrites
  <2>2. \A b \in Beats : [b EXCEPT !.phase = "conflict", !.stale = object[o.to].time] \in Beats
        BY <2>1 DEF Beats
  <2> QED
      BY <2>2, ReadTypes, RecordTypes DEF Replied
<1> QED
    BY <1>1, <1>2

LEMMA CheckTypes ==
  ASSUME Types, NEW o \in overwrites, Check(o)
  PROVE  Types'
<1>1. o \in Overwrites
      BY ReadTypes
<1>2. object[o.to].time \in Times
      BY <1>1, ReadTypes, TimeTypes DEF Overwrites
<1>3. overwrites' \subseteq Overwrites /\ read' \in Reads /\ beat' \in [Replicas -> Beats]
  <2>1. CASE Verdict(o, object[o.to]) = "write"
    <3>1. [o EXCEPT !.checked = TRUE, !.seen = object[o.to].time] \in Overwrites
          BY <1>1, <1>2 DEF Overwrites
    <3> QED
        BY <2>1, <3>1, ReadTypes DEF Check
  <2>2. CASE Verdict(o, object[o.to]) # "write"
    <3>1. \E conflict \in BOOLEAN : Replied(o, conflict)
          BY <2>2 DEF Check
    <3> QED
        BY <1>1, <2>2, <3>1, RepliedTypes, ReadTypes DEF Check
  <2> QED
      BY <2>1, <2>2
<1>4. UNCHANGED <<strategy, object, requestVars, votes, floor, tainted, used>>
      BY DEF Check
<1> QED
    BY <1>3, <1>4 DEF Types, ReplicatedTypeOK, Reads, Beats, requestVars, Counted, Voters

LEMMA OverwriteTypes ==
  ASSUME Types, NEW o \in overwrites, Overwrite(o)
  PROVE  Types'
<1>1. o \in Overwrites /\ o.to \in Replicas /\ o.version \in Versions
      BY ReadTypes DEF Overwrites
<1>2. /\ object' \in [Replicas -> Versions] /\ floor' \in [1 .. N -> Times]
      /\ tainted' \subseteq Writes \cup {Reader}
      BY <1>1, StoredTypes DEF Overwrite
<1>3. read' \in Reads /\ beat' \in [Replicas -> Beats]
      BY <1>1, RepliedTypes DEF Overwrite
<1>4. overwrites' \subseteq Overwrites /\ UNCHANGED <<strategy, requestVars, votes, used>>
      BY ReadTypes DEF Overwrite
<1> QED
    BY <1>2, <1>3, <1>4 DEF Types, ReplicatedTypeOK, Reads, Beats, requestVars, Counted, Voters

LEMMA OverwriteFailsTypes ==
  ASSUME Types, NEW o \in overwrites, OverwriteFails(o)
  PROVE  Types'
<1>1. o \in Overwrites
      BY ReadTypes
<1>2. overwrites' \subseteq Overwrites
  <2>1. [o EXCEPT !.from = Nobody] \in Overwrites
        BY <1>1 DEF Overwrites
  <2> QED
      BY <2>1, ReadTypes DEF OverwriteFails
<1>3. read' \in Reads
  <2>1. \E b \in BOOLEAN : read' = [read EXCEPT !.failed = b]
    <3>1. read.failed \in BOOLEAN
          BY ReadTypes DEF Reads
    <3> QED
        BY <3>1 DEF OverwriteFails
  <2> QED
      BY <2>1, ReadTypes, RecordTypes
<1>4. beat' \in [Replicas -> Beats]
      BY ReadTypes, RecordTypes DEF OverwriteFails
<1>5. Counted'
      BY SpendCounts DEF OverwriteFails, Types, Counted
<1>6. UNCHANGED <<strategy, object, requestVars, votes, floor, tainted>>
      BY DEF OverwriteFails
<1> QED
    BY <1>2, <1>3, <1>4, <1>5, <1>6 DEF Types, ReplicatedTypeOK, Reads, Beats, requestVars, Voters

LEMMA BeatTypes ==
  ASSUME Types, NEW s \in Replicas, NEW b \in Beats, beat' = [beat EXCEPT ![s] = b]
  PROVE  beat' \in [Replicas -> Beats]
BY ReadTypes

LEMMA LiveTimeTypes ==
  ASSUME Types, NEW r \in Replicas
  PROVE  LiveTime(r) \in Times
BY ReadTypes, TimeTypes DEF LiveTime

LEMMA CompareLocalTypes ==
  ASSUME Types, NEW s \in Replicas, NEW t \in Replicas, CompareLocal(s, t)
  PROVE  Types'
<1>1. object[s].time \in Times
      BY ReadTypes, TimeTypes
<1>2. [Idle EXCEPT !.phase = "local", !.to = t, !.localTime = object[s].time] \in Beats
      BY <1>1, RecordTypes DEF Beats
<1>3. beat' \in [Replicas -> Beats]
      BY <1>2, BeatTypes DEF CompareLocal
<1>4. UNCHANGED <<strategy, object, requestVars, readVars, overwrites, floor, tainted, used>>
      BY DEF CompareLocal
<1> QED
    BY <1>3, <1>4 DEF Types, ReplicatedTypeOK, Reads, Beats, requestVars, readVars, Counted, Voters

LEMMA CompareRemoteTypes ==
  ASSUME Types, BeatsAreAimed, NEW s \in Replicas, CompareRemote(s)
  PROVE  Types'
<1>1. beat' \in [Replicas -> Beats]
  <2>1. beat[s] \in Beats /\ beat[s].to \in Replicas
        BY ReadTypes DEF BeatsAreAimed, CompareRemote
  <2>2. LiveTime(beat[s].to) \in Times
        BY <2>1, LiveTimeTypes
  <2>3. [beat[s] EXCEPT !.phase = "remote", !.stale = LiveTime(beat[s].to)] \in Beats
        BY <2>1, <2>2 DEF Beats
  <2> QED
      BY <2>3, RecordTypes, ReadTypes DEF CompareRemote
<1>2. UNCHANGED <<strategy, object, requestVars, readVars, overwrites, floor, tainted, used>>
      BY DEF CompareRemote
<1> QED
    BY <1>1, <1>2 DEF Types, ReplicatedTypeOK, Reads, Beats, requestVars, readVars, Counted, Voters

LEMMA PropagateTypes ==
  ASSUME Types, BeatsAreAimed, NEW s \in Replicas, Propagate(s)
  PROVE  Types'
<1>1. beat[s] \in Beats /\ beat[s].to \in Replicas
      BY ReadTypes DEF BeatsAreAimed, Propagate
<1>2. beat' \in [Replicas -> Beats]
  <2>1. [beat[s] EXCEPT !.phase = "sent"] \in Beats
        BY <1>1 DEF Beats
  <2>2. beat' \in {[beat EXCEPT ![s] = [beat[s] EXCEPT !.phase = "sent"]], [beat EXCEPT ![s] = Idle]}
        BY DEF Propagate
  <2> QED
      BY <2>1, <2>2, RecordTypes, ReadTypes
<1>3. overwrites' \subseteq Overwrites
  <2>1. [from |-> s, to |-> beat[s].to, stale |-> beat[s].stale, version |-> object[s],
         checked |-> FALSE, seen |-> 0] \in Overwrites
        BY <1>1, ReadTypes, TimeTypes DEF Overwrites, Beats
  <2> QED
      BY <2>1, ReadTypes DEF Propagate
<1>4. UNCHANGED <<strategy, object, requestVars, readVars, floor, tainted, used>>
      BY DEF Propagate
<1> QED
    BY <1>2, <1>3, <1>4 DEF Types, ReplicatedTypeOK, Reads, Beats, requestVars, readVars, Counted, Voters

LEMMA ResolveConflictTypes ==
  ASSUME Types, NEW s \in Replicas, ResolveConflict(s)
  PROVE  Types'
<1>1. beat' \in [Replicas -> Beats]
      BY RecordTypes, ReadTypes DEF ResolveConflict
<1>2. /\ object' \in [Replicas -> Versions] /\ floor' \in [1 .. N -> Times]
      /\ tainted' \subseteq Writes \cup {Reader}
  <2>1. CASE DeletesLocally(beat[s].stale, beat[s].localTime)
    <3>1. [time |-> beat[s].stale, content |-> Deleted] \in Versions
          BY ReadTypes DEF Beats, Versions, Contents
    <3> QED
        BY <2>1, <3>1, StoredTypes DEF ResolveConflict
  <2>2. CASE ~DeletesLocally(beat[s].stale, beat[s].localTime)
        BY <2>2 DEF ResolveConflict, Types, ReplicatedTypeOK
  <2> QED
      BY <2>1, <2>2
<1>3. UNCHANGED <<strategy, requestVars, readVars, overwrites, used>>
      BY DEF ResolveConflict
<1> QED
    BY <1>1, <1>2, <1>3 DEF Types, ReplicatedTypeOK, Reads, Beats, requestVars, readVars, Counted, Voters

LEMMA InitTypes ==
  ASSUME Init
  PROVE  Types /\ BeatsAreAimed
<1>1. /\ object \in [Replicas -> Versions] /\ beat \in [Replicas -> Beats] /\ read \in Reads
      /\ Voters = {} /\ overwrites = {} /\ tainted = {} /\ tasks \in [Replicas -> SUBSET Writes]
      BY TimeTypes, RecordTypes DEF Init, NoVotes, Voters
<1>2. write \in [Writes -> [content : Contents, level : {0} \cup Levels, outcome : OutcomeSet]]
      BY DEF Init, Contents, OutcomeSet
<1>3. call \in [Writes -> [Replicas ->
                  {"none", "prepare", "ready", "refused", "commit", "done", "late", "error"}]]
      BY DEF Init
<1>4. Counted /\ strategy \in Strategies /\ floor \in [1 .. N -> Times]
      BY Sizes, TimeTypes DEF Init, Counted
<1>5. BeatsAreAimed
      BY DEF Init, BeatsAreAimed, Idle
<1> QED
    BY <1>1, <1>2, <1>3, <1>4, <1>5 DEF Types, ReplicatedTypeOK, Reads, Beats

LEMMA TypesStep ==
  ASSUME Types, BeatsAreAimed, ReadIsServed, [Next]_vars
  PROVE  Types'
<1>1. ASSUME NEW content \in Values \cup {Deleted}, NEW level \in Levels, StartWrite(content, level)
      PROVE  Types'
      BY <1>1, StartWriteTypes
<1>2. ASSUME NEW w \in Writes, NEW r \in Replicas,
             Prepare(w, r) \/ PrepareFails(w, r) \/ Commit(w, r) \/ CommitFails(w, r) \/ CommitLate(w, r)
      PROVE  Types'
      BY <1>2, PrepareTypes, PrepareFailsTypes, CommitTypes, CommitFailsTypes, CommitLateTypes
<1>3. ASSUME NEW w \in Writes, Abort(w)
      PROVE  Types'
      BY <1>3, AbortTypes
<1>4. ASSUME NEW r \in Replicas, Crash(r) \/ \E full \in BOOLEAN : Answer(r, full)
      PROVE  Types'
      BY <1>4, CrashTypes, AnswerTypes
<1>5. ASSUME NEW level \in Levels, StartRead(level)
      PROVE  Types'
      BY <1>5, StartReadTypes
<1>6. ASSUME ReadFails \/ Agree \/ RepairOne \/ EndRepair
      PROVE  Types'
      BY <1>6, ReadFailsTypes, AgreeTypes, RepairOneTypes, EndRepairTypes
<1>7. ASSUME NEW o \in overwrites, Check(o) \/ Overwrite(o) \/ OverwriteFails(o)
      PROVE  Types'
      BY <1>7, CheckTypes, OverwriteTypes, OverwriteFailsTypes
<1>8. ASSUME NEW s \in Beaters, NEW t \in Replicas, CompareLocal(s, t)
      PROVE  Types'
      BY <1>8, CompareLocalTypes, ReplicatedAssumption
<1>9. ASSUME NEW s \in Beaters, CompareRemote(s) \/ Propagate(s) \/ ResolveConflict(s)
      PROVE  Types'
      BY <1>9, CompareRemoteTypes, PropagateTypes, ResolveConflictTypes, ReplicatedAssumption
<1>10. ASSUME UNCHANGED vars
       PROVE  Types'
       BY <1>10 DEF vars, Types, ReplicatedTypeOK, requestVars, readVars, Counted, Voters
<1> QED
    BY <1>1, <1>2, <1>3, <1>4, <1>5, <1>6, <1>7, <1>8, <1>9, <1>10 DEF Next

LEMMA BeatsStayAimed ==
  ASSUME Types, BeatsAreAimed, [Next]_vars
  PROVE  BeatsAreAimed'
<1>0. \A s \in Replicas : beat[s] \in Beats
      BY ReadTypes
<1>1. ASSUME NEW o \in overwrites, NEW conflict, Replied(o, conflict)
      PROVE  BeatsAreAimed'
      BY <1>0, <1>1 DEF Replied, BeatsAreAimed, Idle, Beats
<1>2. ASSUME NEW r \in Replicas, Crash(r)
      PROVE  BeatsAreAimed'
      BY <1>2 DEF Crash, BeatsAreAimed, Idle
<1>3. ASSUME NEW o \in overwrites, Check(o) \/ Overwrite(o) \/ OverwriteFails(o)
      PROVE  BeatsAreAimed'
  <2>1. CASE Check(o) /\ Verdict(o, object[o.to]) = "write"
        BY <2>1 DEF Check, BeatsAreAimed
  <2>2. CASE Check(o) /\ Verdict(o, object[o.to]) # "write"
        BY <1>1, <2>2 DEF Check
  <2>3. CASE Overwrite(o)
        BY <1>1, <2>3 DEF Overwrite
  <2>4. CASE OverwriteFails(o)
        BY <2>4 DEF OverwriteFails, BeatsAreAimed, Idle
  <2> QED
      BY <1>3, <2>1, <2>2, <2>3, <2>4
<1>4. ASSUME NEW s \in Beaters, NEW t \in Replicas, CompareLocal(s, t)
      PROVE  BeatsAreAimed'
  <2>1. s \in Replicas
        BY ReplicatedAssumption
  <2> QED
      BY <1>4, <2>1, ReadTypes DEF CompareLocal, BeatsAreAimed, Idle
<1>5. ASSUME NEW s \in Beaters, CompareRemote(s) \/ Propagate(s) \/ ResolveConflict(s)
      PROVE  BeatsAreAimed'
  <2>1. s \in Replicas /\ beat[s] \in Beats /\ beat \in [Replicas -> Beats]
        BY ReplicatedAssumption, ReadTypes
  <2>2. CASE CompareRemote(s)
    <3>1. beat[s].to \in Replicas
          BY <2>1, <2>2 DEF CompareRemote, BeatsAreAimed
    <3>2. \A b \in Replicas : beat'[b].to = beat[b].to \/ beat'[b] = Idle
          BY <2>1, <2>2 DEF CompareRemote, Beats
    <3>3. \A b \in Replicas : b # s => beat'[b] = beat[b]
          BY <2>1, <2>2 DEF CompareRemote
    <3> QED
        BY <3>1, <3>2, <3>3 DEF BeatsAreAimed, Idle
  <2>3. CASE Propagate(s)
    <3>1. /\ beat'[s].phase = "sent" \/ beat'[s] = Idle
          /\ \A b \in Replicas : b # s => beat'[b] = beat[b]
          BY <2>1, <2>3 DEF Propagate, Beats
    <3> QED
        BY <3>1 DEF BeatsAreAimed, Idle
  <2>4. CASE ResolveConflict(s)
        BY <2>1, <2>4 DEF ResolveConflict, BeatsAreAimed, Idle
  <2> QED
      BY <1>5, <2>2, <2>3, <2>4
<1>6. ASSUME UNCHANGED beat
      PROVE  BeatsAreAimed'
      BY <1>6 DEF BeatsAreAimed
<1>7. ASSUME ReadFails \/ Agree \/ RepairOne \/ EndRepair
      PROVE  UNCHANGED beat
      BY <1>7 DEF ReadFails, Agree, RepairOne, EndRepair
<1>8. ASSUME NEW w \in Writes, NEW r \in Replicas,
             Prepare(w, r) \/ PrepareFails(w, r) \/ Commit(w, r) \/ CommitFails(w, r) \/ CommitLate(w, r)
      PROVE  UNCHANGED beat
      BY <1>8 DEF Prepare, PrepareFails, Commit, CommitFails, CommitLate
<1>9. /\ \A content \in Values \cup {Deleted}, level \in Levels : StartWrite(content, level) => UNCHANGED beat
      /\ \A w \in Writes : Abort(w) => UNCHANGED beat
      /\ \A r \in Replicas, full \in BOOLEAN : Answer(r, full) => UNCHANGED beat
      /\ \A level \in Levels : StartRead(level) => UNCHANGED beat
      /\ UNCHANGED vars => UNCHANGED beat
      BY DEF StartWrite, Abort, Answer, StartRead, vars
<1> QED
    BY <1>2, <1>3, <1>4, <1>5, <1>6, <1>7, <1>8, <1>9 DEF Next

-----------------------------------------------------------------------------
(* Writes are accepted before they are committed, and stay so                *)

States == {"none", "prepare", "ready", "refused", "commit", "done", "late", "error"}

\* What a step leaves of the writes that have started
CallsGrow ==
    /\ used.writes <= used'.writes
    /\ \A w \in Writes : w <= used.writes =>
         /\ write'[w].content = write[w].content /\ write'[w].level = write[w].level
         /\ Ready(call[w]) \subseteq Ready(call'[w])

LEMMA CallTypes ==
  ASSUME Types
  PROVE  /\ call \in [Writes -> [Replicas -> States]]
         /\ \A w \in Writes : /\ write[w].level \in {0} \cup Levels /\ write[w].level \in Nat
                              /\ write[w].outcome \in OutcomeSet /\ write[w].content \in Contents
         /\ used.writes \in Nat /\ used.writes <= MaxWrites
         /\ tasks \in [Replicas -> SUBSET Writes]
BY Sizes DEF Types, ReplicatedTypeOK, Counted, States

LEMMA AcceptedStays ==
  ASSUME Types, Types', CallsGrow, NEW w \in Writes, w <= used.writes, Accepted(w)
  PROVE  Accepted(w)'
<1> DEFINE S == Ready(call[w])
           T == Ready(call'[w])
<1>1. write'[w].level = write[w].level /\ S \subseteq T /\ T \subseteq Replicas
      BY DEF CallsGrow, Ready
<1>2. Cardinality(S) \in Nat /\ Cardinality(T) \in Nat /\ Cardinality(S) <= Cardinality(T)
      BY <1>1, Subsets
<1>3. write[w].level \in Nat /\ write[w].level <= Cardinality(S)
      BY CallTypes DEF Accepted
<1>4. write'[w].level <= Cardinality(T)
      BY <1>1, <1>2, <1>3
<1> QED
    BY <1>4 DEF Accepted, Ready

LEMMA IssuedStays ==
  ASSUME Types, Types', CallsGrow, NEW v, Issued(v)
  PROVE  Issued(v)'
<1>1. CASE v = NoVersion
      BY <1>1 DEF Issued, NoVersion
<1>2. CASE v # NoVersion
  <2>1. /\ v.time \in Writes /\ v.time <= used.writes /\ v.content = write[v.time].content
        /\ Accepted(v.time)
        BY <1>2 DEF Issued
  <2>2. PICK w \in Writes : w = v.time
        BY <2>1
  <2>3. Accepted(w)'
        BY <2>1, <2>2, AcceptedStays
  <2>4. write'[w].content = write[w].content /\ w <= used'.writes
    <3>1. used.writes <= used'.writes /\ used.writes \in Nat /\ used'.writes \in Nat /\ w \in Nat
          BY CallTypes, TimeTypes DEF CallsGrow, Types, Counted
    <3> QED
        BY <2>1, <2>2, <3>1 DEF CallsGrow
  <2>5. v.content = write'[w].content /\ Accepted(w)'
        BY <2>1, <2>2, <2>3, <2>4
  <2> QED
      BY <2>2, <2>4, <2>5 DEF Issued
<1> QED
    BY <1>1, <1>2

\* A step of w's calls
LEMMA CallsStep ==
  ASSUME Types, Types', CommitsAreAccepted, used'.writes = used.writes,
         NEW w \in Writes, NEW calls \in [Replicas -> States], call' = [call EXCEPT ![w] = calls],
         \A v \in Writes : write'[v].content = write[v].content /\ write'[v].level = write[v].level,
         Ready(call[w]) \subseteq Ready(calls),
         \A q \in Replicas : calls[q] # "none" => \E p \in Replicas : call[w][p] # "none",
         \A q \in Replicas : calls[q] \in {"commit", "done", "late", "error"} =>
            \/ \E p \in Replicas : call[w][p] \in {"commit", "done", "late", "error"}
            \/ write[w].level <= Cardinality(Ready(calls))
  PROVE  CommitsAreAccepted' /\ CallsGrow
<1>1. call'[w] = calls /\ \A v \in Writes : v # w => call'[v] = call[v]
      BY CallTypes
<1>2. CallsGrow
  <2>1. used.writes <= used'.writes
        BY CallTypes
  <2>2. \A v \in Writes : Ready(call[v]) \subseteq Ready(call'[v])
        BY <1>1
  <2> QED
      BY <2>1, <2>2 DEF CallsGrow
<1>3. ASSUME NEW v \in Writes, NEW r \in Replicas
      PROVE  /\ call'[v][r] # "none" => v <= used'.writes
             /\ call'[v][r] \in {"commit", "done", "late", "error"} => Accepted(v)'
  <2>1. call'[v][r] # "none" => v <= used'.writes
        BY <1>1 DEF CommitsAreAccepted
  <2>2. ASSUME call'[v][r] \in {"commit", "done", "late", "error"}
        PROVE  Accepted(v)'
    <3>1. CASE \E p \in Replicas : call[v][p] \in {"commit", "done", "late", "error"}
      <4>1. Accepted(v) /\ v <= used.writes
            BY <3>1 DEF CommitsAreAccepted
      <4> QED
          BY <1>2, <4>1, AcceptedStays
    <3>2. CASE ~ \E p \in Replicas : call[v][p] \in {"commit", "done", "late", "error"}
      <4>1. v = w
            BY <1>1, <2>2, <3>2
      <4>2. write[w].level <= Cardinality(Ready(calls))
            BY <1>1, <2>2, <3>2, <4>1
      <4> QED
          BY <1>1, <4>1, <4>2 DEF Accepted, Ready
    <3> QED
        BY <3>1, <3>2
  <2> QED
      BY <2>1, <2>2
<1> QED
    BY <1>2, <1>3 DEF CommitsAreAccepted

LEMMA AnsweredIs ==
  ASSUME Types, NEW w \in Writes, NEW r \in Replicas, call[w][r] = "prepare",
         NEW answer \in {"ready", "refused"}, NEW calls, calls = Answered(w, r, answer)
  PROVE  /\ calls \in [Replicas -> States]
         /\ Ready(call[w]) \subseteq Ready(calls)
         /\ \A q \in Replicas : calls[q] # "none" => \E p \in Replicas : call[w][p] # "none"
         /\ \A q \in Replicas : calls[q] \in {"commit", "done", "late", "error"} =>
              \/ \E p \in Replicas : call[w][p] \in {"commit", "done", "late", "error"}
              \/ write[w].level <= Cardinality(Ready(calls))
         /\ \A q \in Replicas : calls[q] = "done" => call[w][q] = "done"
<1> DEFINE first == [call[w] EXCEPT ![r] = answer]
           sent == [q \in Replicas |-> IF first[q] = "ready" THEN "commit" ELSE first[q]]
<1>1. call[w] \in [Replicas -> States]
      BY CallTypes
<1>2. /\ first \in [Replicas -> States] /\ first[r] = answer
      /\ \A q \in Replicas : q # r => first[q] = call[w][q]
      BY <1>1 DEF States
<1>3. calls = IF Cardinality(Ready(first)) >= write[w].level THEN sent ELSE first
      BY DEF Answered
<1> HIDE DEF first
<1>4. /\ sent \in [Replicas -> States] /\ Ready(sent) = Ready(first)
      /\ \A q \in Replicas : sent[q] = IF first[q] = "ready" THEN "commit" ELSE first[q]
  <2>1. sent \in [Replicas -> States]
        BY <1>2 DEF States
  <2>2. Ready(sent) = Ready(first)
        BY DEF Ready
  <2> QED
      BY <2>1, <2>2
<1> HIDE DEF sent
<1>5. Ready(call[w]) \subseteq Ready(first)
      BY <1>2 DEF Ready
<1>6. CASE Cardinality(Ready(first)) >= write[w].level
  <2>1. Cardinality(Ready(first)) \in Nat /\ write[w].level \in Nat
        BY Subsets, CallTypes DEF Ready
  <2>2. write[w].level <= Cardinality(Ready(calls))
        BY <1>3, <1>4, <1>6, <2>1
  <2>3. \A q \in Replicas : calls[q] = "done" => call[w][q] = "done"
        BY <1>2, <1>3, <1>4, <1>6
  <2> QED
      BY <1>2, <1>3, <1>4, <1>5, <1>6, <2>2, <2>3
<1>7. CASE ~(Cardinality(Ready(first)) >= write[w].level)
      BY <1>2, <1>3, <1>5, <1>7
<1> QED
    BY <1>6, <1>7

LEMMA OutcomeKept ==
  ASSUME Types, NEW w \in Writes, NEW outcome \in OutcomeSet, write' = [write EXCEPT ![w].outcome = outcome]
  PROVE  \A v \in Writes : write'[v].content = write[v].content /\ write'[v].level = write[v].level
BY OutcomeChanges

LEMMA StartWriteCalls ==
  ASSUME Types, Types', CommitsAreAccepted,
         NEW content \in Values \cup {Deleted}, NEW level \in Levels, StartWrite(content, level)
  PROVE  CommitsAreAccepted' /\ CallsGrow
<1> DEFINE w == used.writes + 1
<1>1. w \in Writes /\ used'.writes = w
      BY StartWriteTypes
<1>2. /\ \A v \in Writes : v # w => write'[v] = write[v] /\ call'[v] = call[v]
      /\ call'[w] = [r \in Replicas |-> "prepare"]
      BY CallTypes DEF StartWrite, Types, ReplicatedTypeOK
<1>3. \A v \in Writes : v <= used.writes => v # w /\ v <= used'.writes
      BY <1>1, CallTypes, TimeTypes
<1>4. CallsGrow
  <2>1. used.writes <= used'.writes
        BY <1>1, CallTypes
  <2> QED
      BY <1>2, <1>3, <2>1 DEF CallsGrow
<1>5. ASSUME NEW v \in Writes, NEW r \in Replicas
      PROVE  /\ call'[v][r] # "none" => v <= used'.writes
             /\ call'[v][r] \in {"commit", "done", "late", "error"} => Accepted(v)'
  <2>1. CASE v = w
    <3>1. call'[v][r] = "prepare"
          BY <1>2, <2>1
    <3>2. v <= used'.writes
          BY <1>1, <2>1, TimeTypes
    <3> QED
        BY <3>1, <3>2
  <2>2. CASE v # w
    <3>1. /\ call[v][r] # "none" => v <= used.writes
          /\ call[v][r] \in {"commit", "done", "late", "error"} => Accepted(v) /\ v <= used.writes
          BY DEF CommitsAreAccepted
    <3>2. call'[v] = call[v]
          BY <1>2, <2>2
    <3> QED
        BY <1>3, <1>4, <3>1, <3>2, AcceptedStays
  <2> QED
      BY <2>1, <2>2
<1> QED
    BY <1>4, <1>5 DEF CommitsAreAccepted

LEMMA PrepareCalls ==
  ASSUME Types, Types', CommitsAreAccepted, NEW w \in Writes, NEW r \in Replicas, Prepare(w, r)
  PROVE  CommitsAreAccepted' /\ CallsGrow
<1>1. PICK calls : calls = Answered(w, r, "ready")
      OBVIOUS
<1>2. call' = [call EXCEPT ![w] = calls] /\ UNCHANGED <<write, used>> /\ call[w][r] = "prepare"
      BY <1>1 DEF Prepare
<1>3. /\ calls \in [Replicas -> States]
      /\ Ready(call[w]) \subseteq Ready(calls)
      /\ \A q \in Replicas : calls[q] # "none" => \E p \in Replicas : call[w][p] # "none"
      /\ \A q \in Replicas : calls[q] \in {"commit", "done", "late", "error"} =>
           \/ \E p \in Replicas : call[w][p] \in {"commit", "done", "late", "error"}
           \/ write[w].level <= Cardinality(Ready(calls))
      BY <1>1, <1>2, AnsweredIs
<1> QED
    BY <1>2, <1>3, CallsStep

LEMMA PrepareFailsIs ==
  ASSUME Types, NEW w \in Writes, NEW r \in Replicas, PrepareFails(w, r)
  PROVE  \E calls \in [Replicas -> States], outcome \in OutcomeSet :
           /\ calls = Answered(w, r, "refused") /\ call' = [call EXCEPT ![w] = calls]
           /\ call[w][r] = "prepare" /\ used'.writes = used.writes
           /\ write' = [write EXCEPT ![w].outcome = outcome]
           /\ outcome = write[w].outcome \/ outcome = Outcome(w, calls)
<1>1. used'.writes = used.writes
      BY SpendCounts DEF PrepareFails, Types
<1>2. write[w].outcome \in OutcomeSet
      BY CallTypes
<1>3. PICK calls : calls = Answered(w, r, "refused")
      OBVIOUS
<1>4. call[w][r] = "prepare" /\ call' = [call EXCEPT ![w] = calls]
      BY <1>3 DEF PrepareFails
<1>5. calls \in [Replicas -> States]
      BY <1>3, <1>4, AnsweredIs
<1>6. \E outcome \in OutcomeSet : /\ write' = [write EXCEPT ![w].outcome = outcome]
                                  /\ outcome = write[w].outcome \/ outcome = Outcome(w, calls)
      BY <1>2, <1>3, OutcomeTypes DEF PrepareFails
<1> QED
    BY <1>1, <1>3, <1>4, <1>5, <1>6

LEMMA PrepareFailsCalls ==
  ASSUME Types, Types', CommitsAreAccepted, NEW w \in Writes, NEW r \in Replicas, PrepareFails(w, r)
  PROVE  CommitsAreAccepted' /\ CallsGrow
<1>1. PICK calls \in [Replicas -> States], outcome \in OutcomeSet :
        /\ calls = Answered(w, r, "refused") /\ call' = [call EXCEPT ![w] = calls]
        /\ call[w][r] = "prepare" /\ used'.writes = used.writes
        /\ write' = [write EXCEPT ![w].outcome = outcome]
      BY PrepareFailsIs
<1>2. /\ calls \in [Replicas -> States]
      /\ Ready(call[w]) \subseteq Ready(calls)
      /\ \A q \in Replicas : calls[q] # "none" => \E p \in Replicas : call[w][p] # "none"
      /\ \A q \in Replicas : calls[q] \in {"commit", "done", "late", "error"} =>
           \/ \E p \in Replicas : call[w][p] \in {"commit", "done", "late", "error"}
           \/ write[w].level <= Cardinality(Ready(calls))
      BY <1>1, AnsweredIs
<1>3. \A v \in Writes : write'[v].content = write[v].content /\ write'[v].level = write[v].level
      BY <1>1, OutcomeKept
<1> QED
    BY <1>1, <1>2, <1>3, CallsStep

LEMMA AbortCalls ==
  ASSUME Types, Types', CommitsAreAccepted, NEW w \in Writes, Abort(w)
  PROVE  CommitsAreAccepted' /\ CallsGrow
<1>1. write' = [write EXCEPT ![w].outcome = "aborted"] /\ call' = call /\ used' = used
      BY DEF Abort
<1>2. call' = [call EXCEPT ![w] = call[w]] /\ call[w] \in [Replicas -> States]
      BY <1>1, CallTypes
<1>3. \A v \in Writes : write'[v].content = write[v].content /\ write'[v].level = write[v].level
  <2>1. "aborted" \in OutcomeSet
        BY DEF OutcomeSet
  <2> QED
      BY <1>1, <2>1, OutcomeKept
<1>4. PICK calls \in [Replicas -> States] : calls = call[w]
      BY <1>2
<1>5. call' = [call EXCEPT ![w] = calls] /\ Ready(call[w]) \subseteq Ready(calls)
      BY <1>2, <1>4
<1>6. /\ used'.writes = used.writes
      /\ \A q \in Replicas : calls[q] # "none" => \E p \in Replicas : call[w][p] # "none"
      /\ \A q \in Replicas : calls[q] \in {"commit", "done", "late", "error"} =>
           \/ \E p \in Replicas : call[w][p] \in {"commit", "done", "late", "error"}
           \/ write[w].level <= Cardinality(Ready(calls))
      BY <1>1, <1>4
<1> QED
    BY <1>3, <1>5, <1>6, CallsStep

\* The end of a commit
LEMMA CommitEndsCalls ==
  ASSUME Types, Types', CommitsAreAccepted, NEW w \in Writes, NEW r \in Replicas, call[w][r] = "commit",
         NEW state \in {"done", "late", "error"}, NEW calls, calls = [call[w] EXCEPT ![r] = state],
         call' = [call EXCEPT ![w] = calls], used'.writes = used.writes,
         NEW outcome \in OutcomeSet, write' = [write EXCEPT ![w].outcome = outcome]
  PROVE  CommitsAreAccepted' /\ CallsGrow
<1>1. /\ calls \in [Replicas -> States] /\ calls[r] = state
      /\ \A q \in Replicas : q # r => calls[q] = call[w][q]
      BY CallTypes DEF States
<1>2. Ready(call[w]) \subseteq Ready(calls)
      BY <1>1 DEF Ready
<1>3. \A q \in Replicas : calls[q] # "none" => \E p \in Replicas : call[w][p] # "none"
      BY <1>1
<1>4. \A q \in Replicas : calls[q] \in {"commit", "done", "late", "error"} =>
        \E p \in Replicas : call[w][p] \in {"commit", "done", "late", "error"}
      BY <1>1
<1>5. \A v \in Writes : write'[v].content = write[v].content /\ write'[v].level = write[v].level
      BY OutcomeKept
<1> QED
    BY <1>1, <1>2, <1>3, <1>4, <1>5, CallsStep

LEMMA CommitIs ==
  ASSUME Types, NEW w \in Writes, NEW r \in Replicas, Commit(w, r)
  PROVE  \E calls \in [Replicas -> States], outcome \in OutcomeSet :
           /\ call[w][r] = "commit"
           /\ calls = [call[w] EXCEPT ![r] = "done"] /\ call' = [call EXCEPT ![w] = calls]
           /\ outcome = Outcome(w, calls) /\ write' = [write EXCEPT ![w].outcome = outcome]
           /\ floor' = IF GoesBack(r, Version(w)) THEN NoFloor
                       ELSE IF outcome = "ok" /\ write[w].outcome = "running" /\ w \notin tainted'
                       THEN Raised(write[w].level, w)
                       ELSE floor
<1>1. call[w][r] = "commit"
      BY DEF Commit
<1>2. PICK calls : calls = [call[w] EXCEPT ![r] = "done"]
      OBVIOUS
<1>3. calls \in [Replicas -> States]
      BY <1>2, CallTypes DEF States
<1>4. PICK outcome : outcome = Outcome(w, calls)
      OBVIOUS
<1>5. outcome \in OutcomeSet
      BY <1>4, OutcomeTypes
<1>6. /\ call' = [call EXCEPT ![w] = calls]
      /\ write' = [write EXCEPT ![w].outcome = outcome]
      /\ floor' = IF GoesBack(r, Version(w)) THEN NoFloor
                  ELSE IF outcome = "ok" /\ write[w].outcome = "running" /\ w \notin tainted'
                  THEN Raised(write[w].level, w)
                  ELSE floor
      BY <1>2, <1>4 DEF Commit
<1> QED
    BY <1>1, <1>2, <1>3, <1>4, <1>5, <1>6

LEMMA CommitCalls ==
  ASSUME Types, Types', CommitsAreAccepted, NEW w \in Writes, NEW r \in Replicas, Commit(w, r)
  PROVE  CommitsAreAccepted' /\ CallsGrow
<1>1. PICK calls \in [Replicas -> States], outcome \in OutcomeSet :
        /\ call[w][r] = "commit"
        /\ calls = [call[w] EXCEPT ![r] = "done"] /\ call' = [call EXCEPT ![w] = calls]
        /\ write' = [write EXCEPT ![w].outcome = outcome]
      BY CommitIs
<1>2. used' = used
      BY DEF Commit
<1> QED
    BY <1>1, <1>2, CommitEndsCalls

LEMMA CommitFailsIs ==
  ASSUME Types, NEW w \in Writes, NEW r \in Replicas, CommitFails(w, r)
  PROVE  \E calls \in [Replicas -> States], state \in {"late", "error"}, outcome \in OutcomeSet :
           /\ call[w][r] = "commit" /\ used'.writes = used.writes
           /\ calls = [call[w] EXCEPT ![r] = state] /\ call' = [call EXCEPT ![w] = calls]
           /\ outcome = Outcome(w, calls) /\ write' = [write EXCEPT ![w].outcome = outcome]
<1>1. used'.writes = used.writes
      BY SpendCounts DEF CommitFails, Types
<1> DEFINE state == IF w \in tasks[r] THEN "late" ELSE "error"
<1>2. state \in {"late", "error"}
      OBVIOUS
<1>3. PICK calls : calls = [call[w] EXCEPT ![r] = state]
      OBVIOUS
<1>4. call' = [call EXCEPT ![w] = calls] /\ write' = [write EXCEPT ![w].outcome = Outcome(w, calls)]
      BY <1>3 DEF CommitFails
<1>5. call[w][r] = "commit"
      BY DEF CommitFails
<1> HIDE DEF state
<1>6. calls \in [Replicas -> States]
      BY <1>2, <1>3, CallTypes DEF States
<1>7. Outcome(w, calls) \in OutcomeSet
      BY OutcomeTypes
<1> QED
    BY <1>1, <1>2, <1>3, <1>4, <1>5, <1>6, <1>7

LEMMA CommitFailsCalls ==
  ASSUME Types, Types', CommitsAreAccepted, NEW w \in Writes, NEW r \in Replicas, CommitFails(w, r)
  PROVE  CommitsAreAccepted' /\ CallsGrow
<1>1. PICK calls \in [Replicas -> States], state \in {"late", "error"}, outcome \in OutcomeSet :
        /\ call[w][r] = "commit" /\ used'.writes = used.writes
        /\ calls = [call[w] EXCEPT ![r] = state] /\ call' = [call EXCEPT ![w] = calls]
        /\ write' = [write EXCEPT ![w].outcome = outcome]
      BY CommitFailsIs
<1> QED
    BY <1>1, CommitEndsCalls

\* All other steps leave the writes as they are.
NoCall == UNCHANGED <<write, call>> /\ used'.writes = used.writes

LEMMA NoCalls ==
  ASSUME Types, Types', CommitsAreAccepted, NoCall
  PROVE  CommitsAreAccepted' /\ CallsGrow
<1>1. CallsGrow
      BY CallTypes DEF NoCall, CallsGrow
<1>2. \A w \in Writes : Accepted(w) => Accepted(w)'
      BY DEF Accepted, NoCall
<1> QED
    BY <1>1, <1>2 DEF CommitsAreAccepted, NoCall

LEMMA OtherSteps ==
  ASSUME Types
  PROVE  /\ \A w \in Writes, r \in Replicas : CommitLate(w, r) => NoCall
         /\ \A r \in Replicas : Crash(r) => NoCall
         /\ \A r \in Replicas, full \in BOOLEAN : Answer(r, full) => NoCall
         /\ \A level \in Levels : StartRead(level) => NoCall
         /\ ReadFails \/ Agree \/ RepairOne \/ EndRepair => NoCall
         /\ \A o \in overwrites : Check(o) \/ Overwrite(o) \/ OverwriteFails(o) => NoCall
         /\ \A s \in Beaters, t \in Replicas : CompareLocal(s, t) => NoCall
         /\ \A s \in Beaters : CompareRemote(s) \/ Propagate(s) \/ ResolveConflict(s) => NoCall
         /\ UNCHANGED vars => NoCall
<1>1. \A w \in Writes, r \in Replicas : CommitLate(w, r) => NoCall
      BY DEF CommitLate, NoCall
<1>2. \A r \in Replicas : Crash(r) => NoCall
      BY SpendCounts DEF Crash, NoCall, Types
<1>3. \A r \in Replicas, full \in BOOLEAN : Answer(r, full) => NoCall
      BY DEF Answer, NoCall, requestVars
<1>4. \A level \in Levels : StartRead(level) => NoCall
      BY SpendCounts DEF StartRead, NoCall, requestVars, Types
<1>5. ReadFails => NoCall
      BY SpendCounts DEF ReadFails, NoCall, requestVars, Types
<1>6. (Agree => NoCall) /\ (RepairOne => NoCall) /\ (EndRepair => NoCall)
      BY DEF Agree, RepairOne, EndRepair, NoCall, requestVars
<1>7. \A o \in overwrites : Check(o) \/ Overwrite(o) => NoCall
      BY DEF Check, Overwrite, NoCall, requestVars
<1>8. \A o \in overwrites : OverwriteFails(o) => NoCall
      BY SpendCounts DEF OverwriteFails, NoCall, requestVars, Types
<1>9. \A s \in Beaters, t \in Replicas : CompareLocal(s, t) => NoCall
      BY DEF CompareLocal, NoCall, requestVars
<1>10. \A s \in Beaters : CompareRemote(s) \/ Propagate(s) \/ ResolveConflict(s) => NoCall
       BY DEF CompareRemote, Propagate, ResolveConflict, NoCall, requestVars
<1>11. UNCHANGED vars => NoCall
       BY DEF vars, NoCall, requestVars
<1> QED
    BY <1>1, <1>2, <1>3, <1>4, <1>5, <1>6, <1>7, <1>8, <1>9, <1>10, <1>11

LEMMA CommitsStep ==
  ASSUME Types, Types', CommitsAreAccepted, [Next]_vars
  PROVE  CommitsAreAccepted' /\ CallsGrow
<1>1. ASSUME NEW content \in Values \cup {Deleted}, NEW level \in Levels, StartWrite(content, level)
      PROVE  CommitsAreAccepted' /\ CallsGrow
      BY <1>1, StartWriteCalls
<1>2. ASSUME NEW w \in Writes, NEW r \in Replicas,
             Prepare(w, r) \/ PrepareFails(w, r) \/ Commit(w, r) \/ CommitFails(w, r)
      PROVE  CommitsAreAccepted' /\ CallsGrow
      BY <1>2, PrepareCalls, PrepareFailsCalls, CommitCalls, CommitFailsCalls
<1>3. ASSUME NEW w \in Writes, Abort(w)
      PROVE  CommitsAreAccepted' /\ CallsGrow
      BY <1>3, AbortCalls
<1>4. CASE NoCall
      BY <1>4, NoCalls
<1> QED
    BY <1>1, <1>2, <1>3, <1>4, OtherSteps DEF Next

-----------------------------------------------------------------------------
(* Versions are those of accepted writes                                     *)

LEMMA HeldHas ==
  /\ \A r \in Replicas : object[r] \in Held
  /\ \A r \in Voters : votes[r] \in Held
  /\ \A o \in overwrites : o.version \in Held
  /\ read.result \in Held
  /\ \A s \in Replicas : beat[s].phase = "conflict" => [time |-> beat[s].stale, content |-> Deleted] \in Held
BY DEF Held

LEMMA VersionsStep ==
  ASSUME Types, Types', CallsGrow, VersionsAreIssued, NEW u, Issued(u),
         \A r \in Replicas : object'[r] \in Held \cup {u},
         \A r \in Voters' : votes'[r] \in Held \cup {u},
         \A o \in overwrites' : o.version \in Held \cup {u},
         read'.result \in Held \cup {u},
         \A s \in Replicas : beat'[s].phase = "conflict" =>
             [time |-> beat'[s].stale, content |-> Deleted] \in Held \cup {u}
  PROVE  VersionsAreIssued'
<1>1. Held' \subseteq Held \cup {u}
      BY DEF Held
<1>2. \A v : Issued(v) => Issued(v)'
      BY IssuedStays
<1>3. \A v \in Held' : Issued(v)'
      BY <1>1, <1>2 DEF VersionsAreIssued
<1> QED
    BY <1>3 DEF VersionsAreIssued

LEMMA NoVersionIsIssued == Issued(NoVersion)
BY DEF Issued

\* What Stored leaves a replica with
LEMMA StoredHas ==
  ASSUME Types, NEW r \in Replicas, NEW new \in Versions, object' = [object EXCEPT ![r] = Store(@, new)]
  PROVE  /\ object'[r] = Store(object[r], new) /\ object'[r] \in {object[r], new}
         /\ \A q \in Replicas : q # r => object'[q] = object[q]
         /\ \A q \in Replicas : object'[q] \in Held \cup {new}
<1>1. object'[r] = Store(object[r], new) /\ \A q \in Replicas : q # r => object'[q] = object[q]
      BY ReadTypes
<1>2. object'[r] \in {object[r], new}
      BY <1>1, StoreIs, ReadTypes
<1> QED
    BY <1>1, <1>2, HeldHas

LEMMA CommitIssued ==
  ASSUME Types, Types', CallsGrow, CommitsAreAccepted, VersionsAreIssued,
         NEW w \in Writes, NEW r \in Replicas, Commit(w, r) \/ CommitLate(w, r)
  PROVE  VersionsAreIssued'
<1>1. PICK u \in Versions : u = Version(w)
      BY WriteVersion
<1>2. Accepted(w) /\ w <= used.writes
      BY DEF Commit, CommitLate, CommitsAreAccepted
<1>3. Issued(u)
      BY <1>1, <1>2 DEF Issued, Version
<1>4. object' = [object EXCEPT ![r] = Store(@, u)] /\ UNCHANGED <<readVars, overwrites, beat>>
      BY <1>1 DEF Commit, CommitLate, Stored
<1>5. \A q \in Replicas : object'[q] \in Held \cup {u}
      BY <1>4, StoredHas
<1>6. UNCHANGED <<votes, read, overwrites, beat>>
      BY <1>4 DEF readVars
<1> QED
    BY <1>3, <1>5, <1>6, HeldHas, VersionsStep DEF Voters

LEMMA OverwriteIssued ==
  ASSUME Types, Types', CallsGrow, VersionsAreIssued, NEW o \in overwrites, Overwrite(o)
  PROVE  VersionsAreIssued'
<1>1. o \in Overwrites /\ o.to \in Replicas /\ o.version \in Versions
      BY ReadTypes DEF Overwrites
<1>2. \A q \in Replicas : object'[q] \in Held \cup {o.version}
      BY <1>1, StoredHas DEF Overwrite, Stored
<1>3. o.version \in Held
      BY HeldHas
<1>4. /\ overwrites' \subseteq overwrites /\ votes' = votes
      /\ read'.result = read.result
      /\ \A s \in Replicas : beat'[s] \in {beat[s], Idle}
      BY ReadTypes DEF Overwrite, Replied, Reads
<1>5. \A s \in Replicas : beat'[s].phase = "conflict" => [time |-> beat'[s].stale, content |-> Deleted] \in Held
      BY <1>4, HeldHas DEF Idle
<1> QED
    BY <1>2, <1>3, <1>4, <1>5, HeldHas, NoVersionIsIssued, VersionsStep DEF Voters

LEMMA CheckIssued ==
  ASSUME Types, Types', CallsGrow, VersionsAreIssued, NEW o \in overwrites, Check(o)
  PROVE  VersionsAreIssued'
<1>1. o \in Overwrites /\ o.to \in Replicas /\ object[o.to] \in Versions
      BY ReadTypes DEF Overwrites
<1>2. \A p \in overwrites' : p.version \in Held
  <2>1. \A p \in overwrites' : p \in overwrites \/ p = [o EXCEPT !.checked = TRUE, !.seen = object[o.to].time]
        BY DEF Check
  <2>2. [o EXCEPT !.checked = TRUE, !.seen = object[o.to].time].version = o.version
        BY <1>1 DEF Overwrites
  <2> QED
      BY <2>1, <2>2, HeldHas
<1>3. /\ read'.result = read.result /\ votes' = votes /\ object' = object
      /\ \A s \in Replicas : \/ beat'[s] \in {beat[s], Idle}
                             \/ /\ object[o.to].content = Deleted
                                /\ beat'[s].stale = object[o.to].time
  <2>1. \A s \in Replicas : beat[s] \in Beats
        BY ReadTypes
  <2>2. ASSUME NEW conflict, Replied(o, conflict)
        PROVE  /\ read'.result = read.result
               /\ \A s \in Replicas : \/ beat'[s] \in {beat[s], Idle}
                                      \/ /\ object[o.to].content = Deleted
                                         /\ beat'[s].stale = object[o.to].time
        BY <2>1, <2>2, ReadTypes DEF Replied, Reads, Beats
  <2>3. votes' = votes /\ object' = object
        BY DEF Check
  <2> QED
      BY <2>2, <2>3 DEF Check
<1>4. ASSUME NEW s \in Replicas, beat'[s].phase = "conflict"
      PROVE  [time |-> beat'[s].stale, content |-> Deleted] \in Held
  <2>1. CASE beat'[s] \in {beat[s], Idle}
        BY <1>4, <2>1, HeldHas DEF Idle
  <2>2. CASE object[o.to].content = Deleted /\ beat'[s].stale = object[o.to].time
    <3>1. object[o.to] = [time |-> beat'[s].stale, content |-> Deleted]
          BY <1>1, <2>2 DEF Versions
    <3> QED
        BY <1>1, <3>1, HeldHas
  <2> QED
      BY <1>3, <2>1, <2>2
<1> QED
    BY <1>2, <1>3, <1>4, HeldHas, NoVersionIsIssued, VersionsStep DEF Voters

LEMMA ResolveConflictIssued ==
  ASSUME Types, Types', CallsGrow, VersionsAreIssued, NEW s \in Replicas, ResolveConflict(s)
  PROVE  VersionsAreIssued'
<1>1. /\ [time |-> beat[s].stale, content |-> Deleted] \in Held
      /\ [time |-> beat[s].stale, content |-> Deleted] \in Versions
  <2>1. beat[s] \in Beats
        BY ReadTypes
  <2> QED
      BY <2>1, HeldHas DEF ResolveConflict, Beats, Versions, Contents
<1>2. \A q \in Replicas : object'[q] \in Held
  <2>1. CASE DeletesLocally(beat[s].stale, beat[s].localTime)
        BY <1>1, <2>1, StoredHas DEF ResolveConflict, Stored
  <2>2. CASE ~DeletesLocally(beat[s].stale, beat[s].localTime)
        BY <2>2, HeldHas DEF ResolveConflict
  <2> QED
      BY <2>1, <2>2
<1>3. UNCHANGED <<votes, read, overwrites>> /\ \A q \in Replicas : beat'[q] \in {beat[q], Idle}
      BY ReadTypes DEF ResolveConflict, readVars
<1>4. \A q \in Replicas : beat'[q].phase = "conflict" => [time |-> beat'[q].stale, content |-> Deleted] \in Held
      BY <1>3, HeldHas DEF Idle
<1> QED
    BY <1>2, <1>3, <1>4, HeldHas, NoVersionIsIssued, VersionsStep DEF Voters

\* The steps that store nothing, and leave hashbeats with a conflict as they are or idle
LEMMA QuietIssued ==
  ASSUME Types, Types', CallsGrow, VersionsAreIssued, UNCHANGED object,
         \A r \in Voters' : votes'[r] \in Held \cup {NoVersion},
         \A o \in overwrites' : o.version \in Held \cup {NoVersion},
         read'.result \in Held \cup {NoVersion},
         \A s \in Replicas : beat'[s].phase = "conflict" => beat'[s] = beat[s]
  PROVE  VersionsAreIssued'
BY HeldHas, NoVersionIsIssued, VersionsStep

LEMMA CrashIssued ==
  ASSUME Types, Types', CallsGrow, VersionsAreIssued, NEW r \in Replicas, Crash(r)
  PROVE  VersionsAreIssued'
<1>1. \A o \in overwrites' : o.version \in Held
  <2>1. \A o \in overwrites' : \E p \in overwrites : o = [p EXCEPT !.from = IF @ = r THEN Nobody ELSE @]
        BY DEF Crash
  <2>2. \A p \in overwrites : [p EXCEPT !.from = IF @ = r THEN Nobody ELSE @].version = p.version
        BY ReadTypes DEF Overwrites
  <2>3. \A p \in overwrites : p.version \in Held
        BY HeldHas
  <2> QED
      BY <2>1, <2>2, <2>3
<1>2. /\ object' = object /\ votes' = votes /\ read'.result = read.result
      /\ \A s \in Replicas : beat'[s].phase = "conflict" => beat'[s] = beat[s]
      BY ReadTypes DEF Crash, Idle, Reads
<1> QED
    BY <1>1, <1>2, HeldHas, QuietIssued DEF Voters

LEMMA ReadIssued ==
  ASSUME Types, Types', CallsGrow, ReadIsServed, VersionsAreIssued,
         \/ \E level \in Levels : StartRead(level)
         \/ \E r \in Replicas, full \in BOOLEAN : Answer(r, full)
         \/ ReadFails \/ Agree \/ RepairOne \/ EndRepair
  PROVE  VersionsAreIssued'
<1>1. ASSUME NEW level \in Levels, StartRead(level)
      PROVE  VersionsAreIssued'
  <2>1. Voters' = {} /\ read'.result = NoVersion /\ UNCHANGED <<object, overwrites, beat>>
        BY <1>1 DEF StartRead, NoVotes, Voters, NoRead
  <2> QED
      BY <2>1, HeldHas, QuietIssued
<1>2. ASSUME NEW r \in Replicas, NEW full \in BOOLEAN, Answer(r, full)
      PROVE  VersionsAreIssued'
  <2>1. /\ UNCHANGED <<object, overwrites, beat>> /\ read'.result = read.result
        /\ \A q \in Voters' : votes'[q] \in Held
    <3>1. \A q \in Voters' : votes'[q] \in Held
          BY <1>2, AnswerTypes, HeldHas
    <3> QED
        BY <1>2, <3>1, ReadTypes DEF Answer, Reads
  <2> QED
      BY <2>1, HeldHas, QuietIssued
<1>3. ASSUME NEW v \in Held, NEW count, Return(v, count), UNCHANGED <<object, overwrites, beat>>
      PROVE  VersionsAreIssued'
  <2>1. Voters' = {} /\ read'.result = v
        BY <1>3 DEF Return, NoVotes, Voters, NoRead
  <2> QED
      BY <1>3, <2>1, HeldHas, QuietIssued
<1>4. ASSUME UNCHANGED <<object, overwrites, beat>>, read' = NoRead, votes' = NoVotes
      PROVE  VersionsAreIssued'
  <2>1. Voters' = {} /\ read'.result = NoVersion
        BY <1>4 DEF NoVotes, Voters, NoRead
  <2> QED
      BY <1>4, <2>1, HeldHas, QuietIssued
<1>5. CASE ReadFails
      BY <1>4, <1>5 DEF ReadFails
<1>6. CASE Agree
  <2>1. votes[read.full] \in Held
        BY <1>6, FullHasAnswered, HeldHas DEF Agree
  <2> QED
      BY <1>3, <1>6, <2>1 DEF Agree
<1>7. CASE EndRepair
  <2>1. CASE read.failed
        BY <1>4, <1>7, <2>1 DEF EndRepair
  <2>2. CASE ~read.failed
        BY <1>3, <1>7, <2>2, HeldHas DEF EndRepair
  <2> QED
      BY <2>1, <2>2
<1>8. CASE RepairOne
  <2>1. UNCHANGED <<object, votes, beat>>
        BY <1>8 DEF RepairOne
  <2>2. CASE GivesUp
    <3>1. read'.result = read.result /\ overwrites' = overwrites
          BY <2>2, ReadTypes DEF GivesUp, Reads
    <3> QED
        BY <2>1, <3>1, HeldHas, QuietIssued DEF Voters
  <2>3. ASSUME NEW v, NEW rs, Repairs(v, rs)
        PROVE  VersionsAreIssued'
    <3>1. v \in Held
          BY <2>3, HeldHas, ReadTypes DEF Repairs
    <3>2. read'.result = v /\ \A o \in overwrites' : o \in overwrites \/ o.version = v
          BY <2>3, ReadTypes DEF Repairs, Repair, Reads
    <3> QED
        BY <2>1, <3>1, <3>2, HeldHas, QuietIssued DEF Voters
  <2> QED
      BY <1>8, <2>2, <2>3, RepairOneIs
<1> QED
    BY <1>1, <1>2, <1>5, <1>6, <1>7, <1>8

LEMMA BeatIssued ==
  ASSUME Types, Types', CallsGrow, VersionsAreIssued, NEW s \in Replicas,
         (\E t \in Replicas : CompareLocal(s, t)) \/ CompareRemote(s) \/ Propagate(s)
  PROVE  VersionsAreIssued'
<1>1. object' = object /\ votes' = votes /\ read' = read
      BY DEF CompareLocal, CompareRemote, Propagate, readVars
<1>2. \A q \in Replicas : beat'[q].phase = "conflict" => beat'[q] = beat[q]
  <2>1. \A q \in Replicas : q # s => beat'[q] = beat[q]
        BY ReadTypes DEF CompareLocal, CompareRemote, Propagate
  <2>2. beat'[s].phase # "conflict"
    <3>1. beat \in [Replicas -> Beats] /\ beat[s] \in Beats
          BY ReadTypes
    <3>2. ASSUME NEW t \in Replicas, CompareLocal(s, t)
          PROVE  beat'[s].phase = "local"
          BY <3>1, <3>2 DEF CompareLocal, Idle
    <3>3. CASE CompareRemote(s)
          BY <3>1, <3>3 DEF CompareRemote, Idle, Beats
    <3>4. CASE Propagate(s)
          BY <3>1, <3>4 DEF Propagate, Idle, Beats
    <3> QED
        BY <3>2, <3>3, <3>4
  <2> QED
      BY <2>1, <2>2
<1>3. \A o \in overwrites' : o \in overwrites \/ o.version = object[s]
  <2>1. CASE Propagate(s)
    <3>1. overwrites' = overwrites \/
            overwrites' = overwrites \cup {[from |-> s, to |-> beat[s].to, stale |-> beat[s].stale,
                                            version |-> object[s], checked |-> FALSE, seen |-> 0]}
          BY <2>1 DEF Propagate
    <3> QED
        BY <3>1
  <2>2. CASE ~Propagate(s)
        BY <2>2 DEF CompareLocal, CompareRemote
  <2> QED
      BY <2>1, <2>2
<1>4. \A o \in overwrites' : o.version \in Held
      BY <1>3, HeldHas
<1> QED
    BY <1>1, <1>2, <1>4, HeldHas, QuietIssued DEF Voters

LEMMA OverwriteFailsIssued ==
  ASSUME Types, Types', CallsGrow, VersionsAreIssued, NEW o \in overwrites, OverwriteFails(o)
  PROVE  VersionsAreIssued'
<1>1. \A p \in overwrites' : p.version \in Held
  <2>1. [o EXCEPT !.from = Nobody].version = o.version
        BY ReadTypes DEF Overwrites
  <2>2. \A p \in overwrites' : p \in overwrites \/ p = [o EXCEPT !.from = Nobody]
        BY DEF OverwriteFails
  <2> QED
      BY <2>1, <2>2, HeldHas
<1>2. /\ object' = object /\ votes' = votes /\ read'.result = read.result
      /\ \A s \in Replicas : beat'[s].phase = "conflict" => beat'[s] = beat[s]
      BY ReadTypes DEF OverwriteFails, Idle, Reads
<1> QED
    BY <1>1, <1>2, HeldHas, QuietIssued DEF Voters

\* The steps of a write's calls that store nothing
NoData == UNCHANGED <<object, votes, read, overwrites, beat>>

LEMMA NoDataSteps ==
  /\ \A content \in Values \cup {Deleted}, level \in Levels : StartWrite(content, level) => NoData
  /\ \A w \in Writes, r \in Replicas : Prepare(w, r) \/ PrepareFails(w, r) \/ CommitFails(w, r) => NoData
  /\ \A w \in Writes : Abort(w) => NoData
  /\ UNCHANGED vars => NoData
BY DEF StartWrite, Prepare, PrepareFails, CommitFails, Abort, NoData, readVars, vars

LEMMA IssuedStep ==
  ASSUME Types, Types', CallsGrow, CommitsAreAccepted, ReadIsServed, VersionsAreIssued, [Next]_vars
  PROVE  VersionsAreIssued'
<1>1. CASE NoData
      BY <1>1, HeldHas, QuietIssued DEF NoData, Voters
<1>2. \A w \in Writes, r \in Replicas : Commit(w, r) \/ CommitLate(w, r) => VersionsAreIssued'
      BY CommitIssued
<1>3. \A r \in Replicas : Crash(r) => VersionsAreIssued'
      BY CrashIssued
<1>4. /\ \A level \in Levels : StartRead(level) => VersionsAreIssued'
      /\ \A r \in Replicas, full \in BOOLEAN : Answer(r, full) => VersionsAreIssued'
      /\ ReadFails \/ Agree \/ RepairOne \/ EndRepair => VersionsAreIssued'
      BY ReadIssued
<1>5. \A o \in overwrites : Check(o) \/ Overwrite(o) \/ OverwriteFails(o) => VersionsAreIssued'
      BY CheckIssued, OverwriteIssued, OverwriteFailsIssued
<1>6. /\ \A s \in Beaters, t \in Replicas : CompareLocal(s, t) => VersionsAreIssued'
      /\ \A s \in Beaters : CompareRemote(s) \/ Propagate(s) \/ ResolveConflict(s) => VersionsAreIssued'
      BY BeatIssued, ResolveConflictIssued, ReplicatedAssumption
<1> QED
    BY <1>1, <1>2, <1>3, <1>4, <1>5, <1>6, NoDataSteps DEF Next

-----------------------------------------------------------------------------
(* The read and its overwrites                                               *)

\* The read goes on as it was, and gets no new overwrite.
ReadGoesOn ==
    /\ read'.phase = read.phase /\ read'.level = read.level /\ read'.full = read.full
    /\ read'.result = read.result /\ read'.floor = read.floor
    /\ votes' = votes
    /\ \A o \in overwrites' : o.from = Reader =>
         \E p \in overwrites : p.from = Reader /\ p.to = o.to /\ p.version = o.version

LEMMA ServedStays ==
  ASSUME ReadIsServed, ReadGoesOn
  PROVE  ReadIsServed'
BY DEF ReadIsServed, ReadGoesOn, Voters

LEMMA RepliedGoesOn ==
  ASSUME Types, NEW o \in overwrites, NEW conflict, Replied(o, conflict)
  PROVE  /\ read'.phase = read.phase /\ read'.level = read.level /\ read'.full = read.full
         /\ read'.result = read.result /\ read'.floor = read.floor
         /\ read'.failed = (read.failed \/ (o.from = Reader /\ conflict))
BY ReadTypes DEF Replied, Reads

LEMMA OverwriteGoesOn ==
  ASSUME Types, NEW o \in overwrites, Check(o) \/ Overwrite(o) \/ OverwriteFails(o)
  PROVE  ReadGoesOn
<1>1. o \in Overwrites
      BY ReadTypes
<1>2. CASE Check(o)
  <2>1. \A p \in overwrites' : p \in overwrites \/ p = [o EXCEPT !.checked = TRUE, !.seen = object[o.to].time]
        BY <1>2 DEF Check
  <2>2. /\ [o EXCEPT !.checked = TRUE, !.seen = object[o.to].time].from = o.from
        /\ [o EXCEPT !.checked = TRUE, !.seen = object[o.to].time].to = o.to
        /\ [o EXCEPT !.checked = TRUE, !.seen = object[o.to].time].version = o.version
        BY <1>1 DEF Overwrites
  <2>3. votes' = votes /\ (read' = read \/ \E conflict : Replied(o, conflict))
        BY <1>2 DEF Check
  <2> QED
      BY <2>1, <2>2, <2>3, RepliedGoesOn DEF ReadGoesOn
<1>3. CASE Overwrite(o)
  <2>1. Replied(o, FALSE) /\ votes' = votes /\ overwrites' \subseteq overwrites
        BY <1>3 DEF Overwrite
  <2> QED
      BY <2>1, RepliedGoesOn DEF ReadGoesOn
<1>4. CASE OverwriteFails(o)
  <2>1. \A p \in overwrites' : p \in overwrites \/ p.from = Nobody
    <3>1. [o EXCEPT !.from = Nobody].from = Nobody
          BY <1>1 DEF Overwrites
    <3> QED
        BY <1>4, <3>1 DEF OverwriteFails
  <2>2. /\ read'.phase = read.phase /\ read'.level = read.level /\ read'.full = read.full
        /\ read'.result = read.result /\ read'.floor = read.floor /\ votes' = votes
        BY <1>4, ReadTypes DEF OverwriteFails, Reads
  <2> QED
      BY <2>1, <2>2, ReplicatedAssumption DEF ReadGoesOn
<1> QED
    BY <1>2, <1>3, <1>4

LEMMA CrashGoesOn ==
  ASSUME Types, NEW r \in Replicas, Crash(r)
  PROVE  ReadGoesOn
<1>1. \A o \in overwrites' : o.from = Reader =>
        \E p \in overwrites : p.from = Reader /\ p.to = o.to /\ p.version = o.version
  <2>1. \A p \in overwrites : \A o : o = [p EXCEPT !.from = IF @ = r THEN Nobody ELSE @] =>
          o.from \in {Nobody, p.from} /\ o.to = p.to /\ o.version = p.version
        BY ReadTypes DEF Overwrites
  <2>2. \A o \in overwrites' : \E p \in overwrites : o = [p EXCEPT !.from = IF @ = r THEN Nobody ELSE @]
        BY DEF Crash
  <2>3. ASSUME NEW o \in overwrites', o.from = Reader
        PROVE  \E p \in overwrites : p.from = Reader /\ p.to = o.to /\ p.version = o.version
    <3>1. PICK p \in overwrites : o.from \in {Nobody, p.from} /\ o.to = p.to /\ o.version = p.version
          BY <2>1, <2>2
    <3>2. Reader # Nobody
          BY ReplicatedAssumption
    <3> QED
        BY <2>3, <3>1, <3>2
  <2> QED
      BY <2>3
<1>2. /\ read'.phase = read.phase /\ read'.level = read.level /\ read'.full = read.full
      /\ read'.result = read.result /\ read'.floor = read.floor /\ votes' = votes
      BY ReadTypes DEF Crash, Reads
<1> QED
    BY <1>1, <1>2 DEF ReadGoesOn

LEMMA BeatGoesOn ==
  ASSUME Types, NEW s \in Replicas,
         (\E t \in Replicas : CompareLocal(s, t)) \/ CompareRemote(s) \/ Propagate(s) \/ ResolveConflict(s)
  PROVE  ReadGoesOn
<1>1. read' = read /\ votes' = votes
      BY DEF CompareLocal, CompareRemote, Propagate, ResolveConflict, readVars
<1>2. \A o \in overwrites' : o \in overwrites \/ o.from = s
  <2>1. CASE Propagate(s)
    <3>1. overwrites' = overwrites \/
            overwrites' = overwrites \cup {[from |-> s, to |-> beat[s].to, stale |-> beat[s].stale,
                                            version |-> object[s], checked |-> FALSE, seen |-> 0]}
          BY <2>1 DEF Propagate
    <3> QED
        BY <3>1
  <2>2. CASE ~Propagate(s)
        BY <2>2 DEF CompareLocal, CompareRemote, ResolveConflict
  <2> QED
      BY <2>1, <2>2
<1> QED
    BY <1>1, <1>2, ReplicatedAssumption DEF ReadGoesOn

LEMMA WriteGoesOn ==
  /\ \A content \in Values \cup {Deleted}, level \in Levels : StartWrite(content, level) => ReadGoesOn
  /\ \A w \in Writes, r \in Replicas :
       Prepare(w, r) \/ PrepareFails(w, r) \/ Commit(w, r) \/ CommitFails(w, r) \/ CommitLate(w, r) => ReadGoesOn
  /\ \A w \in Writes : Abort(w) => ReadGoesOn
  /\ UNCHANGED vars => ReadGoesOn
<1>1. UNCHANGED <<read, votes, overwrites>> => ReadGoesOn
      BY DEF ReadGoesOn
<1> QED
    BY <1>1 DEF StartWrite, Prepare, PrepareFails, Commit, CommitFails, CommitLate, Abort, vars, readVars

\* While the read is not repairing it has no overwrites under way.
LEMMA NoneFromReader ==
  ASSUME ReadIsServed, read.phase # "repairing"
  PROVE  \A o \in overwrites : o.from # Reader
BY DEF ReadIsServed

LEMMA StartReadServed ==
  ASSUME Types, ReadIsServed, NEW level \in Levels, StartRead(level)
  PROVE  ReadIsServed'
<1>1. /\ read'.phase = "pulling" /\ read'.level = level /\ read'.full = Nobody
      /\ Voters' = {} /\ overwrites' = overwrites
      BY DEF StartRead, NoRead, NoVotes, Voters
<1>2. \A o \in overwrites : o.from # Reader
      BY NoneFromReader DEF StartRead
<1>3. Cardinality({}) = 0 /\ level # 0
      BY FS_EmptySet, Sizes
<1>4. Cardinality(Voters') # read'.level
      BY <1>1, <1>3
<1> QED
    BY <1>1, <1>2, <1>4 DEF ReadIsServed

LEMMA AnswerServed ==
  ASSUME Types, ReadIsServed, NEW r \in Replicas, NEW full \in BOOLEAN, Answer(r, full)
  PROVE  ReadIsServed'
<1>1. /\ read.phase = "pulling" /\ read'.phase = "pulling" /\ read'.level = read.level
      /\ read'.full = IF full THEN r ELSE read.full
      /\ overwrites' = overwrites /\ r \notin Voters
      /\ Cardinality(Voters) + 1 = read.level => full \/ read.full # Nobody
      BY ReadTypes DEF Answer, Reads
<1>2. Voters' = Voters \cup {r} /\ Voters \subseteq Replicas
      BY AnswerTypes, ReadTypes
<1>3. Cardinality(Voters') = Cardinality(Voters) + 1
  <2>1. IsFiniteSet(Voters)
        BY <1>2, Subsets
  <2> QED
      BY <1>1, <1>2, <2>1, FS_AddElement
<1>4. \A o \in overwrites : o.from # Reader
      BY <1>1, NoneFromReader
<1>5. r # Nobody
      BY ReplicatedAssumption
<1>6. read.level \in Levels /\ (read.full # Nobody => read.full \in Voters)
      BY <1>1 DEF ReadIsServed
<1> QED
    BY <1>1, <1>2, <1>3, <1>4, <1>5, <1>6 DEF ReadIsServed

LEMMA RepairOneServed ==
  ASSUME Types, ReadIsServed, RepairOne
  PROVE  ReadIsServed'
<1>1. /\ read.level \in Levels /\ Cardinality(Voters) = read.level /\ read.phase = "pulling"
      /\ Voters' = Voters
      BY FullHasAnswered DEF RepairOne, Complete, Voters
<1>2. \A o \in overwrites : o.from # Reader
      BY <1>1, NoneFromReader
<1>3. CASE GivesUp
  <2>1. read'.phase = "repairing" /\ read'.level = read.level /\ overwrites' = overwrites
        BY <1>3, ReadTypes DEF GivesUp, Reads
  <2> QED
      BY <1>1, <1>2, <2>1 DEF ReadIsServed
<1>4. ASSUME NEW v, NEW rs, Repairs(v, rs)
      PROVE  ReadIsServed'
  <2>1. /\ read'.phase = "repairing" /\ read'.level = read.level /\ read'.result = v
        /\ \A o \in overwrites' : o \in overwrites \/ o.version = v
        BY <1>4, ReadTypes DEF Repairs, Repair, Reads
  <2> QED
      BY <1>1, <1>2, <2>1 DEF ReadIsServed
<1> QED
    BY <1>3, <1>4, RepairOneIs

\* The end of a read
LEMMA EndServed ==
  ASSUME Types, ReadIsServed, ReadFails \/ Agree \/ EndRepair
  PROVE  ReadIsServed'
<1>1. \A o \in overwrites' : o.from # Reader
      BY NoneFromReader DEF ReadFails, Agree, Complete, EndRepair
<1>2. read'.phase \in {"idle", "returned"}
  <2>1. \A v, count : Return(v, count) => read'.phase = "returned"
        BY DEF Return, NoRead
  <2>2. NoRead.phase = "idle"
        BY DEF NoRead
  <2> QED
      BY <2>1, <2>2 DEF ReadFails, Agree, EndRepair
<1> QED
    BY <1>1, <1>2 DEF ReadIsServed

LEMMA ServedStep ==
  ASSUME Types, ReadIsServed, [Next]_vars
  PROVE  ReadIsServed'
<1>1. CASE ReadGoesOn
      BY <1>1, ServedStays
<1>2. /\ \A level \in Levels : StartRead(level) => ReadIsServed'
      /\ \A r \in Replicas, full \in BOOLEAN : Answer(r, full) => ReadIsServed'
      /\ ReadFails \/ Agree \/ RepairOne \/ EndRepair => ReadIsServed'
      BY StartReadServed, AnswerServed, RepairOneServed, EndServed
<1>3. /\ \A r \in Replicas : Crash(r) => ReadGoesOn
      /\ \A o \in overwrites : Check(o) \/ Overwrite(o) \/ OverwriteFails(o) => ReadGoesOn
      BY CrashGoesOn, OverwriteGoesOn
<1>4. /\ \A s \in Beaters, t \in Replicas : CompareLocal(s, t) => ReadGoesOn
      /\ \A s \in Beaters : CompareRemote(s) \/ Propagate(s) \/ ResolveConflict(s) => ReadGoesOn
      BY BeatGoesOn, ReplicatedAssumption
<1> QED
    BY <1>1, <1>2, <1>3, <1>4, WriteGoesOn DEF Next

-----------------------------------------------------------------------------
(* Replicas go forward, or what was guaranteed is taken back                 *)

Steady == \A r \in Replicas : object[r].time <= object'[r].time

RunningTainted == Reader \in tainted' /\ \A w \in Writes : write[w].outcome = "running" => w \in tainted'

LEMMA ObjectTimes ==
  ASSUME Types, Types'
  PROVE  \A r \in Replicas : object[r].time \in Nat /\ object'[r].time \in Nat
BY TimeTypes DEF Types, ReplicatedTypeOK

LEMMA StoreSteps ==
  ASSUME Types, Types', NEW r \in Replicas, NEW new \in Versions, NEW who,
         object' = [object EXCEPT ![r] = Store(@, new)], tainted' = Tainted(r, new, who)
  PROVE  /\ tainted \subseteq tainted'
         /\ GoesBack(r, new) => RunningTainted
         /\ ~GoesBack(r, new) => Steady
         /\ who \in Running /\ who \notin tainted' => new.time <= object'[r].time
<1>1. /\ object'[r] = Store(object[r], new) /\ \A q \in Replicas : q # r => object'[q] = object[q]
      BY StoredHas
<1>2. object'[r].time \in Nat /\ object[r].time \in Nat /\ new.time \in Nat
      BY ObjectTimes, TimeTypes
<1>3. tainted \subseteq tainted' /\ (GoesBack(r, new) => Running \subseteq tainted')
      /\ (FallsShort(r, new) => {who} \cap Running \subseteq tainted')
      BY DEF Tainted
<1>4. GoesBack(r, new) => RunningTainted
      BY <1>3 DEF Running, RunningTainted
<1>5. ~GoesBack(r, new) => Steady
  <2>1. \A q \in Replicas : object[q].time <= object[q].time
        BY ObjectTimes
  <2> QED
      BY <1>1, <1>2, <2>1 DEF GoesBack, Steady
<1>6. who \in Running /\ who \notin tainted' => new.time <= object'[r].time
      BY <1>1, <1>2, <1>3 DEF FallsShort
<1> QED
    BY <1>3, <1>4, <1>5, <1>6

LEMMA ReachedGrows ==
  ASSUME Types, Types', Steady, NEW t \in Nat
  PROVE  /\ {r \in Replicas : t <= object[r].time} \subseteq {r \in Replicas : t <= object'[r].time}
         /\ \A k \in Nat : k <= Cardinality({r \in Replicas : t <= object[r].time})
                             => k <= Cardinality({r \in Replicas : t <= object'[r].time})
<1> DEFINE S == {r \in Replicas : t <= object[r].time}
           T == {r \in Replicas : t <= object'[r].time}
<1>1. S \subseteq T
      BY ObjectTimes DEF Steady
<1>2. Cardinality(S) \in Nat /\ Cardinality(T) \in Nat /\ Cardinality(S) <= Cardinality(T)
      BY <1>1, Subsets
<1>3. \A k \in Nat : k <= Cardinality(S) => k <= Cardinality(T)
      BY <1>2
<1> QED
    BY <1>1, <1>3

\* Floors that are as before, or have been reached, when no replica went back
LEMMA FloorsKept ==
  ASSUME Types, Types', FloorsAreReached, Steady,
         \A k \in 1 .. N : \/ floor'[k] = floor[k]
                           \/ k <= Cardinality({r \in Replicas : floor'[k] <= object'[r].time})
  PROVE  FloorsAreReached'
<1>1. ASSUME NEW k \in 1 .. N
      PROVE  k <= Cardinality({r \in Replicas : floor'[k] <= object'[r].time})
  <2>1. CASE floor'[k] = floor[k]
    <3>1. floor[k] \in Nat /\ k \in Nat
      <4>1. floor[k] \in Times
            BY ReadTypes
      <4>2. k \in Nat
            BY Sizes
      <4> QED
          BY <4>1, <4>2, TimeTypes
    <3>2. PICK t \in Nat : t = floor[k]
          BY <3>1
    <3>3. k <= Cardinality({r \in Replicas : t <= object[r].time})
          BY <3>2 DEF FloorsAreReached, Reached
    <3>4. k <= Cardinality({r \in Replicas : t <= object'[r].time})
          BY <3>1, <3>3, ReachedGrows
    <3> QED
        BY <2>1, <3>2, <3>4
  <2> QED
      BY <2>1
<1> QED
    BY <1>1 DEF FloorsAreReached, Reached

\* Without floors there is nothing to reach.
LEMMA NoFloorIsReached ==
  ASSUME Types', floor' = NoFloor
  PROVE  FloorsAreReached'
<1>1. \A r \in Replicas : object'[r].time \in Nat
      BY TimeTypes DEF Types, ReplicatedTypeOK
<1>2. {r \in Replicas : 0 <= object'[r].time} = Replicas
      BY <1>1
<1>3. \A k \in 1 .. N : floor'[k] = 0 /\ k <= N
      BY DEF NoFloor
<1> QED
    BY <1>2, <1>3 DEF FloorsAreReached, Reached, N

LEMMA StoredFloors ==
  ASSUME Types, Types', FloorsAreReached, NEW r \in Replicas, NEW new \in Versions, NEW who, Stored(r, new, who)
  PROVE  FloorsAreReached'
<1>1. CASE GoesBack(r, new)
      BY <1>1, NoFloorIsReached DEF Stored
<1>2. CASE ~GoesBack(r, new)
  <2>1. Steady /\ floor' = floor
        BY <1>2, StoreSteps DEF Stored
  <2> QED
      BY <2>1, FloorsKept
<1> QED
    BY <1>1, <1>2

\* What Raised does to a floor
LEMMA RaisedIs ==
  ASSUME Types, NEW count, NEW time, NEW k \in 1 .. N, floor' = Raised(count, time)
  PROVE  floor'[k] = floor[k] \/ (k <= count /\ floor'[k] = time)
BY ReadTypes DEF Raised

\* A floor that enough replicas have reached may be raised.
LEMMA RaisedFloors ==
  ASSUME Types, Types', FloorsAreReached, Steady, NEW count \in Nat, NEW time \in Nat, floor' = Raised(count, time),
         NEW S, S \subseteq Replicas, count <= Cardinality(S), \A r \in S : time <= object'[r].time
  PROVE  FloorsAreReached'
<1> DEFINE T == {r \in Replicas : time <= object'[r].time}
<1>1. Cardinality(S) \in Nat /\ Cardinality(T) \in Nat /\ Cardinality(S) <= Cardinality(T)
  <2>1. S \subseteq T /\ T \subseteq Replicas
        OBVIOUS
  <2> HIDE DEF T
  <2> QED
      BY <2>1, Subsets
<1>2. \A k \in 1 .. N : k <= count => k <= Cardinality(T)
      BY <1>1, Sizes
<1> QED
    BY <1>2, RaisedIs, FloorsKept

LEMMA CommitFloors ==
  ASSUME Types, Types', FloorsAreReached, AcknowledgedIsReached,
         NEW w \in Writes, NEW r \in Replicas, Commit(w, r)
  PROVE  FloorsAreReached'
<1>1. PICK calls \in [Replicas -> States], outcome \in OutcomeSet :
        /\ call[w][r] = "commit"
        /\ calls = [call[w] EXCEPT ![r] = "done"]
        /\ outcome = Outcome(w, calls)
        /\ floor' = IF GoesBack(r, Version(w)) THEN NoFloor
                    ELSE IF outcome = "ok" /\ write[w].outcome = "running" /\ w \notin tainted'
                    THEN Raised(write[w].level, w)
                    ELSE floor
      BY CommitIs
<1>2. PICK new \in Versions : new = Version(w)
      BY WriteVersion
<1>3. object' = [object EXCEPT ![r] = Store(@, new)] /\ tainted' = Tainted(r, new, w)
      BY <1>2 DEF Commit
<1>4. CASE GoesBack(r, new)
      BY <1>1, <1>2, <1>4, NoFloorIsReached
<1>5. ASSUME ~GoesBack(r, new), outcome = "ok", write[w].outcome = "running", w \notin tainted'
      PROVE  FloorsAreReached'
  <2> DEFINE S == {q \in Replicas : calls[q] = "done"}
  <2>1. Steady /\ tainted \subseteq tainted' /\ w <= object'[r].time
    <3>1. w \in Running /\ new.time = w
          BY <1>2, <1>5 DEF Running, Version
    <3> QED
        BY <1>3, <1>5, <3>1, StoreSteps
  <2>2. \A q \in S : w <= object'[q].time
    <3>1. \A q \in S : q # r => call[w][q] = "done"
          BY <1>1
    <3>2. \A q \in Replicas : call[w][q] = "done" => w <= object[q].time
          BY <1>5, <2>1 DEF AcknowledgedIsReached
    <3>3. \A q \in Replicas : q # r => object'[q] = object[q]
          BY <1>3, StoredHas
    <3> QED
        BY <2>1, <3>1, <3>2, <3>3
  <2>3. write[w].level <= Cardinality(S)
    <3>1. Cardinality(S) >= write[w].level
          BY <1>1, <1>5 DEF Outcome
    <3>2. Cardinality(S) \in Nat /\ write[w].level \in Nat
          BY Subsets, CallTypes
    <3> HIDE DEF S
    <3> QED
        BY <3>1, <3>2
  <2>4. floor' = Raised(write[w].level, w) /\ write[w].level \in Nat /\ w \in Nat
        BY <1>1, <1>2, <1>5, CallTypes, TimeTypes
  <2>5. S \subseteq Replicas
        OBVIOUS
  <2> HIDE DEF S
  <2> QED
      BY <2>1, <2>2, <2>3, <2>4, <2>5, RaisedFloors
<1>6. ASSUME ~GoesBack(r, new), ~(outcome = "ok" /\ write[w].outcome = "running" /\ w \notin tainted')
      PROVE  FloorsAreReached'
  <2>1. Steady /\ floor' = floor
        BY <1>1, <1>2, <1>3, <1>6, StoreSteps
  <2> QED
      BY <2>1, FloorsKept
<1> QED
    BY <1>4, <1>5, <1>6

LEMMA ResolveFloors ==
  ASSUME Types, Types', FloorsAreReached, NEW s \in Replicas, ResolveConflict(s)
  PROVE  FloorsAreReached'
<1>1. CASE DeletesLocally(beat[s].stale, beat[s].localTime)
  <2>1. PICK new \in Versions : new = [time |-> beat[s].stale, content |-> Deleted]
    <3>1. beat[s] \in Beats
          BY ReadTypes
    <3> QED
        BY <3>1 DEF Beats, Versions, Contents
  <2>2. Stored(s, new, s)
        BY <1>1, <2>1 DEF ResolveConflict
  <2> QED
      BY <2>2, StoredFloors
<1>2. CASE ~DeletesLocally(beat[s].stale, beat[s].localTime)
  <2>1. object' = object /\ floor' = floor
        BY <1>2 DEF ResolveConflict
  <2>2. Steady
        BY <2>1, ObjectTimes DEF Steady
  <2> QED
      BY <2>1, <2>2, FloorsKept
<1> QED
    BY <1>1, <1>2

\* The reads' replies that raise a floor
LEMMA ReturnFloors ==
  ASSUME Types, Types', FloorsAreReached, UNCHANGED object, NEW v \in Versions, NEW count \in Nat, Return(v, count),
         Reader \notin tainted =>
             Cardinality(Voters) = count /\ \A r \in Voters : v.time <= object[r].time
  PROVE  FloorsAreReached'
<1>1. Steady
      BY ObjectTimes DEF Steady
<1>2. CASE Reader \in tainted
  <2>1. floor' = floor
        BY <1>2 DEF Return
  <2> QED
      BY <1>1, <2>1, FloorsKept
<1>3. CASE Reader \notin tainted
  <2>1. floor' = Raised(count, v.time) /\ v.time \in Nat
        BY <1>3, TimeTypes DEF Return
  <2>2. PICK S : S = Voters
        OBVIOUS
  <2>3. S \subseteq Replicas /\ count <= Cardinality(S) /\ \A r \in S : v.time <= object'[r].time
        BY <1>3, <2>2, ReadTypes
  <2> QED
      BY <1>1, <2>1, <2>3, RaisedFloors
<1> QED
    BY <1>2, <1>3

\* What the replicas of a read that is complete, or has repaired, have reached
LEMMA AgreeFloors ==
  ASSUME Types, Types', ReadIsServed, ReadKeepsUp, FloorsAreReached, Agree
  PROVE  FloorsAreReached'
<1>1. /\ read.full \in Voters /\ read.level \in Nat /\ Cardinality(Voters) = read.level
      /\ read.phase = "pulling"
      BY FullHasAnswered, Sizes DEF Agree, Complete
<1>2. PICK v \in Versions : v = votes[read.full]
      BY <1>1, ReadTypes
<1>3. \A r \in Voters : votes[r].time = v.time
      BY <1>1, <1>2 DEF Agree
<1>4. Reader \notin tainted => \A r \in Voters : v.time <= object[r].time
      BY <1>1, <1>3 DEF ReadKeepsUp
<1>5. Return(v, read.level) /\ UNCHANGED object
      BY <1>2 DEF Agree
<1> QED
    BY <1>1, <1>4, <1>5, ReturnFloors

LEMMA EndRepairFloors ==
  ASSUME Types, Types', ReadIsServed, ReadKeepsUp, FloorsAreReached, EndRepair
  PROVE  FloorsAreReached'
<1>1. /\ read.phase = "repairing" /\ UNCHANGED object /\ \A o \in overwrites : o.from # Reader
      BY DEF EndRepair
<1>2. read.level \in Nat /\ Cardinality(Voters) = read.level
      BY <1>1, Sizes DEF ReadIsServed
<1>3. CASE read.failed
  <2>1. floor' = floor /\ Steady
        BY <1>1, <1>3, ObjectTimes DEF EndRepair, Steady
  <2> QED
      BY <2>1, FloorsKept
<1>4. CASE ~read.failed
  <2>1. PICK v \in Versions : v = read.result
        BY ReadTypes DEF Reads
  <2>2. Return(v, read.level)
        BY <1>4, <2>1 DEF EndRepair
  <2>3. Reader \notin tainted => \A r \in Voters : v.time <= object[r].time
        BY <1>1, <1>4, <2>1 DEF ReadKeepsUp
  <2> QED
      BY <1>1, <1>2, <2>2, <2>3, ReturnFloors
<1> QED
    BY <1>3, <1>4

\* The steps that store nothing and raise nothing
StillStep == UNCHANGED <<object, floor>>

LEMMA StillSteps ==
  /\ \A content \in Values \cup {Deleted}, level \in Levels : StartWrite(content, level) => StillStep
  /\ \A w \in Writes, r \in Replicas : Prepare(w, r) \/ PrepareFails(w, r) \/ CommitFails(w, r) => StillStep
  /\ \A w \in Writes : Abort(w) => StillStep
  /\ \A r \in Replicas : Crash(r) => StillStep
  /\ \A r \in Replicas, full \in BOOLEAN : Answer(r, full) => StillStep
  /\ \A level \in Levels : StartRead(level) => StillStep
  /\ ReadFails \/ RepairOne => StillStep
  /\ \A o \in overwrites : Check(o) \/ OverwriteFails(o) => StillStep
  /\ \A s \in Beaters, t \in Replicas : CompareLocal(s, t) => StillStep
  /\ \A s \in Beaters : CompareRemote(s) \/ Propagate(s) => StillStep
  /\ UNCHANGED vars => StillStep
<1>1. /\ \A content \in Values \cup {Deleted}, level \in Levels : StartWrite(content, level) => StillStep
      /\ \A w \in Writes, r \in Replicas : Prepare(w, r) \/ PrepareFails(w, r) \/ CommitFails(w, r) => StillStep
      /\ \A w \in Writes : Abort(w) => StillStep
      /\ \A r \in Replicas : Crash(r) => StillStep
      BY DEF StillStep, StartWrite, Prepare, PrepareFails, CommitFails, Abort, Crash
<1>2. /\ \A r \in Replicas, full \in BOOLEAN : Answer(r, full) => StillStep
      /\ \A level \in Levels : StartRead(level) => StillStep
      /\ ReadFails \/ RepairOne => StillStep
      BY DEF StillStep, Answer, StartRead, ReadFails, RepairOne
<1>3. /\ \A o \in overwrites : Check(o) \/ OverwriteFails(o) => StillStep
      /\ \A s \in Beaters, t \in Replicas : CompareLocal(s, t) => StillStep
      /\ \A s \in Beaters : CompareRemote(s) \/ Propagate(s) => StillStep
      /\ UNCHANGED vars => StillStep
      BY DEF StillStep, Check, OverwriteFails, CompareLocal, CompareRemote, Propagate, vars
<1> QED
    BY <1>1, <1>2, <1>3

LEMMA FloorsStep ==
  ASSUME Types, Types', ReadIsServed, ReadKeepsUp, AcknowledgedIsReached, FloorsAreReached, [Next]_vars
  PROVE  FloorsAreReached'
<1>1. CASE StillStep
  <2>1. Steady /\ floor' = floor
        BY <1>1, ObjectTimes DEF StillStep, Steady
  <2> QED
      BY <2>1, FloorsKept
<1>2. \A w \in Writes, r \in Replicas : Commit(w, r) => FloorsAreReached'
      BY CommitFloors
<1>3. ASSUME NEW w \in Writes, NEW r \in Replicas, CommitLate(w, r)
      PROVE  FloorsAreReached'
  <2>1. PICK new \in Versions : new = Version(w)
        BY WriteVersion
  <2>2. Stored(r, new, w)
        BY <1>3, <2>1 DEF CommitLate
  <2> QED
      BY <2>2, StoredFloors
<1>4. ASSUME NEW o \in overwrites, Overwrite(o)
      PROVE  FloorsAreReached'
  <2>1. o.to \in Replicas /\ o.version \in Versions
        BY ReadTypes DEF Overwrites
  <2>2. Stored(o.to, o.version, o.from)
        BY <1>4 DEF Overwrite
  <2> QED
      BY <2>1, <2>2, StoredFloors
<1>5. Agree \/ EndRepair => FloorsAreReached'
      BY AgreeFloors, EndRepairFloors
<1>6. \A s \in Beaters : ResolveConflict(s) => FloorsAreReached'
      BY ResolveFloors, ReplicatedAssumption
<1> QED
    BY <1>1, <1>2, <1>3, <1>4, <1>5, <1>6, StillSteps DEF Next

-----------------------------------------------------------------------------
(* What was acknowledged                                                     *)

\* Acknowledgements come with commits only.
WritesFollow ==
    \A w \in Writes : write'[w].outcome = "running" =>
        \/ \A r \in Replicas : call'[w][r] # "done"
        \/ /\ write[w].outcome = "running"
           /\ \A r \in Replicas : call'[w][r] = "done" => call[w][r] = "done"

ObjectsFollow == tainted \ {Reader} \subseteq tainted' /\ (Steady \/ RunningTainted)

LEMMA AcknowledgedKept ==
  ASSUME Types, Types', AcknowledgedIsReached, WritesFollow, ObjectsFollow
  PROVE  AcknowledgedIsReached'
<1>1. ASSUME NEW w \in Writes, NEW r \in Replicas,
             write'[w].outcome = "running", w \notin tainted', call'[w][r] = "done"
      PROVE  w <= object'[r].time
  <2>1. write[w].outcome = "running" /\ call[w][r] = "done" /\ w \notin tainted
        BY <1>1, TimeTypes DEF WritesFollow, ObjectsFollow
  <2>2. w <= object[r].time
        BY <2>1 DEF AcknowledgedIsReached
  <2>3. object[r].time <= object'[r].time
        BY <1>1, <2>1 DEF ObjectsFollow, Steady, RunningTainted
  <2>4. w \in Nat /\ object[r].time \in Nat /\ object'[r].time \in Nat
        BY ObjectTimes, TimeTypes
  <2> QED
      BY <2>2, <2>3, <2>4
<1> QED
    BY <1>1 DEF AcknowledgedIsReached

LEMMA StartWriteFollows ==
  ASSUME Types, NEW content \in Values \cup {Deleted}, NEW level \in Levels, StartWrite(content, level)
  PROVE  WritesFollow
<1> DEFINE w == used.writes + 1
<1>1. w \in Writes
      BY StartWriteTypes
<1>2. /\ \A v \in Writes : v # w => write'[v] = write[v] /\ call'[v] = call[v]
      /\ call'[w] = [r \in Replicas |-> "prepare"]
      BY <1>1, CallTypes DEF StartWrite, Types, ReplicatedTypeOK
<1> QED
    BY <1>2 DEF WritesFollow

\* A step of w's calls that acknowledges nothing
LEMMA CallsFollow ==
  ASSUME Types, NEW w \in Writes, NEW calls \in [Replicas -> States], call' = [call EXCEPT ![w] = calls],
         NEW outcome \in OutcomeSet, write' = [write EXCEPT ![w].outcome = outcome],
         outcome = "running" => write[w].outcome = "running",
         \A r \in Replicas : calls[r] = "done" => call[w][r] = "done"
  PROVE  WritesFollow
<1>1. call'[w] = calls /\ \A v \in Writes : v # w => call'[v] = call[v]
      BY CallTypes
<1>2. \A v \in Writes : write'[v].outcome = IF v = w THEN outcome ELSE write[v].outcome
      BY OutcomeChanges
<1> QED
    BY <1>1, <1>2 DEF WritesFollow

LEMMA OutcomeRuns ==
  ASSUME NEW w, NEW calls
  PROVE  /\ Outcome(w, calls) = "running" => write[w].outcome = "running"
BY DEF Outcome

LEMMA PrepareFollows ==
  ASSUME Types, NEW w \in Writes, NEW r \in Replicas, Prepare(w, r) \/ PrepareFails(w, r)
  PROVE  WritesFollow
<1>1. CASE Prepare(w, r)
  <2>1. PICK calls : calls = Answered(w, r, "ready")
        OBVIOUS
  <2>2. call[w][r] = "prepare" /\ call' = [call EXCEPT ![w] = calls] /\ write' = write
        BY <1>1, <2>1 DEF Prepare
  <2>3. calls \in [Replicas -> States] /\ \A q \in Replicas : calls[q] = "done" => call[w][q] = "done"
        BY <2>1, <2>2, AnsweredIs
  <2>4. call'[w] = calls /\ \A v \in Writes : v # w => call'[v] = call[v]
        BY <2>2, CallTypes
  <2> QED
      BY <2>2, <2>3, <2>4 DEF WritesFollow
<1>2. CASE PrepareFails(w, r)
  <2>1. PICK calls \in [Replicas -> States], outcome \in OutcomeSet :
          /\ calls = Answered(w, r, "refused") /\ call' = [call EXCEPT ![w] = calls]
          /\ call[w][r] = "prepare"
          /\ write' = [write EXCEPT ![w].outcome = outcome]
          /\ outcome = write[w].outcome \/ outcome = Outcome(w, calls)
        BY <1>2, PrepareFailsIs
  <2>2. \A q \in Replicas : calls[q] = "done" => call[w][q] = "done"
        BY <2>1, AnsweredIs
  <2>3. outcome = "running" => write[w].outcome = "running"
        BY <2>1, OutcomeRuns
  <2> QED
      BY <2>1, <2>2, <2>3, CallsFollow
<1> QED
    BY <1>1, <1>2

LEMMA CommitFailsFollows ==
  ASSUME Types, NEW w \in Writes, NEW r \in Replicas, CommitFails(w, r)
  PROVE  WritesFollow
<1>1. PICK calls \in [Replicas -> States], state \in {"late", "error"}, outcome \in OutcomeSet :
        /\ calls = [call[w] EXCEPT ![r] = state] /\ call' = [call EXCEPT ![w] = calls]
        /\ outcome = Outcome(w, calls) /\ write' = [write EXCEPT ![w].outcome = outcome]
      BY CommitFailsIs
<1>2. \A q \in Replicas : calls[q] = "done" => call[w][q] = "done"
      BY <1>1, CallTypes
<1>3. outcome = "running" => write[w].outcome = "running"
      BY <1>1, OutcomeRuns
<1> QED
    BY <1>1, <1>2, <1>3, CallsFollow

LEMMA AbortFollows ==
  ASSUME Types, NEW w \in Writes, Abort(w)
  PROVE  WritesFollow
<1>1. write' = [write EXCEPT ![w].outcome = "aborted"] /\ call' = call /\ "aborted" \in OutcomeSet
      BY DEF Abort, OutcomeSet
<1>2. \A v \in Writes : write'[v].outcome = IF v = w THEN "aborted" ELSE write[v].outcome
      BY <1>1, OutcomeChanges
<1> QED
    BY <1>1, <1>2 DEF WritesFollow

LEMMA CommitAcknowledged ==
  ASSUME Types, Types', AcknowledgedIsReached, NEW w \in Writes, NEW r \in Replicas, Commit(w, r)
  PROVE  AcknowledgedIsReached'
<1>1. PICK calls \in [Replicas -> States], outcome \in OutcomeSet :
        /\ calls = [call[w] EXCEPT ![r] = "done"] /\ call' = [call EXCEPT ![w] = calls]
        /\ outcome = Outcome(w, calls) /\ write' = [write EXCEPT ![w].outcome = outcome]
      BY CommitIs
<1>2. PICK new \in Versions : new = Version(w)
      BY WriteVersion
<1>3. /\ object' = [object EXCEPT ![r] = Store(@, new)] /\ tainted' = Tainted(r, new, w)
      /\ new.time = w
      BY <1>2 DEF Commit, Version
<1>4. /\ call'[w][r] = "done" /\ \A q \in Replicas : q # r => call'[w][q] = call[w][q]
      /\ \A v \in Writes : v # w => call'[v] = call[v]
      BY <1>1, CallTypes
<1>5. \A v \in Writes : write'[v].outcome = "running" => write[v].outcome = "running"
      BY <1>1, OutcomeChanges, OutcomeRuns
<1>6. tainted \subseteq tainted' /\ (Steady \/ RunningTainted)
      BY <1>3, StoreSteps
<1>7. ASSUME NEW v \in Writes, NEW q \in Replicas,
             write'[v].outcome = "running", v \notin tainted', call'[v][q] = "done"
      PROVE  v <= object'[q].time
  <2>1. write[v].outcome = "running" /\ v \notin tainted /\ Steady
        BY <1>5, <1>6, <1>7 DEF RunningTainted
  <2>2. CASE v = w /\ q = r
    <3>1. w \in Running
          BY <2>1, <2>2 DEF Running
    <3> QED
        BY <1>3, <1>7, <2>2, <3>1, StoreSteps
  <2>3. CASE ~(v = w /\ q = r)
    <3>1. call[v][q] = "done"
          BY <1>4, <1>7, <2>3
    <3>2. v <= object[q].time /\ object[q].time <= object'[q].time
          BY <2>1, <3>1 DEF AcknowledgedIsReached, Steady
    <3>3. v \in Nat /\ object[q].time \in Nat /\ object'[q].time \in Nat
          BY ObjectTimes, TimeTypes
    <3> QED
        BY <3>2, <3>3
  <2> QED
      BY <2>2, <2>3
<1> QED
    BY <1>7 DEF AcknowledgedIsReached

\* Every step: a replica goes forward, or what runs is tainted
LEMMA ObjectsStep ==
  ASSUME Types, Types', [Next]_vars
  PROVE  /\ ObjectsFollow
         /\ ~(\E level \in Levels : StartRead(level)) => (Reader \notin tainted' => Reader \notin tainted /\ Steady)
<1>1. ASSUME NEW r \in Replicas, NEW new \in Versions, NEW who,
             object' = [object EXCEPT ![r] = Store(@, new)], tainted' = Tainted(r, new, who)
      PROVE  tainted \subseteq tainted' /\ (Steady \/ RunningTainted)
      BY <1>1, StoreSteps
<1>2. ASSUME tainted \subseteq tainted', Steady \/ RunningTainted
      PROVE  ObjectsFollow /\ (Reader \notin tainted' => Reader \notin tainted /\ Steady)
      BY <1>2 DEF ObjectsFollow, RunningTainted
<1>3. ASSUME UNCHANGED object
      PROVE  Steady
      BY <1>3, ObjectTimes DEF Steady
<1>4. ASSUME NEW w \in Writes, NEW r \in Replicas, Commit(w, r) \/ CommitLate(w, r)
      PROVE  tainted \subseteq tainted' /\ (Steady \/ RunningTainted)
      BY <1>1, <1>4, WriteVersion DEF Commit, CommitLate, Stored
<1>5. ASSUME NEW o \in overwrites, Overwrite(o)
      PROVE  tainted \subseteq tainted' /\ (Steady \/ RunningTainted)
  <2>1. o.to \in Replicas /\ o.version \in Versions
        BY ReadTypes DEF Overwrites
  <2> QED
      BY <1>1, <1>5, <2>1 DEF Overwrite, Stored
<1>6. ASSUME NEW s \in Beaters, ResolveConflict(s)
      PROVE  tainted \subseteq tainted' /\ (Steady \/ RunningTainted)
  <2>1. CASE DeletesLocally(beat[s].stale, beat[s].localTime)
    <3>1. PICK new \in Versions : new = [time |-> beat[s].stale, content |-> Deleted]
      <4>1. beat[s] \in Beats
            BY ReadTypes, ReplicatedAssumption
      <4> QED
          BY <4>1 DEF Beats, Versions, Contents
    <3>2. Stored(s, new, s) /\ s \in Replicas
          BY <1>6, <2>1, <3>1, ReplicatedAssumption DEF ResolveConflict
    <3> QED
        BY <1>1, <3>2 DEF Stored
  <2>2. CASE ~DeletesLocally(beat[s].stale, beat[s].localTime)
        BY <1>3, <1>6, <2>2 DEF ResolveConflict
  <2> QED
      BY <2>1, <2>2
<1>7. ASSUME NEW level \in Levels, StartRead(level)
      PROVE  ObjectsFollow
      BY <1>3, <1>7 DEF StartRead, ObjectsFollow
<1>8. CASE UNCHANGED <<object, tainted>>
      BY <1>2, <1>3, <1>8
<1>9. /\ \A content \in Values \cup {Deleted}, level \in Levels : StartWrite(content, level) => UNCHANGED <<object, tainted>>
      /\ \A w \in Writes, r \in Replicas : Prepare(w, r) \/ PrepareFails(w, r) \/ CommitFails(w, r) => UNCHANGED <<object, tainted>>
      /\ \A w \in Writes : Abort(w) => UNCHANGED <<object, tainted>>
      /\ \A r \in Replicas : Crash(r) => UNCHANGED <<object, tainted>>
      /\ \A r \in Replicas, full \in BOOLEAN : Answer(r, full) => UNCHANGED <<object, tainted>>
      BY DEF StartWrite, Prepare, PrepareFails, CommitFails, Abort, Crash, Answer
<1>10. /\ ReadFails \/ Agree \/ RepairOne \/ EndRepair => UNCHANGED <<object, tainted>>
       /\ \A o \in overwrites : Check(o) \/ OverwriteFails(o) => UNCHANGED <<object, tainted>>
       /\ \A s \in Beaters, t \in Replicas : CompareLocal(s, t) => UNCHANGED <<object, tainted>>
       /\ \A s \in Beaters : CompareRemote(s) \/ Propagate(s) => UNCHANGED <<object, tainted>>
       /\ UNCHANGED vars => UNCHANGED <<object, tainted>>
       BY DEF ReadFails, Agree, RepairOne, EndRepair, Check, OverwriteFails, CompareLocal, CompareRemote,
              Propagate, vars
<1> QED
    BY <1>2, <1>4, <1>5, <1>6, <1>7, <1>8, <1>9, <1>10 DEF Next

LEMMA AcknowledgedStep ==
  ASSUME Types, Types', AcknowledgedIsReached, [Next]_vars
  PROVE  AcknowledgedIsReached'
<1>1. \A w \in Writes, r \in Replicas : Commit(w, r) => AcknowledgedIsReached'
      BY CommitAcknowledged
<1>2. CASE WritesFollow
      BY <1>2, ObjectsStep, AcknowledgedKept
<1>3. NoCall => WritesFollow
      BY DEF NoCall, WritesFollow
<1>4. /\ \A content \in Values \cup {Deleted}, level \in Levels : StartWrite(content, level) => WritesFollow
      /\ \A w \in Writes, r \in Replicas : Prepare(w, r) \/ PrepareFails(w, r) \/ CommitFails(w, r) => WritesFollow
      /\ \A w \in Writes : Abort(w) => WritesFollow
      BY StartWriteFollows, PrepareFollows, CommitFailsFollows, AbortFollows
<1> QED
    BY <1>1, <1>2, <1>3, <1>4, OtherSteps DEF Next

-----------------------------------------------------------------------------
(* The read keeps up with its floor                                          *)

\* Among the answers of a complete read is one at or after its floor.
LEMMA SomeAnswerIsCurrent ==
  ASSUME Types, ReadIsServed, ReadKeepsUp, Complete, Reader \notin tainted
  PROVE  \E r \in Voters : read.floor <= votes[r].time
<1>1. /\ read.level \in Nat /\ 1 <= read.level /\ read.level <= N /\ N \in Nat
      /\ Cardinality(Voters) = read.level /\ read.phase = "pulling"
      BY FullHasAnswered, Sizes DEF Complete
<1>2. PICK k \in Nat : k = N - read.level + 1
      BY <1>1
<1>3. k <= Cardinality(Current)
      BY <1>1, <1>2 DEF ReadKeepsUp
<1>4. PICK S, T : S = Current /\ T = Voters
      OBVIOUS
<1>5. S \subseteq Replicas /\ T \subseteq Replicas
      BY <1>4, ReadTypes DEF Current
<1>6. N < k + read.level /\ read.level <= Cardinality(T) /\ k <= Cardinality(S)
      BY <1>1, <1>2, <1>3, <1>4
<1>7. PICK r \in S : r \in T
      BY <1>1, <1>5, <1>6, QuorumsMeet
<1>8. r \in Current /\ r \in Voters
      BY <1>4, <1>7
<1> QED
    BY <1>8 DEF Current

\* A read that goes on keeps up while replicas go forward and its overwrites are carried out.
LEMMA KeepsUpStays ==
  ASSUME Types, Types', ReadKeepsUp, ReadGoesOn, UNCHANGED strategy,
         Reader \notin tainted' => Reader \notin tainted /\ Steady,
         read.failed => read'.failed,
         Reader \notin tainted' /\ ~read'.failed /\ read.phase = "repairing" =>
           \A o \in overwrites : o.from = Reader =>
             \/ read.result.time <= object'[o.to].time
             \/ \E p \in overwrites' : p.from = Reader /\ p.to = o.to
  PROVE  ReadKeepsUp'
<1> SUFFICES ASSUME Reader \notin tainted'
             PROVE  /\ read'.phase = "pulling" =>
                         /\ N - read'.level + 1 <= Cardinality(Current')
                         /\ \A r \in Voters' : votes'[r].time <= object'[r].time
                    /\ read'.phase = "repairing" /\ ~read'.failed =>
                         /\ strategy' # "DeleteOnConflict" => read'.floor <= read'.result.time
                         /\ \A r \in Voters' : \/ read'.result.time <= object'[r].time
                                               \/ \E o \in overwrites' : o.from = Reader /\ o.to = r
    BY DEF ReadKeepsUp
<1>1. Steady /\ Reader \notin tainted
      OBVIOUS
<1>2. /\ read'.phase = read.phase /\ read'.level = read.level /\ read'.floor = read.floor
      /\ read'.result = read.result /\ votes' = votes /\ Voters' = Voters
      BY DEF ReadGoesOn, Voters
<1>3. \A r \in Replicas : object[r].time \in Nat /\ object'[r].time \in Nat /\ object[r].time <= object'[r].time
      BY <1>1, ObjectTimes DEF Steady
<1>4. /\ read.floor \in Nat /\ read.result.time \in Nat /\ read.level \in Nat /\ N \in Nat
      /\ Voters \subseteq Replicas /\ \A r \in Voters : votes[r].time \in Nat
      BY ReadTypes, TimeTypes, Sizes DEF Reads
<1>5. ASSUME read.phase = "pulling"
      PROVE  /\ N - read.level + 1 <= Cardinality(Current')
             /\ \A r \in Voters : votes[r].time <= object'[r].time
  <2>1. N - read.level + 1 <= Cardinality(Current) /\ \A r \in Voters : votes[r].time <= object[r].time
        BY <1>1, <1>5 DEF ReadKeepsUp
  <2>2. \A r \in Voters : votes[r].time <= object'[r].time
        BY <1>3, <1>4, <2>1
  <2>3. Current \subseteq Current' /\ Current' \subseteq Replicas
        BY <1>2, <1>3, <1>4 DEF Current
  <2>4. PICK S, T : S = Current /\ T = Current'
        OBVIOUS
  <2>5. Cardinality(S) \in Nat /\ Cardinality(T) \in Nat /\ Cardinality(S) <= Cardinality(T)
        BY <2>3, <2>4, Subsets
  <2>6. N - read.level + 1 <= Cardinality(T)
    <3>1. N - read.level + 1 <= Cardinality(S)
          BY <2>1, <2>4
    <3> QED
        BY <1>4, <2>5, <3>1
  <2> QED
      BY <2>2, <2>4, <2>6
<1>6. ASSUME read.phase = "repairing", ~read'.failed
      PROVE  /\ strategy # "DeleteOnConflict" => read.floor <= read.result.time
             /\ \A r \in Voters : \/ read.result.time <= object'[r].time
                                  \/ \E o \in overwrites' : o.from = Reader /\ o.to = r
  <2>1. /\ strategy # "DeleteOnConflict" => read.floor <= read.result.time
        /\ \A r \in Voters : read.result.time <= object[r].time \/ \E o \in overwrites : o.from = Reader /\ o.to = r
        BY <1>1, <1>6 DEF ReadKeepsUp
  <2>2. ASSUME NEW r \in Voters
        PROVE  \/ read.result.time <= object'[r].time
               \/ \E o \in overwrites' : o.from = Reader /\ o.to = r
    <3>1. CASE read.result.time <= object[r].time
          BY <1>3, <1>4, <3>1
    <3>2. ASSUME NEW o \in overwrites, o.from = Reader, o.to = r
          PROVE  \/ read.result.time <= object'[r].time
                 \/ \E p \in overwrites' : p.from = Reader /\ p.to = r
          BY <1>6, <3>2
    <3> QED
        BY <2>1, <3>1, <3>2
  <2> QED
      BY <2>1, <2>2
<1> QED
    BY <1>2, <1>5, <1>6


\* Writes and hashbeats leave the read and its overwrites alone.
LEMMA OthersKeepUp ==
  ASSUME Types, Types', ReadKeepsUp, ReadGoesOn, UNCHANGED <<strategy, read>>, overwrites \subseteq overwrites',
         Reader \notin tainted' => Reader \notin tainted /\ Steady
  PROVE  ReadKeepsUp'
BY KeepsUpStays

\* When a replica that owes the read an overwrite dies, the read fails.
LEMMA CrashKeepsUp ==
  ASSUME Types, Types', ReadKeepsUp, NEW r \in Replicas, Crash(r),
         Reader \notin tainted' => Reader \notin tainted /\ Steady
  PROVE  ReadKeepsUp'
<1>1. Reader # r /\ UNCHANGED strategy
      BY ReplicatedAssumption DEF Crash
<1>2. \A o \in overwrites : o.from = Reader /\ o.to # r =>
        /\ o.to = [o EXCEPT !.from = IF @ = r THEN Nobody ELSE @].to
        /\ [o EXCEPT !.from = IF @ = r THEN Nobody ELSE @].from = Reader
        /\ [o EXCEPT !.from = IF @ = r THEN Nobody ELSE @] \in overwrites'
  <2>1. \A o \in overwrites : o \in Overwrites
        BY ReadTypes
  <2>2. \A o \in overwrites : o.to # r => [o EXCEPT !.from = IF @ = r THEN Nobody ELSE @] \in overwrites'
        BY DEF Crash
  <2>3. \A o \in Overwrites : o.from = Reader =>
          /\ o.to = [o EXCEPT !.from = IF @ = r THEN Nobody ELSE @].to
          /\ [o EXCEPT !.from = IF @ = r THEN Nobody ELSE @].from = Reader
        BY <1>1 DEF Overwrites
  <2> QED
      BY <2>1, <2>2, <2>3
<1>3. \A o \in overwrites : o.from = Reader /\ o.to = r => read'.failed
      BY ReadTypes DEF Crash, Reads
<1>4. read.failed => read'.failed
      BY ReadTypes DEF Crash, Reads
<1>5. \A o \in overwrites : o.from = Reader /\ ~read'.failed =>
        \E p \in overwrites' : p.from = Reader /\ p.to = o.to
      BY <1>2, <1>3
<1> QED
    BY <1>1, <1>4, <1>5, CrashGoesOn, KeepsUpStays

\* A check that ends the request of a read finds the replica at the time the read returns,
\* or fails it.
LEMMA CheckKeepsUp ==
  ASSUME Types, Types', ReadIsServed, ReadKeepsUp, NEW o \in overwrites, Check(o),
         Reader \notin tainted' => Reader \notin tainted /\ Steady
  PROVE  ReadKeepsUp'
<1>1. o \in Overwrites /\ UNCHANGED <<strategy, object>>
      BY ReadTypes DEF Check
<1>2. overwrites \ {o} \subseteq overwrites'
      BY DEF Check
<1>3. CASE Verdict(o, object[o.to]) = "write"
  <2>1. [o EXCEPT !.checked = TRUE, !.seen = object[o.to].time] \in overwrites' /\ read' = read
        BY <1>3 DEF Check
  <2>2. /\ [o EXCEPT !.checked = TRUE, !.seen = object[o.to].time].from = o.from
        /\ [o EXCEPT !.checked = TRUE, !.seen = object[o.to].time].to = o.to
        BY <1>1 DEF Overwrites
  <2>3. \A q \in overwrites : q.from = Reader => \E p \in overwrites' : p.from = Reader /\ p.to = q.to
        BY <1>2, <2>1, <2>2
  <2> QED
      BY <1>1, <2>1, <2>3, OverwriteGoesOn, KeepsUpStays
<1>4. CASE Verdict(o, object[o.to]) = "conflict"
  <2>1. Replied(o, TRUE)
        BY <1>4 DEF Check
  <2>2. read'.failed = (read.failed \/ o.from = Reader)
        BY <2>1, RepliedGoesOn
  <2>3. \A q \in overwrites : q.from = Reader /\ ~read'.failed => \E p \in overwrites' : p.from = Reader /\ p.to = q.to
        BY <1>2, <2>2
  <2> QED
      BY <1>1, <2>2, <2>3, OverwriteGoesOn, KeepsUpStays
<1>5. CASE Verdict(o, object[o.to]) = "skip"
  <2>1. Replied(o, FALSE)
        BY <1>5 DEF Check
  <2>2. read'.failed = read.failed
    <3>1. read.failed \in BOOLEAN
          BY ReadTypes DEF Reads
    <3> QED
        BY <2>1, <3>1, RepliedGoesOn
  <2>3. object[o.to].time = o.version.time
        BY <1>5 DEF Verdict
  <2>4. o.from = Reader => read.result.time <= object'[o.to].time
    <3>1. object[o.to].time \in Nat
          BY <1>1, ObjectTimes DEF Overwrites
    <3> QED
        BY <1>1, <2>3, <3>1 DEF ReadIsServed
  <2>5. \A q \in overwrites : q.from = Reader =>
          \/ read.result.time <= object'[q.to].time
          \/ \E p \in overwrites' : p.from = Reader /\ p.to = q.to
        BY <1>2, <2>4
  <2> QED
      BY <1>1, <2>2, <2>5, OverwriteGoesOn, KeepsUpStays
<1>6. Verdict(o, object[o.to]) \in {"write", "conflict", "skip"}
      BY DEF Verdict
<1> QED
    BY <1>3, <1>4, <1>5, <1>6

\* An overwrite brings the replica to the time the read returns, or taints the read.
LEMMA OverwriteKeepsUp ==
  ASSUME Types, Types', ReadIsServed, ReadKeepsUp, NEW o \in overwrites, Overwrite(o),
         Reader \notin tainted' => Reader \notin tainted /\ Steady
  PROVE  ReadKeepsUp'
<1>1. o \in Overwrites /\ o.to \in Replicas /\ o.version \in Versions
      BY ReadTypes DEF Overwrites
<1>2. /\ object' = [object EXCEPT ![o.to] = Store(@, o.version)]
      /\ tainted' = Tainted(o.to, o.version, o.from)
      /\ overwrites' = overwrites \ {o} /\ Replied(o, FALSE)
      BY DEF Overwrite, Stored
<1>3. UNCHANGED strategy
      BY DEF Overwrite
<1>4. read'.failed = read.failed
  <2>1. read.failed \in BOOLEAN
        BY ReadTypes DEF Reads
  <2> QED
      BY <1>2, <2>1, RepliedGoesOn
<1>5. o.from = Reader /\ Reader \notin tainted' => o.version.time <= object'[o.to].time
  <2>1. Reader \in Running
        BY DEF Running
  <2> QED
      BY <1>1, <1>2, <2>1, StoreSteps
<1>6. o.from = Reader => o.version.time = read.result.time
      BY DEF ReadIsServed
<1>7. Reader \notin tainted' => \A q \in overwrites : q.from = Reader =>
        \/ read.result.time <= object'[q.to].time
        \/ \E p \in overwrites' : p.from = Reader /\ p.to = q.to
      BY <1>2, <1>5, <1>6
<1> QED
    BY <1>3, <1>4, <1>7, OverwriteGoesOn, KeepsUpStays

LEMMA OverwriteFailsKeepsUp ==
  ASSUME Types, Types', ReadKeepsUp, NEW o \in overwrites, OverwriteFails(o),
         Reader \notin tainted' => Reader \notin tainted /\ Steady
  PROVE  ReadKeepsUp'
<1>1. overwrites \ {o} \subseteq overwrites' /\ UNCHANGED strategy
      BY DEF OverwriteFails
<1>2. read'.failed = (read.failed \/ o.from = Reader)
      BY ReadTypes DEF OverwriteFails, Reads
<1>3. \A q \in overwrites : q.from = Reader /\ ~read'.failed => \E p \in overwrites' : p.from = Reader /\ p.to = q.to
      BY <1>1, <1>2
<1> QED
    BY <1>1, <1>2, <1>3, OverwriteGoesOn, KeepsUpStays

\* A read starts with a floor that enough replicas have reached.
LEMMA StartReadKeepsUp ==
  ASSUME Types, Types', FloorsAreReached, NEW level \in Levels, StartRead(level)
  PROVE  ReadKeepsUp'
<1>1. /\ read'.phase = "pulling" /\ read'.level = level /\ read'.floor = floor[N - level + 1]
      /\ Voters' = {} /\ object' = object
      BY DEF StartRead, NoRead, NoVotes, Voters
<1>2. PICK k \in 1 .. N : k = N - level + 1
      BY Sizes
<1>3. k <= Cardinality({r \in Replicas : floor[k] <= object[r].time})
      BY DEF FloorsAreReached, Reached
<1>4. Current' = {r \in Replicas : floor[k] <= object[r].time}
      BY <1>1, <1>2 DEF Current
<1>5. N - read'.level + 1 <= Cardinality(Current')
      BY <1>1, <1>2, <1>3, <1>4
<1> QED
    BY <1>1, <1>5 DEF ReadKeepsUp

\* An answer is what the replica stores.
LEMMA AnswerKeepsUp ==
  ASSUME Types, Types', ReadKeepsUp, NEW r \in Replicas, NEW full \in BOOLEAN, Answer(r, full)
  PROVE  ReadKeepsUp'
<1>1. /\ read.phase = "pulling" /\ read'.phase = "pulling" /\ read'.level = read.level
      /\ read'.floor = read.floor /\ object' = object /\ tainted' = tainted
      BY ReadTypes DEF Answer, Reads
<1>2. Voters' = Voters \cup {r} /\ \A q \in Voters' : votes'[q] = IF q = r THEN object[r] ELSE votes[q]
      BY AnswerTypes
<1>3. \A q \in Replicas : object[q].time \in Nat
      BY ObjectTimes
<1>4. ASSUME Reader \notin tainted
      PROVE  /\ N - read'.level + 1 <= Cardinality(Current')
             /\ \A q \in Voters' : votes'[q].time <= object'[q].time
  <2>1. N - read.level + 1 <= Cardinality(Current) /\ \A q \in Voters : votes[q].time <= object[q].time
        BY <1>1, <1>4 DEF ReadKeepsUp
  <2>2. \A q \in Voters' : votes'[q].time <= object'[q].time
        BY <1>1, <1>2, <1>3, <2>1
  <2>3. Current \subseteq Current' /\ Current' \subseteq Replicas
        BY <1>1, <1>2 DEF Current
  <2>4. PICK S, T : S = Current /\ T = Current'
        OBVIOUS
  <2>5. Cardinality(S) \in Nat /\ Cardinality(T) \in Nat /\ Cardinality(S) <= Cardinality(T)
        BY <2>3, <2>4, Subsets
  <2>6. N \in Nat /\ read.level \in Nat
        BY ReadTypes, Sizes DEF Reads
  <2>7. N - read.level + 1 <= Cardinality(S)
        BY <2>1, <2>4
  <2>8. N - read.level + 1 <= Cardinality(T)
        BY <2>5, <2>6, <2>7
  <2> QED
      BY <1>1, <2>2, <2>4, <2>8
<1> QED
    BY <1>1, <1>4 DEF ReadKeepsUp

\* A repair returns a version at or after the floor, and is sent to whoever answered with
\* another time.
LEMMA RepairOneKeepsUp ==
  ASSUME Types, Types', ReadIsServed, ReadKeepsUp, RepairOne
  PROVE  ReadKeepsUp'
<1>1. UNCHANGED <<strategy, object, votes, tainted>> /\ Complete
      BY DEF RepairOne
<1>2. CASE GivesUp
  <2>1. read'.phase = "repairing" /\ read'.failed
        BY <1>2, ReadTypes DEF GivesUp, Reads
  <2> QED
      BY <2>1 DEF ReadKeepsUp
<1>3. ASSUME NEW v, NEW rs, Repairs(v, rs)
      PROVE  ReadKeepsUp'
  <2>1. /\ read'.phase = "repairing" /\ read'.result = v /\ read'.floor = read.floor
        /\ v \in Versions /\ v.time \in Nat /\ read.floor \in Nat
        /\ overwrites' = overwrites \cup
             {[from |-> Reader, to |-> r, stale |-> votes[r].time, version |-> v,
               checked |-> FALSE, seen |-> 0] : r \in rs}
        BY <1>3, ReadTypes, TimeTypes DEF Repairs, Repair, Reads
  <2>2. /\ \A r \in Voters \ rs : votes[r].time = v.time
        /\ strategy # "DeleteOnConflict" => \A r \in Voters : votes[r].time <= v.time
        BY <1>3 DEF Repairs
  <2>3. ASSUME Reader \notin tainted
        PROVE  /\ strategy # "DeleteOnConflict" => read.floor <= v.time
               /\ \A r \in Voters : v.time <= object[r].time \/ \E o \in overwrites' : o.from = Reader /\ o.to = r
    <3>1. PICK r \in Voters : read.floor <= votes[r].time
          BY <1>1, <2>3, SomeAnswerIsCurrent
    <3>2. votes[r].time \in Nat
          BY ReadTypes, TimeTypes
    <3>3. strategy # "DeleteOnConflict" => read.floor <= v.time
          BY <2>1, <2>2, <3>1, <3>2
    <3>4. \A q \in Voters : votes[q].time <= object[q].time
          BY <1>1, <2>3 DEF ReadKeepsUp, Complete
    <3>5. \A q \in rs : \E o \in overwrites' : o.from = Reader /\ o.to = q
      <4>1. ASSUME NEW q \in rs
            PROVE  \E o \in overwrites' : o.from = Reader /\ o.to = q
        <5> DEFINE o == [from |-> Reader, to |-> q, stale |-> votes[q].time, version |-> v,
                         checked |-> FALSE, seen |-> 0]
        <5>1. o \in overwrites' /\ o.from = Reader /\ o.to = q
              BY <2>1
        <5> QED
            BY <5>1
      <4> QED
          BY <4>1
    <3> QED
        BY <2>2, <3>3, <3>4, <3>5
  <2>4. Voters' = Voters /\ object' = object /\ strategy' = strategy /\ tainted' = tainted
        BY <1>1 DEF Voters
  <2> QED
      BY <2>1, <2>3, <2>4 DEF ReadKeepsUp
<1> QED
    BY <1>2, <1>3, RepairOneIs

LEMMA EndKeepsUp ==
  ASSUME ReadFails \/ Agree \/ EndRepair
  PROVE  ReadKeepsUp'
<1>1. read'.phase \in {"idle", "returned"}
  <2>1. \A v, count : Return(v, count) => read'.phase = "returned"
        BY DEF Return, NoRead
  <2>2. NoRead.phase = "idle"
        BY DEF NoRead
  <2> QED
      BY <2>1, <2>2 DEF ReadFails, Agree, EndRepair
<1> QED
    BY <1>1 DEF ReadKeepsUp

LEMMA KeepsUpStep ==
  ASSUME Types, Types', ReadIsServed, FloorsAreReached, ReadKeepsUp, [Next]_vars
  PROVE  ReadKeepsUp'
<1>1. \A level \in Levels : StartRead(level) => ReadKeepsUp'
      BY StartReadKeepsUp
<1>2. CASE ~(\E level \in Levels : StartRead(level))
  <2>1. Reader \notin tainted' => Reader \notin tainted /\ Steady
        BY <1>2, ObjectsStep
  <2>2. CASE ReadGoesOn /\ UNCHANGED <<strategy, read>> /\ overwrites \subseteq overwrites'
        BY <2>1, <2>2, OthersKeepUp
  <2>3. /\ \A r \in Replicas : Crash(r) => ReadKeepsUp'
        /\ \A o \in overwrites : Check(o) \/ Overwrite(o) \/ OverwriteFails(o) => ReadKeepsUp'
        BY <2>1, CrashKeepsUp, CheckKeepsUp, OverwriteKeepsUp, OverwriteFailsKeepsUp
  <2>4. /\ \A r \in Replicas, full \in BOOLEAN : Answer(r, full) => ReadKeepsUp'
        /\ ReadFails \/ Agree \/ RepairOne \/ EndRepair => ReadKeepsUp'
        BY AnswerKeepsUp, RepairOneKeepsUp, EndKeepsUp
  <2>5. /\ \A s \in Beaters, t \in Replicas : CompareLocal(s, t) => ReadKeepsUp'
        /\ \A s \in Beaters : CompareRemote(s) \/ Propagate(s) \/ ResolveConflict(s) => ReadKeepsUp'
    <3>1. \A s \in Beaters : s \in Replicas
          BY ReplicatedAssumption
    <3>2. \A s \in Beaters, t \in Replicas : CompareLocal(s, t) =>
            UNCHANGED <<strategy, read>> /\ overwrites \subseteq overwrites'
          BY DEF CompareLocal, readVars
    <3>3. \A s \in Beaters : CompareRemote(s) \/ Propagate(s) \/ ResolveConflict(s) =>
            UNCHANGED <<strategy, read>> /\ overwrites \subseteq overwrites'
          BY DEF CompareRemote, Propagate, ResolveConflict, readVars
    <3> QED
        BY <2>2, <3>1, <3>2, <3>3, BeatGoesOn
  <2>6. /\ \A content \in Values \cup {Deleted}, level \in Levels : StartWrite(content, level) => ReadKeepsUp'
        /\ \A w \in Writes, r \in Replicas :
             Prepare(w, r) \/ PrepareFails(w, r) \/ Commit(w, r) \/ CommitFails(w, r) \/ CommitLate(w, r) => ReadKeepsUp'
        /\ \A w \in Writes : Abort(w) => ReadKeepsUp'
        /\ UNCHANGED vars => ReadKeepsUp'
    <3>1. ASSUME UNCHANGED <<strategy, read, overwrites>>, ReadGoesOn
          PROVE  ReadKeepsUp'
          BY <2>2, <3>1
    <3>2. /\ \A content \in Values \cup {Deleted}, level \in Levels :
               StartWrite(content, level) => UNCHANGED <<strategy, read, overwrites>>
          /\ \A w \in Writes, r \in Replicas :
               Prepare(w, r) \/ PrepareFails(w, r) \/ Commit(w, r) \/ CommitFails(w, r) \/ CommitLate(w, r)
                 => UNCHANGED <<strategy, read, overwrites>>
          /\ \A w \in Writes : Abort(w) => UNCHANGED <<strategy, read, overwrites>>
          /\ UNCHANGED vars => UNCHANGED <<strategy, read, overwrites>>
          BY DEF StartWrite, Prepare, PrepareFails, Commit, CommitFails, CommitLate, Abort, vars, readVars
    <3> QED
        BY <3>1, <3>2, WriteGoesOn
  <2> QED
      BY <2>3, <2>4, <2>5, <2>6, <1>2 DEF Next
<1> QED
    BY <1>1, <1>2

-----------------------------------------------------------------------------
(* Overwrites without automated resolution                                   *)

\* The class's strategy does not change.
LEMMA StrategyStays ==
  ASSUME [Next]_vars
  PROVE  strategy' = strategy
<1>1. /\ \A content \in Values \cup {Deleted}, level \in Levels : StartWrite(content, level) => strategy' = strategy
      /\ \A w \in Writes, r \in Replicas :
           Prepare(w, r) \/ PrepareFails(w, r) \/ Commit(w, r) \/ CommitFails(w, r) \/ CommitLate(w, r)
             => strategy' = strategy
      /\ \A w \in Writes : Abort(w) => strategy' = strategy
      BY DEF StartWrite, Prepare, PrepareFails, Commit, CommitFails, CommitLate, Abort
<1>2. /\ \A r \in Replicas : Crash(r) => strategy' = strategy
      /\ \A r \in Replicas, full \in BOOLEAN : Answer(r, full) => strategy' = strategy
      /\ \A level \in Levels : StartRead(level) => strategy' = strategy
      /\ ReadFails \/ Agree \/ RepairOne \/ EndRepair => strategy' = strategy
      BY DEF Crash, Answer, StartRead, ReadFails, Agree, RepairOne, EndRepair
<1>3. /\ \A o \in overwrites : Check(o) \/ Overwrite(o) \/ OverwriteFails(o) => strategy' = strategy
      /\ \A s \in Beaters, t \in Replicas : CompareLocal(s, t) => strategy' = strategy
      /\ \A s \in Beaters : CompareRemote(s) \/ Propagate(s) \/ ResolveConflict(s) => strategy' = strategy
      /\ UNCHANGED vars => strategy' = strategy
      BY DEF Check, Overwrite, OverwriteFails, CompareLocal, CompareRemote, Propagate, ResolveConflict, vars
<1> QED
    BY <1>1, <1>2, <1>3 DEF Next

\* There is one version of a write.
LEMMA SameTimeSameContent ==
  ASSUME NEW u, NEW v, Issued(u), Issued(v), u.time = v.time
  PROVE  u.content = v.content
<1>1. NoVersion.time \notin Writes
      BY Sizes DEF NoVersion, Writes
<1> QED
    BY <1>1 DEF Issued

\* What an overwrite may be without automated resolution
Harmless(o) ==
    /\ o.version.content # Deleted
    /\ o.checked => \E v \in Versions : Issued(v) /\ v.time = o.seen /\ v.content # Deleted

\* An overwrite as a step leaves it: from elsewhere, but otherwise the same
Resent(p, o) == o.version = p.version /\ o.checked = p.checked /\ o.seen = p.seen

LEMMA NothingDeleted ==
  ASSUME Types, Types', CallsGrow, OverwritesDeleteNothing, strategy' = strategy,
         strategy = "NoAutomatedResolution" =>
             \A o \in overwrites' : Harmless(o) \/ \E p \in overwrites : Resent(p, o)
  PROVE  OverwritesDeleteNothing'
<1> SUFFICES ASSUME strategy = "NoAutomatedResolution", NEW o \in overwrites'
             PROVE  /\ o.version.content # Deleted
                    /\ o.checked => \E v \in Versions : Issued(v)' /\ v.time = o.seen /\ v.content # Deleted
    BY DEF OverwritesDeleteNothing
<1>1. Harmless(o)
  <2>1. CASE Harmless(o)
        BY <2>1
  <2>2. ASSUME NEW p \in overwrites, Resent(p, o)
        PROVE  Harmless(o)
        BY <2>2 DEF OverwritesDeleteNothing, Harmless, Resent
  <2> QED
      BY <2>1, <2>2
<1>2. \A v \in Versions : Issued(v) => Issued(v)'
      BY IssuedStays
<1> QED
    BY <1>1, <1>2 DEF Harmless

LEMMA OverwritesKept ==
  ASSUME Types, Types', CallsGrow, OverwritesDeleteNothing, strategy' = strategy, overwrites' \subseteq overwrites
  PROVE  OverwritesDeleteNothing'
BY NothingDeleted DEF Resent

\* A check that goes on to write has seen no deletion.
LEMMA CheckDeletesNothing ==
  ASSUME Types, Types', CallsGrow, VersionsAreIssued, OverwritesDeleteNothing, strategy' = strategy,
         NEW o \in overwrites, Check(o)
  PROVE  OverwritesDeleteNothing'
<1>1. o \in Overwrites /\ o.to \in Replicas /\ object[o.to] \in Versions
      BY ReadTypes DEF Overwrites
<1>2. CASE Verdict(o, object[o.to]) # "write"
      BY <1>2, OverwritesKept DEF Check
<1>3. ASSUME Verdict(o, object[o.to]) = "write", strategy = "NoAutomatedResolution"
      PROVE  \A p \in overwrites' : Harmless(p) \/ \E q \in overwrites : Resent(q, p)
  <2> DEFINE c == [o EXCEPT !.checked = TRUE, !.seen = object[o.to].time]
  <2>1. overwrites' = (overwrites \ {o}) \cup {c}
        BY <1>3 DEF Check
  <2>2. o.version.content # Deleted
        BY <1>3 DEF OverwritesDeleteNothing
  <2>3. object[o.to].content # Deleted
        BY <1>3, <2>2 DEF Verdict
  <2>4. Issued(object[o.to])
        BY <1>1, HeldHas DEF VersionsAreIssued
  <2>5. c.version = o.version /\ c.seen = object[o.to].time
        BY <1>1 DEF Overwrites
  <2> HIDE DEF c
  <2>6. Harmless(c)
        BY <1>1, <2>2, <2>3, <2>4, <2>5 DEF Harmless
  <2>7. \A p \in overwrites : Resent(p, p)
        BY DEF Resent
  <2> QED
      BY <2>1, <2>6, <2>7
<1>4. CASE Verdict(o, object[o.to]) = "write"
      BY <1>3, <1>4, NothingDeleted
<1> QED
    BY <1>2, <1>4

LEMMA OverwriteFailsDeletesNothing ==
  ASSUME Types, Types', CallsGrow, OverwritesDeleteNothing, strategy' = strategy,
         NEW o \in overwrites, OverwriteFails(o)
  PROVE  OverwritesDeleteNothing'
<1>1. o \in Overwrites
      BY ReadTypes
<1>2. Resent(o, [o EXCEPT !.from = Nobody])
      BY <1>1 DEF Resent, Overwrites
<1>3. \A p \in overwrites' : p \in overwrites \/ p = [o EXCEPT !.from = Nobody]
      BY DEF OverwriteFails
<1>4. \A p \in overwrites' : \E q \in overwrites : Resent(q, p)
      BY <1>2, <1>3 DEF Resent
<1> QED
    BY <1>4, NothingDeleted

LEMMA CrashDeletesNothing ==
  ASSUME Types, Types', CallsGrow, OverwritesDeleteNothing, strategy' = strategy, NEW r \in Replicas, Crash(r)
  PROVE  OverwritesDeleteNothing'
<1>1. \A o \in overwrites' : \E p \in overwrites : o = [p EXCEPT !.from = IF @ = r THEN Nobody ELSE @]
      BY DEF Crash
<1>2. \A p \in overwrites : Resent(p, [p EXCEPT !.from = IF @ = r THEN Nobody ELSE @])
      BY ReadTypes DEF Resent, Overwrites
<1>3. \A o \in overwrites' : \E p \in overwrites : Resent(p, o)
      BY <1>1, <1>2
<1> QED
    BY <1>3, NothingDeleted

\* Without automated resolution no repair is sent when an answer is a deletion.
LEMMA RepairDeletesNothing ==
  ASSUME Types, Types', CallsGrow, ReadIsServed, VersionsAreIssued, OverwritesDeleteNothing,
         strategy' = strategy, RepairOne
  PROVE  OverwritesDeleteNothing'
<1>1. CASE GivesUp
      BY <1>1, OverwritesKept DEF GivesUp
<1>2. ASSUME NEW v, NEW rs, Repairs(v, rs)
      PROVE  OverwritesDeleteNothing'
  <2>1. ASSUME strategy = "NoAutomatedResolution"
        PROVE  v.content # Deleted
    <3>1. PICK r \in Voters : v = votes[r] \/ (v = object[r] /\ v.time = votes[r].time)
          BY <1>2 DEF Repairs
    <3>2. r \in Replicas /\ votes[r].content # Deleted
          BY <1>2, <2>1, ReadTypes DEF Repairs
    <3>3. Issued(object[r]) /\ Issued(votes[r])
          BY <3>2, HeldHas DEF VersionsAreIssued
    <3> QED
        BY <3>1, <3>2, <3>3, SameTimeSameContent
  <2>2. \A o \in overwrites' : o \in overwrites \/ (o.version = v /\ ~o.checked)
        BY <1>2 DEF Repairs, Repair
  <2>3. strategy = "NoAutomatedResolution" =>
          \A o \in overwrites' : Harmless(o) \/ \E p \in overwrites : Resent(p, o)
        BY <2>1, <2>2 DEF Harmless, Resent
  <2> QED
      BY <2>3, NothingDeleted
<1> QED
    BY <1>1, <1>2, RepairOneIs

\* A hashbeat sends objects only.
LEMMA PropagateDeletesNothing ==
  ASSUME Types, Types', CallsGrow, OverwritesDeleteNothing, strategy' = strategy, NEW s \in Replicas, Propagate(s)
  PROVE  OverwritesDeleteNothing'
<1>1. CASE Live(object[s])
  <2>1. object[s].content # Deleted
        BY <1>1, ReplicatedAssumption DEF Live
  <2>2. \A o \in overwrites' : o \in overwrites \/ (o.version = object[s] /\ ~o.checked)
        BY <1>1 DEF Propagate
  <2>3. \A o \in overwrites' : Harmless(o) \/ \E p \in overwrites : Resent(p, o)
        BY <2>1, <2>2 DEF Harmless, Resent
  <2> QED
      BY <2>3, NothingDeleted
<1>2. CASE ~Live(object[s])
      BY <1>2, OverwritesKept DEF Propagate
<1> QED
    BY <1>1, <1>2

LEMMA DeletesNothingStep ==
  ASSUME Types, Types', CallsGrow, ReadIsServed, VersionsAreIssued, OverwritesDeleteNothing, [Next]_vars
  PROVE  OverwritesDeleteNothing'
<1>1. strategy' = strategy
      BY StrategyStays
<1>2. CASE overwrites' \subseteq overwrites
      BY <1>1, <1>2, OverwritesKept
<1>3. /\ \A o \in overwrites : Check(o) \/ OverwriteFails(o) => OverwritesDeleteNothing'
      /\ \A r \in Replicas : Crash(r) => OverwritesDeleteNothing'
      /\ RepairOne => OverwritesDeleteNothing'
      /\ \A s \in Beaters : Propagate(s) => OverwritesDeleteNothing'
      BY <1>1, CheckDeletesNothing, OverwriteFailsDeletesNothing, CrashDeletesNothing, RepairDeletesNothing,
         PropagateDeletesNothing, ReplicatedAssumption
<1>4. /\ \A r \in Replicas, full \in BOOLEAN : Answer(r, full) => overwrites' \subseteq overwrites
      /\ \A level \in Levels : StartRead(level) => overwrites' \subseteq overwrites
      /\ ReadFails \/ Agree \/ EndRepair => overwrites' \subseteq overwrites
      /\ \A o \in overwrites : Overwrite(o) => overwrites' \subseteq overwrites
      BY DEF Answer, StartRead, ReadFails, Agree, EndRepair, Overwrite
<1>5. /\ \A s \in Beaters, t \in Replicas : CompareLocal(s, t) => overwrites' \subseteq overwrites
      /\ \A s \in Beaters : CompareRemote(s) \/ ResolveConflict(s) => overwrites' \subseteq overwrites
      BY DEF CompareLocal, CompareRemote, ResolveConflict
<1>6. /\ \A content \in Values \cup {Deleted}, level \in Levels :
           StartWrite(content, level) => overwrites' \subseteq overwrites
      /\ \A w \in Writes, r \in Replicas :
           Prepare(w, r) \/ PrepareFails(w, r) \/ Commit(w, r) \/ CommitFails(w, r) \/ CommitLate(w, r)
             => overwrites' \subseteq overwrites
      /\ \A w \in Writes : Abort(w) => overwrites' \subseteq overwrites
      /\ UNCHANGED vars => overwrites' \subseteq overwrites
      BY DEF StartWrite, Prepare, PrepareFails, Commit, CommitFails, CommitLate, Abort, vars
<1> QED
    BY <1>2, <1>3, <1>4, <1>5, <1>6 DEF Next

-----------------------------------------------------------------------------
(* The invariant                                                             *)

LEMMA InitInductive ==
  ASSUME Init
  PROVE  Inductive
<1>1. Types /\ BeatsAreAimed
      BY InitTypes
<1>2. /\ object = [r \in Replicas |-> NoVersion] /\ Voters = {} /\ overwrites = {}
      /\ read = NoRead /\ \A s \in Replicas : beat[s].phase = "idle"
      BY DEF Init, NoVotes, Voters, Idle
<1>3. CommitsAreAccepted /\ AcknowledgedIsReached
      BY DEF Init, CommitsAreAccepted, AcknowledgedIsReached
<1>4. VersionsAreIssued
  <2>1. Held \subseteq {NoVersion}
        BY <1>2 DEF Held, NoRead
  <2> QED
      BY <2>1, NoVersionIsIssued DEF VersionsAreIssued
<1>5. ReadIsServed /\ ReadKeepsUp /\ OverwritesDeleteNothing
      BY <1>2 DEF ReadIsServed, ReadKeepsUp, OverwritesDeleteNothing, NoRead
<1>6. FloorsAreReached
  <2>1. \A k \in 1 .. N : floor[k] = 0 /\ k <= N
        BY DEF Init
  <2>2. \A r \in Replicas : 0 <= object[r].time
        BY <1>2 DEF NoVersion
  <2>3. {r \in Replicas : 0 <= object[r].time} = Replicas
        BY <2>2
  <2> QED
      BY <2>1, <2>3 DEF FloorsAreReached, Reached, N
<1> QED
    BY <1>1, <1>3, <1>4, <1>5, <1>6 DEF Inductive

LEMMA InductiveStep ==
  ASSUME Inductive, [Next]_vars
  PROVE  Inductive'
<1>1. Types' /\ BeatsAreAimed'
      BY TypesStep, BeatsStayAimed DEF Inductive
<1>2. CommitsAreAccepted' /\ CallsGrow
      BY <1>1, CommitsStep DEF Inductive
<1>3. VersionsAreIssued' /\ ReadIsServed'
      BY <1>1, <1>2, IssuedStep, ServedStep DEF Inductive
<1>4. FloorsAreReached' /\ AcknowledgedIsReached' /\ ReadKeepsUp'
      BY <1>1, FloorsStep, AcknowledgedStep, KeepsUpStep DEF Inductive
<1>5. OverwritesDeleteNothing'
      BY <1>1, <1>2, DeletesNothingStep DEF Inductive
<1> QED
    BY <1>1, <1>2, <1>3, <1>4, <1>5 DEF Inductive

\* Everything above is true in every state: it is what an object's replicas, its writes and
\* its read rely on between two calls.
LEMMA AlwaysInductive == ReplicatedSpec => []Inductive
<1>1. Init => Inductive
      BY InitInductive
<1>2. Inductive /\ [Next]_vars => Inductive'
      BY InductiveStep
<1> QED
    BY <1>1, <1>2, PTL DEF ReplicatedSpec

-----------------------------------------------------------------------------
(* The theorems                                                              *)

\* Replicas, tasks, calls, the read, its votes, overwrites and hashbeats hold what the
\* coordinator, the replicas' maps and the beats can put into them.
THEOREM ReplicatedTypes == ReplicatedSpec => []ReplicatedTypeOK
<1>1. Inductive => ReplicatedTypeOK
      BY DEF Inductive, Types
<1> QED
    BY <1>1, AlwaysInductive, PTL

\* What the coordinator refuses because too few replicas got ready in the first phase is
\* stored by no replica, carried by no overwrite and returned by no read, whatever repairs,
\* hashbeats, late commits and restarts do.
THEOREM RefusedWritesAreNotSeen == ReplicatedSpec => []RefusedWriteLeavesNoTrace
<1>1. ASSUME Inductive
      PROVE  RefusedWriteLeavesNoTrace
  <2>1. ASSUME NEW w \in Writes, Cardinality(Ready(call[w])) < write[w].level,
               NEW v \in Held
        PROVE  v.time # w
    <3>1. Issued(v) /\ Types
          BY <1>1 DEF Inductive, VersionsAreIssued
    <3>2. SUFFICES ASSUME v.time = w PROVE FALSE
          OBVIOUS
    <3>3. w # 0 /\ NoVersion.time = 0
          BY Sizes DEF Writes, NoVersion
    <3>4. Accepted(w)
          BY <3>1, <3>2, <3>3 DEF Issued
    <3>5. PICK S : S = Ready(call[w])
          OBVIOUS
    <3>6. S \subseteq Replicas
          BY <3>5 DEF Ready
    <3>7. Cardinality(S) \in Nat /\ write[w].level \in Nat
          BY <3>1, <3>6, Subsets, CallTypes
    <3>8. Cardinality(S) < write[w].level /\ write[w].level <= Cardinality(S)
          BY <2>1, <3>4, <3>5 DEF Accepted
    <3> QED
        BY <3>7, <3>8
  <2> QED
      BY <2>1, HeldHas DEF RefusedWriteLeavesNoTrace
<1> QED
    BY <1>1, AlwaysInductive, PTL

\* A read that returns because its answers agree
LEMMA AgreeReturnsCurrent ==
  ASSUME Inductive, Agree, Reader \notin tainted
  PROVE  read'.result.time >= read.floor
<1>1. Types /\ ReadIsServed /\ ReadKeepsUp /\ Complete
      BY DEF Inductive, Agree
<1>2. PICK r \in Voters : read.floor <= votes[r].time
      BY <1>1, SomeAnswerIsCurrent
<1>3. read.full \in Voters
      BY <1>1, FullHasAnswered
<1>4. votes[read.full].time = votes[r].time /\ read'.result = votes[read.full]
      BY <1>3 DEF Agree, Return, NoRead
<1>5. read.floor \in Nat /\ votes[r].time \in Nat
      BY <1>1, ReadTypes, TimeTypes DEF Reads
<1> QED
    BY <1>2, <1>4, <1>5

\* A read that returns what it repaired
LEMMA RepairReturnsCurrent ==
  ASSUME Inductive, EndRepair, read'.phase = "returned", Reader \notin tainted, strategy # "DeleteOnConflict"
  PROVE  read'.result.time >= read.floor
<1>1. Types /\ ReadKeepsUp
      BY DEF Inductive
<1>2. ~read.failed
      BY DEF EndRepair, NoRead
<1>3. read'.result = read.result /\ read.phase = "repairing"
      BY <1>2 DEF EndRepair, Return, NoRead
<1>4. read.floor <= read.result.time
      BY <1>1, <1>2, <1>3 DEF ReadKeepsUp
<1>5. read.floor \in Nat /\ read.result.time \in Nat
      BY <1>1, ReadTypes, TimeTypes DEF Reads
<1> QED
    BY <1>3, <1>4, <1>5

\* A read of R replicas does not return less than what W replicas acknowledged, or an
\* earlier read of W replicas returned, before it started, when W + R > N: quorums meet, the
\* read takes the latest answer, and read repair brings the replicas it asked up to it.
\* Excepted are reads that met a replica that went back in time, which late commits,
\* overwrites and hashbeats may make it do, and DeleteOnConflict, for which a deletion wins
\* over any later write.
THEOREM ReadsDoNotGoBack == ReplicatedSpec => ReadsAreMonotonic
<1>1. ASSUME Inductive, [Next]_vars,
             read.phase # "returned", read'.phase = "returned", Reader \notin tainted, strategy # "DeleteOnConflict"
      PROVE  read'.result.time >= read.floor
  <2>1. Types /\ ReadIsServed
        BY <1>1 DEF Inductive
  <2>2. ~ReadGoesOn
        BY <1>1 DEF ReadGoesOn
  <2>3. CASE Agree \/ EndRepair
        BY <1>1, <2>3, AgreeReturnsCurrent, RepairReturnsCurrent
  <2>4. /\ \A level \in Levels : ~StartRead(level)
        /\ ~ReadFails
    <3>1. \A level \in Levels : StartRead(level) => read'.phase = "pulling"
          BY DEF StartRead, NoRead
    <3>2. ReadFails => read'.phase = "idle"
          BY DEF ReadFails, NoRead
    <3> QED
        BY <1>1, <3>1, <3>2
  <2>5. \A r \in Replicas, full \in BOOLEAN : ~Answer(r, full)
        BY <1>1, <2>1, ReadTypes DEF Answer, Reads
  <2>6. ~RepairOne
    <3>1. ~GivesUp
          BY <1>1, <2>1, ReadTypes DEF GivesUp, Reads
    <3>2. \A v, rs : ~Repairs(v, rs)
          BY <1>1, <2>1, ReadTypes DEF Repairs, Repair, Reads
    <3> QED
        BY <2>1, <3>1, <3>2, RepairOneIs
  <2>7. /\ \A r \in Replicas : ~Crash(r)
        /\ \A o \in overwrites : ~Check(o) /\ ~Overwrite(o) /\ ~OverwriteFails(o)
        BY <2>1, <2>2, CrashGoesOn, OverwriteGoesOn
  <2>8. /\ \A s \in Beaters, t \in Replicas : ~CompareLocal(s, t)
        /\ \A s \in Beaters : ~CompareRemote(s) /\ ~Propagate(s) /\ ~ResolveConflict(s)
        BY <2>1, <2>2, BeatGoesOn, ReplicatedAssumption
  <2> QED
      BY <1>1, <2>2, <2>3, <2>4, <2>5, <2>6, <2>7, <2>8, WriteGoesOn DEF Next
<1>2. Inductive /\ [Next]_vars =>
        [(read.phase # "returned" /\ read'.phase = "returned" /\ Reader \notin tainted)
            => (read'.result.time >= read.floor \/ strategy = "DeleteOnConflict")]_vars
      BY <1>1
<1> QED
    BY <1>2, AlwaysInductive, PTL DEF ReplicatedSpec, ReadsAreMonotonic

\* An overwrite whose check is not stale leaves what is deleted deleted, and the rest alive.
LEMMA OverwriteLeavesDeletions ==
  ASSUME Inductive, strategy = "NoAutomatedResolution", NEW o \in overwrites, Overwrite(o),
         o.seen = object[o.to].time
  PROVE  object[o.to].content # Deleted /\ object'[o.to].content # Deleted
<1>1. Types /\ VersionsAreIssued /\ OverwritesDeleteNothing
      BY DEF Inductive
<1>2. o.to \in Replicas /\ o.version \in Versions
      BY <1>1, ReadTypes DEF Overwrites
<1>3. o.version.content # Deleted
      BY <1>1 DEF OverwritesDeleteNothing
<1>4. PICK v \in Versions : Issued(v) /\ v.time = o.seen /\ v.content # Deleted
      BY <1>1 DEF OverwritesDeleteNothing, Overwrite
<1>5. Issued(object[o.to])
      BY <1>1, <1>2, HeldHas DEF VersionsAreIssued
<1>6. object[o.to].content # Deleted
      BY <1>4, <1>5, SameTimeSameContent
<1>7. object'[o.to] \in {object[o.to], o.version}
      BY <1>1, <1>2, StoredHas DEF Overwrite, Stored
<1> QED
    BY <1>3, <1>6, <1>7

\* With NoAutomatedResolution, neither read repair nor a hashbeat decides between an object
\* and its deletion: whether a replica has it deleted changes with the commit of a write
\* there, or by an overwrite whose check a commit overtook.
THEOREM DeletionsStay == ReplicatedSpec => DeletionsAreNotResolvedUnasked
<1> DEFINE Unasked(r) ==
              (/\ strategy = "NoAutomatedResolution"
               /\ (object[r].content = Deleted) # (object'[r].content = Deleted)
               /\ \A o \in overwrites : o.to = r /\ o.checked => o.seen = object[r].time)
                  => tasks'[r] # tasks[r]
<1>1. ASSUME Inductive, [Next]_vars, NEW r \in Replicas
      PROVE  Unasked(r)
  <2>1. Types
        BY <1>1 DEF Inductive
  <2>2. CASE object'[r] = object[r]
        BY <2>2
  <2>3. ASSUME NEW w \in Writes, NEW q \in Replicas, Commit(w, q) \/ CommitLate(w, q)
        PROVE  Unasked(r)
    <3>1. CASE r = q
      <4>1. w \in tasks[q] /\ tasks'[q] = tasks[q] \ {w}
            BY <2>1, <2>3, CallTypes DEF Commit, CommitLate
      <4> QED
          BY <3>1, <4>1
    <3>2. CASE r # q
      <4>1. PICK new \in Versions : new = Version(w)
            BY <2>1, WriteVersion
      <4>2. object' = [object EXCEPT ![q] = Store(@, new)]
            BY <2>3, <4>1 DEF Commit, CommitLate, Stored
      <4>3. object'[r] = object[r]
            BY <2>1, <3>2, <4>2, StoredHas
      <4> QED
          BY <2>2, <4>3
    <3> QED
        BY <3>1, <3>2
  <2>4. ASSUME NEW o \in overwrites, Overwrite(o)
        PROVE  Unasked(r)
    <3>1. CASE r = o.to
      <4>1. o.checked
            BY <2>4 DEF Overwrite
      <4> QED
          BY <1>1, <2>4, <3>1, <4>1, OverwriteLeavesDeletions
    <3>2. CASE r # o.to
      <4>1. o.to \in Replicas /\ o.version \in Versions
            BY <2>1, ReadTypes DEF Overwrites
      <4>2. object'[r] = object[r]
            BY <2>1, <2>4, <3>2, <4>1, StoredHas DEF Overwrite, Stored
      <4> QED
          BY <2>2, <4>2
    <3> QED
        BY <3>1, <3>2
  <2>5. ASSUME NEW s \in Beaters, ResolveConflict(s)
        PROVE  Unasked(r)
    <3>1. ASSUME strategy = "NoAutomatedResolution"
          PROVE  object' = object
          BY <2>5, <3>1 DEF ResolveConflict, DeletesLocally
    <3> QED
        BY <2>2, <3>1
  <2>6. Agree \/ EndRepair => object' = object
        BY DEF Agree, EndRepair
  <2>7. CASE StillStep
        BY <2>2, <2>7 DEF StillStep
  <2> HIDE DEF Unasked
  <2>8. CASE Agree \/ EndRepair
        BY <2>2, <2>6, <2>8
  <2> QED
      BY <1>1, <2>3, <2>4, <2>5, <2>7, <2>8, StillSteps DEF Next
<1>2. Inductive /\ [Next]_vars => [\A r \in Replicas : Unasked(r)]_vars
      BY <1>1
<1> QED
    BY <1>2, AlwaysInductive, PTL DEF ReplicatedSpec, DeletionsAreNotResolvedUnasked

=============================================================================
