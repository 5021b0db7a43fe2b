------------------------------- MODULE Bucket -------------------------------
(***************************************************************************)
(* One LSM bucket of the key-value store under adapters/repos/db/lsmkv:    *)
(* strategy "replace", tombstones not kept, file names without segment     *)
(* information (the defaults).  Writes go to the active memtable and its   *)
(* buffered write-ahead log; the flush cycle turns the memtable into a     *)
(* segment file; the compaction cycle merges neighbouring segments, or     *)
(* cleans one of keys that newer segments hold; a crash at any point       *)
(* leaves the files, from which NewBucket rebuilds the bucket.             *)
(*                                                                         *)
(* A write is its number in `written`; 0 stands for no entry.  Contents of *)
(* a memtable, a log or a segment map every key to the newest write they   *)
(* hold for it.  Memtables and segments are named by their creation time;  *)
(* 0 is no memtable.  A crash is one of the process: what was handed to    *)
(* the operating system stays.                                             *)
(***************************************************************************)
EXTENDS Integers, Sequences, FiniteSets

CONSTANTS
  Keys,
  MaxWriters,       \* bound on writes in flight at a time
  MaxWrites,        \* bound on writes
  MaxMemtables,     \* bound on memtables created
  MaxCrashes,       \* bound on crashes and shutdowns
  MaxFailures,      \* bound on flushes that fail
  MaxSegmentSize,   \* limit on the entries of a compacted segment, 0: none
  SegmentsCleanup   \* whether a cleanup interval is set

ASSUME BucketAssumption ==
  /\ MaxWriters \in Nat /\ MaxWrites \in Nat /\ MaxMemtables \in Nat \ {0} /\ MaxCrashes \in Nat
  /\ MaxFailures \in Nat /\ MaxSegmentSize \in Nat
  /\ SegmentsCleanup \in BOOLEAN

VARIABLES
  phase,      \* "up", "down", "recovering", or "refused" to start
  active,     \* memtable that takes writes
  flushing,   \* memtable being flushed
  mem,        \* contents of memtables
  segs,       \* segments of the group, oldest first, the enqueued ones last
  filed,      \* how many of them are not enqueued
  cursor,     \* "none", "open", "closing": a cursor over the segments
  fpc,        \* where the flush cycle is
  cpc,        \* where the compaction cycle is
  target,     \* position of the (left) segment it works on
  wal, db, tmp,               \* the files
  clock, crashes, failures,   \* time, and counters of the bounds
  written, pending,           \* writes, and those not yet acknowledged
  last,       \* per key, the write a get should find
  logged,     \* per key, the newest write that is in a file
  mishap      \* history: one of the known ways to lose data was taken

memory == <<active, flushing, mem, segs, filed, cursor, fpc, cpc, target>>
disk == <<wal, db, tmp>>
bounds == <<clock, crashes, failures>>
history == <<written, pending, last, logged, mishap>>
vars == <<phase, memory, disk, bounds, history>>

Writes == 0..MaxWrites
Memtables == 0..MaxMemtables
Contents == [Keys -> Writes]
Empty == [k \in Keys |-> 0]

(* tag 0: "segment-ID.db"; tag n+1: "segment-ID.ln.s0.db". *)
Plain == 0
Segments == [id : Memtables, tag : Nat, level : Nat, kv : Contents]

(* A file being written by the compaction cycle: of one segment if left is *)
(* right, and readable once done.                                          *)
NoTmp == [left |-> 0, right |-> 0, level |-> 0, kv |-> Empty, done |-> FALSE]
Tmps == [left : Memtables, right : Memtables, level : Nat, kv : Contents, done : BOOLEAN]

Newer(old, new) == [k \in Keys |-> IF new[k] # 0 THEN new[k] ELSE old[k]]

(* get: the newest layer with an entry for the key decides. *)
Finds(s, k, n) ==
  \/ n # 0 /\ \E i \in DOMAIN s : s[i].kv[k] = n /\ \A j \in DOMAIN s : j > i => s[j].kv[k] = 0
  \/ n = 0 /\ \A i \in DOMAIN s : s[i].kv[k] = 0

Reads(k, n) ==
  \/ n # 0 /\ mem[active][k] = n
  \/ n # 0 /\ mem[active][k] = 0 /\ mem[flushing][k] = n
  \/ mem[active][k] = 0 /\ mem[flushing][k] = 0 /\ Finds(segs, k, n)

(* What a write leaves for a reader: nothing, if it was a delete. *)
Value(n) == IF n = 0 \/ n \notin DOMAIN written THEN 0
            ELSE IF written[n].dead THEN 0 ELSE n

TypeOK ==
  /\ phase \in {"up", "down", "recovering", "refused"}
  /\ active \in Memtables /\ flushing \in Memtables
  /\ mem \in [Memtables -> Contents] /\ mem[0] = Empty
  /\ segs \in Seq(Segments) /\ filed \in 0..Len(segs)
  /\ cursor \in {"none", "open", "closing"}
  /\ fpc \in {"idle", "closeLog", "write", "dropLog", "add"}
  /\ cpc \in {"idle", "compact", "compacted", "markedLeft", "markedBoth",
              "clean", "cleaned", "marked"}
  /\ target \in Nat
  /\ wal \in [Memtables -> Contents] /\ db \subseteq Segments /\ tmp \in Tmps
  /\ clock \in Memtables /\ crashes \in 0..MaxCrashes /\ failures \in 0..MaxFailures
  /\ written \in Seq([key : Keys, dead : BOOLEAN]) /\ Len(written) \in Writes
  /\ pending \subseteq DOMAIN written
  /\ last \in Contents /\ logged \in Contents
  /\ mishap \in BOOLEAN

Init ==
  /\ phase = "up" /\ active = 1 /\ flushing = 0 /\ clock = 1
  /\ mem = [m \in Memtables |-> Empty] /\ segs = <<>> /\ filed = 0
  /\ cursor = "none" /\ fpc = "idle" /\ cpc = "idle" /\ target = 0
  /\ wal = [m \in Memtables |-> Empty] /\ db = {} /\ tmp = NoTmp
  /\ crashes = 0 /\ failures = 0
  /\ written = <<>> /\ pending = {}
  /\ last = Empty /\ logged = Empty /\ mishap = FALSE

-----------------------------------------------------------------------------
(* Writers. *)

Newest(contents) ==
  [k \in Keys |-> IF contents[k] > logged[k] THEN contents[k] ELSE logged[k]]

(* The buffer of the log of memtable m reaches its file. *)
Log(m, contents) ==
  /\ wal' = [wal EXCEPT ![m] = contents]
  /\ logged' = Newest(contents)

(* Put and Delete: the log takes the record first, in a buffer.           *)
Write(k, dead) ==
  LET n == Len(written) + 1
  IN /\ phase = "up" /\ Len(written) < MaxWrites /\ Cardinality(pending) < MaxWriters
     /\ written' = Append(written, [key |-> k, dead |-> dead])
     /\ pending' = pending \cup {n}
     /\ mem' = [mem EXCEPT ![active][k] = n]
     /\ last' = [last EXCEPT ![k] = n]
     /\ UNCHANGED <<phase, active, flushing, segs, filed, cursor, fpc, cpc, target,
                    disk, bounds, logged, mishap>>

(* WriteWAL, after which the caller acknowledges the write. *)
WriteWAL(n) ==
  /\ phase = "up" /\ n \in pending
  /\ Log(active, mem[active])
  /\ pending' = pending \ {n}
  /\ UNCHANGED <<phase, memory, db, tmp, bounds, written, last, mishap>>

(* The buffer is full and spills, or the flush cycle finds a small log     *)
(* with writes since the last sync.                                        *)
SyncLog ==
  /\ phase = "up" /\ wal[active] # mem[active]
  /\ Log(active, mem[active])
  /\ UNCHANGED <<phase, memory, db, tmp, bounds, written, pending, last, mishap>>

-----------------------------------------------------------------------------
(* The flush cycle. *)

Segment(m, contents) == [id |-> m, tag |-> Plain, level |-> 0, kv |-> contents]

(* atomicallySwitchMemtable: a memtable whose flush failed is forgotten. *)
SwitchMemtable ==
  /\ phase = "up" /\ fpc = "idle" /\ mem[active] # Empty /\ clock < MaxMemtables
  /\ clock' = clock + 1 /\ active' = clock + 1 /\ flushing' = active
  /\ fpc' = "closeLog"
  /\ mishap' = (mishap \/ flushing # 0)
  /\ UNCHANGED <<phase, mem, segs, filed, cursor, cpc, target, disk, crashes, failures,
                 written, pending, last, logged>>

(* flush closes the log, which writes out its buffer. *)
CloseLog ==
  /\ phase = "up" /\ fpc = "closeLog" /\ fpc' = "write"
  /\ Log(flushing, mem[flushing])
  /\ UNCHANGED <<phase, active, flushing, mem, segs, filed, cursor, cpc, target, db, tmp,
                 bounds, written, pending, last, mishap>>

(* It writes the segment under a temporary name and renames it, *)
WriteSegment ==
  /\ phase = "up" /\ fpc = "write" /\ fpc' = "dropLog"
  /\ db' = db \cup {Segment(flushing, mem[flushing])}
  /\ UNCHANGED <<phase, active, flushing, mem, segs, filed, cursor, cpc, target, wal, tmp,
                 bounds, history>>

(* and deletes the log last. *)
DropLog ==
  /\ phase = "up" /\ fpc = "dropLog" /\ fpc' = "add"
  /\ wal' = [wal EXCEPT ![flushing] = Empty]
  /\ UNCHANGED <<phase, active, flushing, mem, segs, filed, cursor, cpc, target, db, tmp,
                 bounds, history>>

(* The compaction cycle holds the maintenance lock while it replaces files. *)
Replacing == cpc \in {"markedLeft", "markedBoth", "marked"}

(* atomicallyAddDiskSegmentAndRemoveFlushing: while a cursor is in use the *)
(* segment is enqueued, else it needs the maintenance lock.                *)
AddSegment ==
  /\ phase = "up" /\ fpc = "add" /\ fpc' = "idle"
  /\ cursor = "none" => ~Replacing
  /\ segs' = Append(segs, Segment(flushing, mem[flushing]))
  /\ filed' = IF cursor = "none" THEN Len(segs) + 1 ELSE filed
  /\ flushing' = 0 /\ mem' = [mem EXCEPT ![flushing] = Empty]
  /\ UNCHANGED <<phase, active, cursor, cpc, target, disk, bounds, history>>

(* A step of the flush fails: the memtable stays as flushing, and nothing  *)
(* tries again.                                                            *)
FlushFails ==
  /\ phase = "up" /\ fpc # "idle" /\ failures < MaxFailures
  /\ failures' = failures + 1 /\ fpc' = "idle"
  /\ UNCHANGED <<phase, active, flushing, mem, segs, filed, cursor, cpc, target, disk,
                 clock, crashes, history>>

-----------------------------------------------------------------------------
(* Cursors with flushing support. *)

OpenCursor ==
  /\ phase = "up" /\ cursor = "none" /\ ~Replacing /\ cursor' = "open"
  /\ UNCHANGED <<phase, active, flushing, mem, segs, filed, fpc, cpc, target, disk,
                 bounds, history>>

(* The cursor lets go of the maintenance lock first, *)
CloseCursor ==
  /\ phase = "up" /\ cursor = "open" /\ cursor' = "closing"
  /\ UNCHANGED <<phase, active, flushing, mem, segs, filed, fpc, cpc, target, disk,
                 bounds, history>>

(* and files the enqueued segments afterwards. *)
FileEnqueued ==
  /\ phase = "up" /\ cursor = "closing" /\ cursor' = "none"
  /\ filed < Len(segs) => ~Replacing
  /\ filed' = Len(segs)
  /\ UNCHANGED <<phase, active, flushing, mem, segs, fpc, cpc, target, disk, bounds, history>>

-----------------------------------------------------------------------------
(* The compaction cycle. *)

Size(s) == Cardinality({k \in Keys : s.kv[k] # 0})

Neighbours(i) == i \in 1..filed - 1 /\ segs[i].level = segs[i + 1].level

Matches(i) ==
  /\ Neighbours(i)
  /\ MaxSegmentSize # 0 => Size(segs[i]) + Size(segs[i + 1]) <= MaxSegmentSize

(* Among the newest neighbours of one level that match, the oldest pair. *)
IsCandidate(i) ==
  /\ Matches(i)
  /\ \A j \in i + 1..filed - 1 : Matches(j) => \A m \in i..j : Neighbours(m)
  /\ \A j \in 1..i - 1 : Matches(j) => \E m \in j..i : ~Neighbours(m)

(* The level does not rise above that of an older segment. *)
CompactedLevel(i) ==
  IF i > 1 /\ Neighbours(i - 1) THEN segs[i].level ELSE segs[i].level + 1

(* Seeded bug: tombstones are dropped although an older segment is left.   *)
Merged_DropsTombstones(i) ==
  LET kv == Newer(segs[i].kv, segs[i + 1].kv)
  IN [k \in Keys |-> Value(kv[k])]

(* A tombstone is dropped when no older segment can hold its key. *)
Merged(i) ==
  LET kv == Newer(segs[i].kv, segs[i + 1].kv)
  IN IF i = 1 THEN [k \in Keys |-> Value(kv[k])] ELSE kv

(* findCompactionCandidates; the new file is created *)
StartCompaction(i) ==
  /\ phase = "up" /\ cpc = "idle" /\ IsCandidate(i)
  /\ cpc' = "compact" /\ target' = i
  /\ tmp' = [left |-> segs[i].id, right |-> segs[i + 1].id, level |-> CompactedLevel(i),
             kv |-> Empty, done |-> FALSE]
  /\ UNCHANGED <<phase, active, flushing, mem, segs, filed, cursor, fpc, wal, db, bounds, history>>

(* and written. *)
WriteCompacted ==
  /\ phase = "up" /\ cpc = "compact" /\ cpc' = "compacted"
  /\ tmp' = [tmp EXCEPT !.kv = Merged(target), !.done = TRUE]
  /\ UNCHANGED <<phase, active, flushing, mem, segs, filed, cursor, fpc, target, wal, db,
                 bounds, history>>

(* Seeded bug: the right file is marked for deletion first.                *)
MarkLeft_RightFirst ==
  /\ phase = "up" /\ cpc = "compacted" /\ cursor # "open" /\ cpc' = "markedLeft"
  /\ db' = db \ {segs[target + 1]}
  /\ UNCHANGED <<phase, active, flushing, mem, segs, filed, cursor, fpc, target, wal, tmp,
                 bounds, history>>

(* replaceCompactedSegmentsBlocking marks the left file for deletion, *)
MarkLeft ==
  /\ phase = "up" /\ cpc = "compacted" /\ cursor # "open" /\ cpc' = "markedLeft"
  /\ db' = db \ {segs[target]}
  /\ UNCHANGED <<phase, active, flushing, mem, segs, filed, cursor, fpc, target, wal, tmp,
                 bounds, history>>

(* then the right one, *)
MarkRight ==
  /\ phase = "up" /\ cpc = "markedLeft" /\ cpc' = "markedBoth"
  /\ db' = db \ {segs[target + 1]}
  /\ UNCHANGED <<phase, active, flushing, mem, segs, filed, cursor, fpc, target, wal, tmp,
                 bounds, history>>

(* Seeded bug: the count of the segments that are not enqueued stays.      *)
InstallCompacted_KeepsCount ==
  LET new == [id |-> tmp.right, tag |-> Plain, level |-> tmp.level, kv |-> tmp.kv]
  IN /\ phase = "up" /\ cpc = "markedBoth" /\ cpc' = "idle" /\ target' = 0
     /\ db' = db \cup {new} /\ tmp' = NoTmp
     /\ segs' = [i \in 1..Len(segs) - 1 |->
                   IF i < target THEN segs[i] ELSE IF i = target THEN new ELSE segs[i + 1]]
     /\ UNCHANGED <<phase, active, flushing, mem, filed, cursor, fpc, wal, bounds, history>>

(* and gives the new one the name of the right one. *)
InstallCompacted ==
  LET new == [id |-> tmp.right, tag |-> Plain, level |-> tmp.level, kv |-> tmp.kv]
  IN /\ phase = "up" /\ cpc = "markedBoth" /\ cpc' = "idle" /\ target' = 0
     /\ db' = db \cup {new} /\ tmp' = NoTmp
     /\ segs' = [i \in 1..Len(segs) - 1 |->
                   IF i < target THEN segs[i] ELSE IF i = target THEN new ELSE segs[i + 1]]
     /\ filed' = filed - 1
     /\ UNCHANGED <<phase, active, flushing, mem, cursor, fpc, wal, bounds, history>>

(* cleanupOnce: which segment is due, and from which newer one on it is    *)
(* compared, depends on sizes and times kept in a database.  Keys that     *)
(* exist in a newer segment, be it as tombstones, are left out.            *)
StartCleanup(i, from) ==
  /\ SegmentsCleanup /\ phase = "up" /\ cpc = "idle"
  /\ i \in 1..filed /\ i < Len(segs) /\ from > i
  /\ cpc' = "clean" /\ target' = i
  /\ tmp' = [left |-> segs[i].id, right |-> segs[i].id, level |-> segs[i].level, done |-> FALSE,
             kv |-> [k \in Keys |-> IF \E j \in from..Len(segs) : segs[j].kv[k] # 0
                                    THEN 0 ELSE segs[i].kv[k]]]
  /\ UNCHANGED <<phase, active, flushing, mem, segs, filed, cursor, fpc, wal, db, bounds, history>>

WriteCleaned ==
  /\ phase = "up" /\ cpc = "clean" /\ cpc' = "cleaned"
  /\ tmp' = [tmp EXCEPT !.done = TRUE]
  /\ UNCHANGED <<phase, active, flushing, mem, segs, filed, cursor, fpc, target, wal, db,
                 bounds, history>>

(* replaceSegmentBlocking marks the old file for deletion, *)
MarkCleaned ==
  /\ phase = "up" /\ cpc = "cleaned" /\ cursor # "open" /\ cpc' = "marked"
  /\ db' = db \ {segs[target]}
  /\ UNCHANGED <<phase, active, flushing, mem, segs, filed, cursor, fpc, target, wal, tmp,
                 bounds, history>>

(* and renames the new one, whose name carries its level. *)
InstallCleaned ==
  LET new == [id |-> tmp.right, tag |-> tmp.level + 1, level |-> tmp.level, kv |-> tmp.kv]
  IN /\ phase = "up" /\ cpc = "marked" /\ cpc' = "idle" /\ target' = 0
     /\ db' = db \cup {new} /\ tmp' = NoTmp
     /\ segs' = [segs EXCEPT ![target] = new]
     /\ UNCHANGED <<phase, active, flushing, mem, filed, cursor, fpc, wal, bounds, history>>

-----------------------------------------------------------------------------
(* Crashes, shutdowns and NewBucket. *)

ForgetMemory ==
  /\ active' = 0 /\ flushing' = 0 /\ mem' = [m \in Memtables |-> Empty]
  /\ segs' = <<>> /\ filed' = 0 /\ cursor' = "none"
  /\ fpc' = "idle" /\ cpc' = "idle" /\ target' = 0
  /\ pending' = {}

(* In the middle of replacing a cleaned segment this loses it. *)
Crash ==
  /\ phase \in {"up", "recovering"} /\ crashes < MaxCrashes
  /\ phase' = "down" /\ crashes' = crashes + 1
  /\ ForgetMemory
  /\ mishap' = (mishap \/ cpc = "marked")
  /\ UNCHANGED <<disk, clock, failures, written, last, logged>>

(* Shutdown: cycles end first; the active memtable is left to its log, or  *)
(* if that is large written as a segment.                                  *)
Shutdown(reuse) ==
  /\ phase = "up" /\ fpc = "idle" /\ cpc = "idle" /\ cursor = "none"
  /\ crashes < MaxCrashes
  /\ phase' = "down" /\ crashes' = crashes + 1
  /\ IF reuse
     THEN Log(active, mem[active]) /\ db' = db
     ELSE /\ mem[active] # Empty
          /\ wal' = [wal EXCEPT ![active] = Empty] /\ logged' = Newest(mem[active])
          /\ db' = db \cup {Segment(active, mem[active])}
  /\ ForgetMemory
  /\ UNCHANGED <<tmp, clock, failures, written, last, mishap>>

Named(files, m, tag) == {f \in files : f.id = m /\ f.tag = tag}
Logs == {m \in Memtables : wal[m] # Empty}

(* Seeded bug: every temporary file is taken for a leftover.               *)
LoadSegments_RemovesTmp ==
  /\ phase = "down" /\ phase' = "recovering"
  /\ db' = {f \in db : f.id \notin Logs} /\ tmp' = NoTmp
  /\ UNCHANGED <<memory, wal, bounds, history>>

(* newSegmentGroup: a leftover of a cleanup, or of a compaction both of    *)
(* whose sources are there, is removed; else it takes their place.  A file *)
(* whose log is there is the remainder of a flush.                         *)
LoadSegments ==
  LET left == Named(db, tmp.left, Plain)
      right == Named(db, tmp.right, Plain)
      replaces == tmp.left # tmp.right /\ left = {}
      new == [id |-> tmp.right, tag |-> Plain, level |-> tmp.level, kv |-> tmp.kv]
      refused == \/ tmp.left # tmp.right /\ left # {} /\ right = {}
                 \/ replaces /\ ~tmp.done   \* not readable as a segment
  IN /\ phase = "down"
     /\ phase' = IF refused THEN "refused" ELSE "recovering"
     /\ db' = IF refused THEN db
              ELSE {f \in db : f.id \notin Logs /\ ~(replaces /\ f \in right)}
                     \cup (IF replaces THEN {new} ELSE {})
     /\ tmp' = IF refused THEN tmp ELSE NoTmp
     /\ mishap' = (mishap \/ (tmp.left # tmp.right /\ \E f \in db :
                                f.id \in {tmp.left, tmp.right} /\ f.tag # Plain))
     /\ UNCHANGED <<memory, wal, bounds, written, pending, last, logged>>

(* mayRecoverFromCommitLogs reads the logs in the order of a Go map; all   *)
(* but the last are flushed.                                               *)
FlushRecoveredLog(m) ==
  /\ phase = "recovering" /\ m \in Logs /\ Logs # {m}
  /\ db' = db \cup {Segment(m, wal[m])}
  /\ wal' = [wal EXCEPT ![m] = Empty]
  /\ UNCHANGED <<phase, memory, tmp, bounds, history>>

InOrder(s) ==
  \A i, j \in DOMAIN s : i < j => \/ s[i].id < s[j].id
                                  \/ s[i].id = s[j].id /\ s[i].tag < s[j].tag

(* The last one becomes the active memtable, and NewBucket sorts the       *)
(* segments by name.  Gets find from now on what they find here.           *)
FinishRecovery(m) ==
  /\ phase = "recovering" /\ phase' = "up"
  /\ UNCHANGED <<flushing, cursor, fpc, cpc, target, disk, crashes, failures,
                 written, pending>>
  /\ IF Logs = {} THEN m = clock + 1 /\ m <= MaxMemtables ELSE Logs = {m}
  /\ clock' = IF m > clock THEN m ELSE clock
  /\ active' = m /\ mem' = [mem EXCEPT ![m] = wal[m]]
  /\ \E s \in [1..Cardinality(db) -> db] : InOrder(s) /\ segs' = s
  /\ filed' = Cardinality(db)
  /\ \E found \in Contents :
        /\ \A k \in Keys : Reads(k, found[k])'
        /\ last' = found /\ logged' = found
  /\ mishap' = (mishap \/ \E f \in db : f.id > m)

-----------------------------------------------------------------------------
Flushes == SwitchMemtable \/ CloseLog \/ WriteSegment \/ DropLog \/ AddSegment \/ FlushFails
Cursors == OpenCursor \/ CloseCursor \/ FileEnqueued
Compacts == \/ \E i \in 1..Len(segs) : StartCompaction(i)
            \/ WriteCompacted \/ MarkLeft \/ MarkRight \/ InstallCompacted
            \/ \E i \in 1..Len(segs), from \in 1..Len(segs) + 1 : StartCleanup(i, from)
            \/ WriteCleaned \/ MarkCleaned \/ InstallCleaned
Restarts == \/ Crash \/ \E reuse \in BOOLEAN : Shutdown(reuse)
            \/ LoadSegments \/ \E m \in Memtables : FlushRecoveredLog(m) \/ FinishRecovery(m)
Writers == \/ \E k \in Keys, dead \in BOOLEAN : Write(k, dead)
           \/ \E n \in pending : WriteWAL(n)

Next == Writers \/ SyncLog \/ Flushes \/ Cursors \/ Compacts \/ Restarts

Spec == Init /\ [][Next]_vars

-----------------------------------------------------------------------------
(* A get finds the last write for its key whatever the flush and the       *)
(* compaction cycle are in the middle of, and wherever the write has got   *)
(* to: memtable, flushing memtable, enqueued, merged or cleaned segment.   *)
ReadsTheLast ==
  phase = "up" /\ ~mishap =>
    \A k \in Keys : \E n \in Writes : Reads(k, n) /\ Value(n) = Value(last[k])

(* After a crash, at any point of a write, flush, compaction or recovery,  *)
(* a get finds the newest write that had reached a file: none is lost, and *)
(* nothing deleted or overwritten comes back.                              *)
RecoveryKeepsLogged ==
  [][phase = "recovering" /\ phase' = "up" /\ ~mishap' =>
       \A k \in Keys : Value(last'[k]) = Value(logged[k])]_vars

(* NewBucket never finds files it refuses to start from.                   *)
RecoveryIsPossible == ~mishap => phase # "refused"
=============================================================================
