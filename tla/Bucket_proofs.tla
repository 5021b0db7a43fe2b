---------------------------- MODULE Bucket_proofs ----------------------------
(***************************************************************************)
(* Proofs about the bucket: its types, that a get finds the last write for *)
(* its key, that NewBucket can start from the files any crash leaves, and  *)
(* that it finds there whatever had reached a file, for any keys, writers, *)
(* memtables, crashes, failing flushes and size limits, with or without    *)
(* the cleanup of segments.                                                *)
(***************************************************************************)
EXTENDS Bucket, FiniteSetTheorems, TLAPS

----------------------------------------------------------------------------
(* The inductive invariant *)

(* The memtable that takes writes is not the one being flushed, and those  *)
(* to come are empty.                                                      *)
Layers ==
  /\ phase = "up" => active \in 1..clock /\ flushing # active
  /\ fpc # "idle" => flushing # 0
  /\ wal[0] = Empty
  /\ \A m \in Memtables : m > clock => mem[m] = Empty

(* Nothing of the memory outlives the process. *)
Forgotten ==
  phase # "up" =>
    /\ active = 0 /\ flushing = 0 /\ mem = [m \in Memtables |-> Empty]
    /\ segs = <<>> /\ filed = 0 /\ fpc = "idle" /\ cpc = "idle" /\ target = 0
    /\ pending = {}

(* Memory and files hold writes that were made. *)
Known ==
  /\ \A m \in Memtables, k \in Keys :
       mem[m][k] <= Len(written) /\ wal[m][k] <= Len(written)
  /\ \A i \in DOMAIN segs, k \in Keys : segs[i].kv[k] <= Len(written)
  /\ \A f \in db, k \in Keys : f.kv[k] <= Len(written)
  /\ \A k \in Keys : tmp.kv[k] <= Len(written) /\ last[k] <= Len(written)

(* What the compaction cycle has written is what its segments held: of two *)
(* neighbours,                                                             *)
Merging ==
  /\ cpc \in {"compact", "compacted", "markedLeft", "markedBoth"} =>
       target \in 1..filed /\ target < filed
  /\ cpc \in {"compacted", "markedLeft", "markedBoth"} =>
       \A k \in Keys :
         /\ segs[target + 1].kv[k] # 0 =>
              \/ tmp.kv[k] = segs[target + 1].kv[k]
              \/ target = 1 /\ tmp.kv[k] = 0 /\ Value(segs[target + 1].kv[k]) = 0
         /\ segs[target + 1].kv[k] = 0 =>
              \/ tmp.kv[k] = segs[target].kv[k]
              \/ target = 1 /\ tmp.kv[k] = 0 /\ Value(segs[target].kv[k]) = 0

(* or of one, without what newer segments hold. *)
Cleaning ==
  cpc \in {"clean", "cleaned", "marked"} =>
    /\ target \in 1..filed
    /\ \A k \in Keys :
         \/ tmp.kv[k] = segs[target].kv[k]
         \/ /\ tmp.kv[k] = 0
            /\ \E j \in DOMAIN segs : j > target /\ segs[j].kv[k] # 0

BInv ==
  /\ TypeOK
  /\ IsFiniteSet(db)
  /\ Layers
  /\ Forgotten
  /\ Known
  /\ Merging
  /\ Cleaning
  /\ ReadsTheLast

----------------------------------------------------------------------------
(* The initial state *)

LEMMA InitBInv == Init => BInv
<1> SUFFICES ASSUME Init PROVE BInv
  OBVIOUS
<1> USE BucketAssumption DEF Init
<1> Empty \in Contents /\ 0 \in Memtables /\ 1 \in Memtables
  BY DEF Empty, Contents, Writes, Memtables
<1> DEFINE Records == [key : Keys, dead : BOOLEAN]
<1> segs \in Seq(Segments) /\ written \in Seq(Records) /\ Len(written) = 0 /\ Len(segs) = 0
  OBVIOUS
<1> NoTmp \in Tmps
  BY DEF NoTmp, Tmps
<1>1. TypeOK
  BY DEF TypeOK, Writes
<1>2. IsFiniteSet(db)
  BY FS_EmptySet
<1>3. Layers /\ Forgotten /\ Merging /\ Cleaning
  BY DEF Layers, Forgotten, Merging, Cleaning, Memtables
<1>4. Known
  BY DEF Known, Memtables, Empty, NoTmp
<1>5. ReadsTheLast
  BY DEF ReadsTheLast, Reads, Finds, Value, Writes, Empty, Memtables
<1> QED
  BY <1>1, <1>2, <1>3, <1>4, <1>5 DEF BInv

----------------------------------------------------------------------------
(* Steps that leave the layers a get looks through alone *)

Quiet == UNCHANGED <<phase, active, flushing, mem, segs, clock, written, last, mishap>>

LEMMA QuietKeepsReads ==
  ASSUME BInv, Quiet, phase = "up"
  PROVE  ReadsTheLast' /\ Forgotten'
<1> USE DEF BInv, Quiet
<1>1. ReadsTheLast'
  BY DEF ReadsTheLast, Reads, Finds, Value
<1> QED
  BY <1>1 DEF Forgotten

\* The entries of what is logged, and of what is already in a log, are writes.
LEMMA NewestInContents ==
  ASSUME logged \in Contents, NEW c \in Contents
  PROVE  Newest(c) \in Contents
BY DEF Newest, Contents, Writes

\* A step that writes the log of a memtable in use.
LEMMA LogKeepsBInv ==
  ASSUME BInv, NEW m \in Memtables \ {0}, Log(m, mem[m]), phase = "up", Quiet,
         UNCHANGED <<filed, cursor, cpc, target, db, tmp, crashes, failures>>,
         fpc' \in {"idle", "closeLog", "write", "dropLog", "add"},
         fpc' # "idle" => flushing # 0, pending' \subseteq pending
  PROVE  BInv'
<1> USE DEF BInv, Quiet
<1>1. mem[m] \in Contents
  BY DEF TypeOK
<1>2. wal' \in [Memtables -> Contents] /\ logged' \in Contents
  BY <1>1, NewestInContents DEF Log, TypeOK
<1>3. TypeOK'
  BY <1>2 DEF TypeOK
<1>4. Layers'
  BY DEF Layers, Log, TypeOK, Memtables
<1>5. Known'
  BY DEF Known, Log, TypeOK
<1>6. Merging'
  BY DEF Merging, Value
<1>7. Cleaning'
  BY DEF Cleaning
<1> QED
  BY <1>3, <1>4, <1>5, <1>6, <1>7, QuietKeepsReads

LEMMA WriteWALKeepsBInv ==
  ASSUME BInv, NEW n, WriteWAL(n)
  PROVE  BInv'
<1>1. active \in Memtables \ {0}
  BY DEF WriteWAL, BInv, TypeOK, Layers
<1>2. phase = "up" /\ Log(active, mem[active]) /\ pending' \subseteq pending
  BY DEF WriteWAL
<1>3. Quiet /\ UNCHANGED <<filed, cursor, cpc, target, db, tmp, crashes, failures, fpc>>
  BY DEF WriteWAL, Quiet, memory, bounds
<1>4. fpc' \in {"idle", "closeLog", "write", "dropLog", "add"} /\ (fpc' # "idle" => flushing # 0)
  BY <1>3 DEF BInv, TypeOK, Layers
<1> QED
  BY <1>1, <1>2, <1>3, <1>4, LogKeepsBInv

LEMMA SyncLogKeepsBInv ==
  ASSUME BInv, SyncLog
  PROVE  BInv'
<1>1. active \in Memtables \ {0}
  BY DEF SyncLog, BInv, TypeOK, Layers
<1>2. phase = "up" /\ Log(active, mem[active]) /\ pending' \subseteq pending
  BY DEF SyncLog
<1>3. Quiet /\ UNCHANGED <<filed, cursor, cpc, target, db, tmp, crashes, failures, fpc>>
  BY DEF SyncLog, Quiet, memory, bounds
<1>4. fpc' \in {"idle", "closeLog", "write", "dropLog", "add"} /\ (fpc' # "idle" => flushing # 0)
  BY <1>3 DEF BInv, TypeOK, Layers
<1> QED
  BY <1>1, <1>2, <1>3, <1>4, LogKeepsBInv

LEMMA CloseLogKeepsBInv ==
  ASSUME BInv, CloseLog
  PROVE  BInv'
<1>1. flushing \in Memtables \ {0}
  BY DEF CloseLog, BInv, TypeOK, Layers
<1>2. phase = "up" /\ Log(flushing, mem[flushing]) /\ pending' \subseteq pending
  BY DEF CloseLog
<1>3. Quiet /\ UNCHANGED <<filed, cursor, cpc, target, db, tmp, crashes, failures>>
  BY DEF CloseLog, Quiet, bounds
<1>4. fpc' \in {"idle", "closeLog", "write", "dropLog", "add"} /\ (fpc' # "idle" => flushing # 0)
  BY <1>1 DEF CloseLog
<1> QED
  BY <1>1, <1>2, <1>3, <1>4, LogKeepsBInv

\* A memtable's contents make a segment.
LEMMA SegmentOfMemtable ==
  ASSUME BInv, NEW m \in Memtables, NEW c \in Contents
  PROVE  Segment(m, c) \in Segments /\ IsFiniteSet(db \cup {Segment(m, c)})
<1>1. IsFiniteSet(db \cup {Segment(m, c)})
  BY FS_AddElement DEF BInv
<1> QED
  BY <1>1 DEF Segment, Segments, Plain

LEMMA WriteSegmentKeepsBInv ==
  ASSUME BInv, WriteSegment
  PROVE  BInv'
<1> USE DEF BInv, Quiet
<1>1. Quiet /\ phase = "up"
  BY DEF WriteSegment, bounds, history
<1>2. Segment(flushing, mem[flushing]) \in Segments /\ IsFiniteSet(db')
  BY SegmentOfMemtable DEF WriteSegment, TypeOK
<1>3. TypeOK'
  BY <1>2 DEF WriteSegment, TypeOK, bounds, history
<1>4. Layers' /\ Merging' /\ Cleaning'
  BY DEF WriteSegment, Layers, Merging, Cleaning, Value, bounds, history
<1>5. Known'
  BY DEF WriteSegment, Known, Segment, TypeOK, history
<1> QED
  BY <1>1, <1>2, <1>3, <1>4, <1>5, QuietKeepsReads

LEMMA DropLogKeepsBInv ==
  ASSUME BInv, DropLog
  PROVE  BInv'
<1> USE DEF BInv, Quiet
<1>1. Quiet /\ phase = "up"
  BY DEF DropLog, bounds, history
<1>2. Empty \in Contents
  BY BucketAssumption DEF Empty, Contents, Writes
<1>3. TypeOK'
  BY <1>2 DEF DropLog, TypeOK, bounds, history
<1>4. Layers' /\ Merging' /\ Cleaning'
  BY DEF DropLog, Layers, Merging, Cleaning, Value, bounds, history, TypeOK, Memtables
<1>5. Known'
  BY DEF DropLog, Known, Empty, TypeOK, Writes, history
<1> QED
  BY <1>1, <1>3, <1>4, <1>5, QuietKeepsReads DEF DropLog

LEMMA FlushFailsKeepsBInv ==
  ASSUME BInv, FlushFails
  PROVE  BInv'
<1> USE DEF BInv, Quiet
<1>1. Quiet /\ phase = "up"
  BY DEF FlushFails, history
<1>2. TypeOK'
  BY BucketAssumption DEF FlushFails, TypeOK, disk, history
<1>3. Layers' /\ Merging' /\ Cleaning' /\ Known'
  BY DEF FlushFails, Layers, Merging, Cleaning, Known, Value, disk, history
<1> QED
  BY <1>1, <1>2, <1>3, QuietKeepsReads DEF FlushFails, disk

\* A compaction or cleanup goes on beside it.
LEMMA QuietKeepsCompaction ==
  ASSUME BInv, Quiet, filed' \in Nat, filed' >= filed, UNCHANGED <<cpc, target, tmp>>
  PROVE  Merging' /\ Cleaning'
<1>1. filed \in Nat /\ target \in Nat /\ target' = target
  BY DEF BInv, TypeOK
<1>2. target < filed => target' < filed'
  BY <1>1
<1>3. target \in 1..filed => target' \in 1..filed'
  BY <1>1
<1>4. Merging'
  BY <1>2, <1>3 DEF BInv, Quiet, Merging, Value
<1>5. Cleaning'
  BY <1>3 DEF BInv, Quiet, Cleaning
<1> QED
  BY <1>4, <1>5

LEMMA CursorsKeepBInv ==
  ASSUME BInv, Cursors
  PROVE  BInv'
<1>1. Quiet /\ phase = "up"
  BY DEF Cursors, OpenCursor, CloseCursor, FileEnqueued, Quiet, bounds, history
<1>2. /\ cursor' \in {"none", "open", "closing"}
      /\ filed' \in 0..Len(segs) /\ filed' >= filed
      /\ UNCHANGED <<cpc, target, tmp, db, wal, fpc, pending, logged, crashes, failures>>
  BY DEF Cursors, OpenCursor, CloseCursor, FileEnqueued, BInv, TypeOK, disk, bounds, history
<1>3. TypeOK'
  BY <1>1, <1>2 DEF BInv, TypeOK, Quiet
<1>4. Layers' /\ Known'
  BY <1>1, <1>2 DEF BInv, Quiet, Layers, Known
<1>5. Merging' /\ Cleaning'
  BY <1>1, <1>2, QuietKeepsCompaction DEF BInv, TypeOK
<1> QED
  BY <1>1, <1>2, <1>3, <1>4, <1>5, QuietKeepsReads DEF BInv

----------------------------------------------------------------------------
(* The compaction cycle, up to the files it replaces *)

LEMMA BelowLast ==
  ASSUME NEW n \in Nat, NEW i \in 1..n - 1
  PROVE  i \in 1..n /\ i < n /\ i + 1 \in 1..n
OBVIOUS

LEMMA SegmentTypes ==
  ASSUME BInv, NEW i \in DOMAIN segs
  PROVE  /\ segs[i] \in Segments /\ segs[i].id \in Memtables /\ segs[i].level \in Nat
         /\ segs[i].kv \in Contents /\ \A k \in Keys : segs[i].kv[k] <= Len(written)
<1>1. segs[i] \in Segments
  BY DEF BInv, TypeOK
<1>2. \A k \in Keys : segs[i].kv[k] <= Len(written)
  BY DEF BInv, Known
<1> QED
  BY <1>1, <1>2 DEF Segments

LEMMA FiledAreSegments ==
  ASSUME BInv
  PROVE  filed \in Nat /\ Len(segs) \in Nat /\ filed <= Len(segs) /\ DOMAIN segs = 1..Len(segs)
BY DEF BInv, TypeOK

LEMMA StartCompactionKeepsBInv ==
  ASSUME BInv, NEW i \in 1..Len(segs), StartCompaction(i)
  PROVE  BInv'
<1> USE DEF BInv, Quiet
<1>1. Quiet /\ phase = "up" /\ cpc' = "compact" /\ target' = i
  BY DEF StartCompaction, bounds, history
<1>2. UNCHANGED <<filed, cursor, fpc, wal, db, pending, logged, crashes, failures>>
  BY DEF StartCompaction, bounds, history
<1>3. i \in 1..filed /\ i < filed /\ i + 1 \in 1..filed
  BY BelowLast, FiledAreSegments DEF StartCompaction, IsCandidate, Matches, Neighbours
<1>4. i \in DOMAIN segs /\ i + 1 \in DOMAIN segs /\ i \in Nat
  BY <1>3, FiledAreSegments
<1>5. CompactedLevel(i) \in Nat
  BY <1>4, SegmentTypes DEF CompactedLevel
<1>6. Empty \in Contents
  BY BucketAssumption DEF Empty, Contents, Writes
<1>7. tmp' = [left |-> segs[i].id, right |-> segs[i + 1].id, level |-> CompactedLevel(i),
              kv |-> Empty, done |-> FALSE]
  BY DEF StartCompaction
<1>8. tmp' \in Tmps
  BY <1>4, <1>5, <1>6, <1>7, SegmentTypes DEF Tmps
<1>9. TypeOK'
  BY <1>1, <1>2, <1>4, <1>8 DEF TypeOK
<1>10. Layers' /\ Merging' /\ Cleaning'
  BY <1>1, <1>2, <1>3 DEF Layers, Merging, Cleaning
<1>11. Known'
  BY <1>1, <1>2, <1>7 DEF Known, Empty, TypeOK, Writes
<1> QED
  BY <1>1, <1>2, <1>9, <1>10, <1>11, QuietKeepsReads

LEMMA WriteCompactedKeepsBInv ==
  ASSUME BInv, WriteCompacted
  PROVE  BInv'
<1> USE DEF BInv, Quiet
<1>1. Quiet /\ phase = "up" /\ cpc = "compact" /\ cpc' = "compacted"
  BY DEF WriteCompacted, bounds, history
<1>2. UNCHANGED <<filed, cursor, fpc, target, wal, db, pending, logged, crashes, failures>>
  BY DEF WriteCompacted, bounds, history
<1>3. target \in 1..filed /\ target < filed
  BY <1>1 DEF Merging
<1>4. target \in DOMAIN segs /\ target + 1 \in DOMAIN segs
  BY <1>3, FiledAreSegments
<1>5. \A k \in Keys :
        /\ Merged(target)[k] \in Writes /\ Merged(target)[k] <= Len(written)
        /\ segs[target + 1].kv[k] # 0 =>
             \/ Merged(target)[k] = segs[target + 1].kv[k]
             \/ target = 1 /\ Merged(target)[k] = 0 /\ Value(segs[target + 1].kv[k]) = 0
        /\ segs[target + 1].kv[k] = 0 =>
             \/ Merged(target)[k] = segs[target].kv[k]
             \/ target = 1 /\ Merged(target)[k] = 0 /\ Value(segs[target].kv[k]) = 0
  <2> SUFFICES ASSUME NEW k \in Keys,
                      NEW x, x = segs[target].kv[k], NEW y, y = segs[target + 1].kv[k]
               PROVE  LET m == IF y # 0 THEN y ELSE x
                      IN \A n \in {m, Value(m)} :
                           n \in Writes /\ n <= Len(written) /\ (n = m \/ n = 0)
    BY DEF Merged, Newer
  <2>1. x \in Writes /\ y \in Writes /\ x <= Len(written) /\ y <= Len(written)
    BY <1>4, SegmentTypes DEF Contents
  <2>2. 0 \in Writes /\ 0 <= Len(written)
    BY BucketAssumption DEF Writes, TypeOK
  <2>3. \A n : Value(n) \in {0, n}
    BY DEF Value
  <2> QED
    BY <2>1, <2>2, <2>3
<1>6. Merged(target) \in Contents
  BY <1>5 DEF Contents, Merged, Newer
<1>7. tmp' \in Tmps /\ tmp'.kv = Merged(target)
  BY <1>6 DEF WriteCompacted, TypeOK, Tmps
<1>8. TypeOK'
  BY <1>1, <1>2, <1>7 DEF TypeOK
<1>9. Layers' /\ Cleaning'
  BY <1>1, <1>2 DEF Layers, Cleaning
<1>10. Merging'
  BY <1>1, <1>2, <1>3, <1>5, <1>7 DEF Merging, Value
<1>11. Known'
  BY <1>1, <1>2, <1>5, <1>7 DEF Known
<1> QED
  BY <1>1, <1>2, <1>8, <1>9, <1>10, <1>11, QuietKeepsReads

\* A source is marked for deletion: only the files change.
LEMMA MarkKeepsBInv ==
  ASSUME BInv, MarkLeft \/ MarkRight \/ MarkCleaned
  PROVE  BInv'
<1> USE DEF BInv, Quiet
<1>1. Quiet /\ phase = "up"
  BY DEF MarkLeft, MarkRight, MarkCleaned, bounds, history
<1>2. /\ UNCHANGED <<filed, cursor, fpc, target, wal, tmp, pending, logged, crashes, failures>>
      /\ db' \subseteq db
  BY DEF MarkLeft, MarkRight, MarkCleaned, bounds, history
<1>3. \/ cpc \in {"compacted", "markedLeft"} /\ cpc' \in {"markedLeft", "markedBoth"}
      \/ cpc = "cleaned" /\ cpc' = "marked"
  BY DEF MarkLeft, MarkRight, MarkCleaned
<1>4. IsFiniteSet(db')
  BY <1>2, FS_Subset
<1>5. TypeOK'
  BY <1>1, <1>2, <1>3 DEF TypeOK
<1>6. Layers' /\ Known'
  BY <1>1, <1>2 DEF Layers, Known
<1>7. Merging' /\ Cleaning'
  BY <1>1, <1>2, <1>3 DEF Merging, Cleaning, Value
<1> QED
  BY <1>1, <1>2, <1>4, <1>5, <1>6, <1>7, QuietKeepsReads

LEMMA StartCleanupKeepsBInv ==
  ASSUME BInv, NEW i \in 1..Len(segs), NEW from \in 1..Len(segs) + 1, StartCleanup(i, from)
  PROVE  BInv'
<1> USE DEF BInv, Quiet
<1>1. Quiet /\ phase = "up" /\ cpc' = "clean" /\ target' = i /\ i \in 1..filed /\ from > i
  BY DEF StartCleanup, bounds, history
<1>2. UNCHANGED <<filed, cursor, fpc, wal, db, pending, logged, crashes, failures>>
  BY DEF StartCleanup, bounds, history
<1>3. i \in DOMAIN segs /\ i \in Nat /\ from \in Nat /\ DOMAIN segs = 1..Len(segs)
  BY <1>1, FiledAreSegments
<1> DEFINE newer(k) == \E j \in from..Len(segs) : segs[j].kv[k] # 0
           kept == [k \in Keys |-> IF newer(k) THEN 0 ELSE segs[i].kv[k]]
<1>4. tmp' = [left |-> segs[i].id, right |-> segs[i].id, level |-> segs[i].level,
              done |-> FALSE, kv |-> kept]
  BY DEF StartCleanup
<1>5. segs[i].kv \in Contents /\ \A k \in Keys : segs[i].kv[k] <= Len(written)
  BY <1>3, SegmentTypes
<1>6. \A k \in Keys :
        \/ kept[k] = segs[i].kv[k]
        \/ kept[k] = 0 /\ \E j \in DOMAIN segs : j > i /\ segs[j].kv[k] # 0
  <2> SUFFICES ASSUME NEW k \in Keys, newer(k)
               PROVE  \E j \in DOMAIN segs : j > i /\ segs[j].kv[k] # 0
    OBVIOUS
  <2> QED
    BY <1>1, <1>3
<1> HIDE DEF newer
<1>7. kept \in Contents /\ \A k \in Keys : kept[k] <= Len(written)
  <2>1. 0 \in Writes /\ 0 <= Len(written)
    BY BucketAssumption DEF Writes, TypeOK
  <2>2. \A k \in Keys : kept[k] \in Writes /\ kept[k] <= Len(written)
    BY <1>5, <2>1 DEF Contents
  <2> QED
    BY <2>2 DEF Contents
<1> HIDE DEF kept
<1>8. tmp' \in Tmps
  BY <1>3, <1>4, <1>7, SegmentTypes DEF Tmps
<1>9. TypeOK'
  BY <1>1, <1>2, <1>3, <1>8 DEF TypeOK
<1>10. Layers' /\ Merging'
  BY <1>1, <1>2 DEF Layers, Merging
<1>11. Cleaning'
  BY <1>1, <1>2, <1>4, <1>6 DEF Cleaning
<1>12. Known'
  BY <1>1, <1>2, <1>4, <1>7 DEF Known
<1> QED
  BY <1>1, <1>2, <1>9, <1>10, <1>11, <1>12, QuietKeepsReads

LEMMA WriteCleanedKeepsBInv ==
  ASSUME BInv, WriteCleaned
  PROVE  BInv'
<1> USE DEF BInv, Quiet
<1>1. Quiet /\ phase = "up" /\ cpc = "clean" /\ cpc' = "cleaned"
  BY DEF WriteCleaned, bounds, history
<1>2. UNCHANGED <<filed, cursor, fpc, target, wal, db, pending, logged, crashes, failures>>
  BY DEF WriteCleaned, bounds, history
<1>3. tmp' \in Tmps /\ tmp'.kv = tmp.kv
  BY DEF WriteCleaned, TypeOK, Tmps
<1>4. TypeOK'
  BY <1>1, <1>2, <1>3 DEF TypeOK
<1>5. Layers' /\ Known'
  BY <1>1, <1>2, <1>3 DEF Layers, Known
<1>6. Merging' /\ Cleaning'
  BY <1>1, <1>2, <1>3 DEF Merging, Cleaning
<1> QED
  BY <1>1, <1>2, <1>4, <1>5, <1>6, QuietKeepsReads

----------------------------------------------------------------------------
(* Writes, and the memtable's way into the group of segments *)

LEMMA ReadsKnown ==
  ASSUME BInv, NEW k \in Keys, NEW n, Reads(k, n)
  PROVE  n \in Writes /\ n <= Len(written)
<1> USE DEF BInv
<1>1. 0 \in Writes /\ 0 <= Len(written)
  BY BucketAssumption DEF Writes, TypeOK
<1>2. CASE n # 0 /\ n \in {mem[active][k], mem[flushing][k]}
  <2>1. active \in Memtables /\ flushing \in Memtables
    BY DEF TypeOK
  <2>2. mem[active] \in Contents /\ mem[flushing] \in Contents
    BY <2>1 DEF TypeOK
  <2> QED
    BY <1>2, <2>1, <2>2 DEF Contents, Known
<1>3. CASE Finds(segs, k, n)
  BY <1>1, <1>3, SegmentTypes DEF Finds, Contents
<1> QED
  BY <1>2, <1>3 DEF Reads

LEMMA WriteKeepsBInv ==
  ASSUME BInv, NEW k \in Keys, NEW dead \in BOOLEAN, Write(k, dead)
  PROVE  BInv'
<1> USE DEF BInv
<1> DEFINE n == Len(written) + 1
           r == [key |-> k, dead |-> dead]
<1>1. n \in Writes /\ n # 0 /\ n > Len(written) /\ Len(written) \in Nat /\ n \in Nat
  BY BucketAssumption DEF Write, Writes, TypeOK
<1>2. /\ UNCHANGED <<phase, active, flushing, segs, filed, cursor, fpc, cpc, target, wal, db,
                     tmp, clock, crashes, failures, logged, mishap>>
      /\ phase = "up"
  BY DEF Write, disk, bounds
<1>3. /\ written' = Append(written, r) /\ pending' = pending \cup {n}
      /\ mem' = [mem EXCEPT ![active][k] = n] /\ last' = [last EXCEPT ![k] = n]
  BY DEF Write
<1>4. active \in Memtables /\ active # 0 /\ flushing # active /\ flushing \in Memtables
  BY <1>2 DEF Layers, TypeOK
<1>5. /\ written' \in Seq([key : Keys, dead : BOOLEAN]) /\ Len(written') = n
      /\ DOMAIN written' = 1..n /\ DOMAIN written = 1..Len(written)
      /\ \A m \in 1..Len(written) : written'[m] = written[m]
  BY <1>3 DEF TypeOK
<1> HIDE DEF n, r
<1>6. /\ mem[active] \in Contents /\ mem' \in [Memtables -> Contents]
      /\ \A m \in Memtables, j \in Keys :
           mem'[m][j] = IF m = active /\ j = k THEN n ELSE mem[m][j]
  BY <1>1, <1>3, <1>4 DEF TypeOK, Contents
<1>7. TypeOK'
  <2>1. last' \in Contents
    BY <1>1, <1>3 DEF TypeOK, Contents
  <2>2. pending' \subseteq DOMAIN written'
    BY <1>1, <1>3, <1>5 DEF TypeOK
  <2>3. mem'[0] = Empty
    BY <1>3, <1>4 DEF TypeOK
  <2> QED
    BY <1>1, <1>2, <1>5, <1>6, <2>1, <2>2, <2>3 DEF TypeOK
<1>8. Layers'
  <2>1. \A m \in Memtables : m > clock => mem'[m] = mem[m]
    BY <1>2, <1>3 DEF Layers, TypeOK, Memtables
  <2> QED
    BY <1>2, <2>1 DEF Layers
<1>9. Forgotten'
  BY <1>2 DEF Forgotten
<1>10. Known'
  <2>1. \A x \in Writes : x <= Len(written) => x <= n
    BY <1>1 DEF Writes
  <2>2. \A m \in Memtables, j \in Keys : mem'[m][j] <= n /\ wal[m][j] <= n
    <3> SUFFICES ASSUME NEW m \in Memtables, NEW j \in Keys
                 PROVE  mem'[m][j] <= n /\ wal[m][j] <= n
      OBVIOUS
    <3>1. mem[m] \in Contents /\ wal[m] \in Contents
      BY DEF TypeOK
    <3>2. mem[m][j] <= n /\ wal[m][j] <= n
      BY <2>1, <3>1 DEF Known, Contents
    <3> QED
      BY <1>1, <1>6, <3>2
  <2>3. \A i \in DOMAIN segs, j \in Keys : segs[i].kv[j] <= n
    BY <2>1, SegmentTypes DEF Contents
  <2>4. \A f \in db, j \in Keys : f.kv[j] <= n
    BY <2>1 DEF Known, TypeOK, Contents, Segments
  <2>5. \A j \in Keys : tmp.kv[j] <= n /\ last'[j] <= n
    <3>1. tmp.kv \in Contents /\ last \in Contents
      BY DEF TypeOK, Tmps
    <3>2. \A j \in Keys : tmp.kv[j] <= n /\ last[j] <= n
      BY <2>1, <3>1 DEF Known, Contents
    <3> QED
      BY <1>1, <1>3, <3>1, <3>2 DEF Contents
  <2> QED
    BY <1>2, <1>5, <2>2, <2>3, <2>4, <2>5 DEF Known
<1>11. \A x \in Writes : x <= Len(written) =>
          /\ x \in DOMAIN written' <=> x \in DOMAIN written
          /\ x \in DOMAIN written => written'[x] = written[x]
  BY <1>1, <1>5 DEF Writes
<1>12. Merging'
  <2>1. ASSUME NEW i \in DOMAIN segs, NEW j \in Keys, Value(segs[i].kv[j]) = 0
        PROVE  (Value(segs[i].kv[j]) = 0)'
    <3>1. segs[i].kv[j] \in Writes /\ segs[i].kv[j] <= Len(written)
      BY SegmentTypes DEF Contents
    <3> QED
      BY <1>2, <1>11, <2>1, <3>1 DEF Value
  <2>2. ASSUME cpc \in {"compacted", "markedLeft", "markedBoth"}
        PROVE  target \in DOMAIN segs /\ target + 1 \in DOMAIN segs
    BY <2>2, FiledAreSegments DEF Merging
  <2>3. ASSUME cpc \in {"compacted", "markedLeft", "markedBoth"}, NEW j \in Keys
        PROVE  /\ Value(segs[target].kv[j]) = 0 => (Value(segs[target].kv[j]) = 0)'
               /\ Value(segs[target + 1].kv[j]) = 0 => (Value(segs[target + 1].kv[j]) = 0)'
    <3>1. PICK t \in DOMAIN segs : t = target
      BY <2>2, <2>3
    <3>2. PICK u \in DOMAIN segs : u = target + 1
      BY <2>2, <2>3
    <3> QED
      BY <1>2, <2>1, <3>1, <3>2 DEF Value
  <2> QED
    BY <1>2, <2>3 DEF Merging
<1>13. Cleaning'
  BY <1>2 DEF Cleaning
<1>14. ReadsTheLast'
  <2> SUFFICES ASSUME ~mishap, NEW j \in Keys
               PROVE  \E x \in Writes : Reads(j, x)' /\ (Value(x) = Value(last[j]))'
    BY <1>2 DEF ReadsTheLast
  <2>1. CASE j = k
    <3>1. mem'[active][k] = n /\ last'[k] = n
      BY <1>3, <1>4, <1>6 DEF TypeOK, Contents
    <3> QED
      BY <1>1, <1>2, <2>1, <3>1 DEF Reads, Value
  <2>2. CASE j # k
    <3>1. mem'[active][j] = mem[active][j] /\ mem'[flushing][j] = mem[flushing][j]
          /\ last'[j] = last[j]
      BY <1>3, <1>4, <1>6, <2>2 DEF TypeOK, Contents
    <3>2. PICK x \in Writes : Reads(j, x) /\ Value(x) = Value(last[j])
      BY <1>2 DEF ReadsTheLast
    <3>3. Reads(j, x)'
      BY <1>2, <3>1, <3>2 DEF Reads, Finds
    <3>4. x <= Len(written) /\ last[j] <= Len(written) /\ last[j] \in Writes
      BY <3>2, ReadsKnown DEF Known, TypeOK, Contents
    <3>5. (Value(x) = Value(last[j]))'
      BY <1>11, <3>1, <3>2, <3>4 DEF Value
    <3> QED
      BY <3>3, <3>5
  <2> QED
    BY <2>1, <2>2
<1> QED
  BY <1>2, <1>7, <1>8, <1>9, <1>10, <1>12, <1>13, <1>14

LEMMA SwitchMemtableKeepsBInv ==
  ASSUME BInv, SwitchMemtable
  PROVE  BInv'
<1> USE DEF BInv
<1>1. /\ UNCHANGED <<phase, mem, segs, filed, cursor, cpc, target, wal, db, tmp,
                     crashes, failures, written, pending, last, logged>>
      /\ phase = "up" /\ fpc' = "closeLog" /\ flushing' = active
      /\ active' = clock + 1 /\ clock' = clock + 1
      /\ mishap' = (mishap \/ flushing # 0)
  BY DEF SwitchMemtable, disk
<1>2. clock \in Nat /\ clock + 1 \in Memtables /\ clock < MaxMemtables
  BY BucketAssumption DEF SwitchMemtable, TypeOK, Memtables
<1>3. active \in Memtables /\ active <= clock /\ active # 0 /\ active \in Nat
  BY <1>1, <1>2 DEF Layers, TypeOK, Memtables
<1>4. TypeOK'
  BY <1>1, <1>2, <1>3 DEF TypeOK
<1>5. Layers'
  <2>1. active' \in 1..clock' /\ flushing' # active'
    BY <1>1, <1>2, <1>3
  <2>2. \A m \in Memtables : m > clock' => mem'[m] = Empty
    BY <1>1, <1>2 DEF Layers, Memtables
  <2> QED
    BY <1>1, <1>3, <2>1, <2>2 DEF Layers
<1>6. Forgotten' /\ Known' /\ Merging' /\ Cleaning'
  BY <1>1 DEF Forgotten, Known, Merging, Cleaning, Value
<1>7. ReadsTheLast'
  <2> SUFFICES ASSUME ~mishap, flushing = 0, NEW k \in Keys
               PROVE  \E n \in Writes : Reads(k, n)' /\ (Value(n) = Value(last[k]))'
    BY <1>1 DEF ReadsTheLast, TypeOK
  <2>1. PICK n \in Writes : Reads(k, n) /\ Value(n) = Value(last[k])
    BY <1>1 DEF ReadsTheLast
  <2>2. mem[0][k] = 0 /\ mem[clock + 1][k] = 0
    BY <1>2 DEF TypeOK, Layers, Empty, Memtables
  <2>3. Reads(k, n)'
    BY <1>1, <2>1, <2>2 DEF Reads, Finds
  <2>4. (Value(n) = Value(last[k]))'
    BY <1>1, <2>1 DEF Value
  <2> QED
    BY <2>3, <2>4
<1> QED
  BY <1>1, <1>4, <1>5, <1>6, <1>7

LEMMA AddSegmentKeepsBInv ==
  ASSUME BInv, AddSegment
  PROVE  BInv'
<1> USE DEF BInv
<1> DEFINE new == Segment(flushing, mem[flushing])
<1>1. /\ UNCHANGED <<phase, active, cursor, cpc, target, wal, db, tmp, clock,
                     crashes, failures, written, pending, last, logged, mishap>>
      /\ phase = "up" /\ fpc = "add" /\ fpc' = "idle" /\ flushing' = 0
      /\ mem' = [mem EXCEPT ![flushing] = Empty]
      /\ segs' = Append(segs, new)
      /\ filed' = IF cursor = "none" THEN Len(segs) + 1 ELSE filed
  BY DEF AddSegment, disk, bounds, history
<1>2. /\ flushing \in Memtables /\ flushing # 0 /\ active \in Memtables /\ active # 0
      /\ flushing # active
  BY <1>1 DEF Layers, TypeOK
<1>3. new \in Segments /\ new.kv = mem[flushing] /\ mem[flushing] \in Contents
  BY <1>2, SegmentOfMemtable DEF TypeOK, Segment
<1> HIDE DEF new
<1>4. /\ segs' \in Seq(Segments) /\ Len(segs') = Len(segs) + 1 /\ Len(segs) \in Nat
      /\ DOMAIN segs' = 1..Len(segs) + 1 /\ DOMAIN segs = 1..Len(segs)
      /\ \A i \in 1..Len(segs) : segs'[i] = segs[i]
      /\ segs'[Len(segs) + 1] = new
  BY <1>1, <1>3 DEF TypeOK
<1>5. filed \in Nat /\ filed' \in 0..Len(segs') /\ filed' >= filed /\ filed <= Len(segs)
  BY <1>1, <1>4, FiledAreSegments DEF TypeOK
<1>6. Empty \in Contents
  BY BucketAssumption DEF Empty, Contents, Writes
<1>7. mem' \in [Memtables -> Contents] /\ mem'[0] = Empty
      /\ \A m \in Memtables : mem'[m] = IF m = flushing THEN Empty ELSE mem[m]
  BY <1>1, <1>2, <1>6 DEF TypeOK
<1>8. TypeOK'
  <2>1. flushing' \in Memtables
    BY <1>1, BucketAssumption DEF Memtables
  <2> QED
    BY <1>1, <1>4, <1>5, <1>7, <2>1 DEF TypeOK
<1>9. Layers' /\ Forgotten'
  BY <1>1, <1>2, <1>7 DEF Layers, Forgotten
<1>10. Known'
  <2>1. \A k \in Keys : Empty[k] <= Len(written)
    BY DEF Empty, TypeOK, Writes
  <2>2. \A m \in Memtables, k \in Keys : mem'[m][k] <= Len(written)
    BY <1>7, <2>1 DEF Known
  <2>3. \A k \in Keys : new.kv[k] <= Len(written)
    BY <1>2, <1>3 DEF Known
  <2>4. \A i \in DOMAIN segs' : i \in DOMAIN segs \/ i = Len(segs) + 1
    BY <1>4
  <2>5. \A i \in DOMAIN segs', k \in Keys : segs'[i].kv[k] <= Len(written)
    BY <1>4, <2>3, <2>4, SegmentTypes
  <2> QED
    BY <1>1, <2>2, <2>5 DEF Known
<1>11. target \in 1..filed => target' \in 1..filed' /\ segs'[target] = segs[target]
  BY <1>1, <1>4, <1>5 DEF TypeOK
<1>12. target \in 1..filed /\ target < filed
         => target' < filed' /\ segs'[target + 1] = segs[target + 1]
  BY <1>1, <1>4, <1>5 DEF TypeOK
<1>13. Merging'
  <2>1. UNCHANGED <<cpc, target, tmp, written>>
    BY <1>1
  <2>2. Merging
    OBVIOUS
  <2> HIDE DEF BInv
  <2> QED
    BY <1>11, <1>12, <2>1, <2>2 DEF Merging, Value
<1>14. Cleaning'
  <2>1. \A j \in DOMAIN segs : j \in DOMAIN segs' /\ segs'[j] = segs[j]
    BY <1>4
  <2> QED
    BY <1>1, <1>11, <2>1 DEF Cleaning
<1>15. ReadsTheLast'
  <2> SUFFICES ASSUME ~mishap, NEW k \in Keys
               PROVE  \E n \in Writes : Reads(k, n)' /\ (Value(n) = Value(last[k]))'
    BY <1>1 DEF ReadsTheLast
  <2>1. PICK n \in Writes : Reads(k, n) /\ Value(n) = Value(last[k])
    BY <1>1 DEF ReadsTheLast
  <2> SUFFICES Reads(k, n)'
    BY <1>1, <2>1 DEF Value
  <2>2. mem'[active] = mem[active] /\ mem'[0][k] = 0
    BY <1>2, <1>7 DEF Empty
  <2>3. CASE n # 0 /\ mem[active][k] = n
    BY <1>1, <2>2, <2>3 DEF Reads
  <2>4. CASE n # 0 /\ mem[active][k] = 0 /\ mem[flushing][k] = n
    <3>1. Finds(segs, k, n)'
      BY <1>3, <1>4, <2>4 DEF Finds
    <3> QED
      BY <1>1, <2>2, <2>4, <3>1 DEF Reads
  <2>5. CASE mem[active][k] = 0 /\ mem[flushing][k] = 0 /\ Finds(segs, k, n)
    <3>1. \A i \in DOMAIN segs' :
            \/ i \in DOMAIN segs /\ segs'[i] = segs[i]
            \/ i = Len(segs) + 1 /\ segs'[i].kv[k] = 0
      BY <1>3, <1>4, <2>5
    <3>2. \A i \in DOMAIN segs : i \in DOMAIN segs'
      BY <1>4
    <3>3. Finds(segs, k, n)'
      BY <2>5, <3>1, <3>2 DEF Finds
    <3> QED
      BY <1>1, <2>2, <2>5, <3>3 DEF Reads
  <2> QED
    BY <2>1, <2>3, <2>4, <2>5 DEF Reads
<1> QED
  BY <1>1, <1>8, <1>9, <1>10, <1>13, <1>14, <1>15

----------------------------------------------------------------------------
(* The compaction cycle replaces segments *)

\* r is the sequence s with e in the place of its elements t and t + 1.
Replaced(s, t, e) ==
  [i \in 1..Len(s) - 1 |-> IF i < t THEN s[i] ELSE IF i = t THEN e ELSE s[i + 1]]

\* Where the elements of r come from, and where those of s go.
Replaces(r, s, t, e) ==
  /\ DOMAIN r \subseteq Nat \ {0} /\ t \in DOMAIN r /\ r[t] = e
  /\ \A i \in DOMAIN r :
       \/ i < t /\ i \in DOMAIN s /\ r[i] = s[i]
       \/ i = t
       \/ i > t /\ i + 1 \in DOMAIN s /\ i + 1 > t + 1 /\ r[i] = s[i + 1]
  /\ \A i \in DOMAIN s :
       \/ i < t /\ i \in DOMAIN r /\ r[i] = s[i]
       \/ i = t
       \/ i = t + 1
       \/ i > t + 1 /\ i - 1 \in DOMAIN r /\ i - 1 > t /\ r[i - 1] = s[i]

\* The replacement of two neighbours, in terms of Replaces.
LEMMA NeighboursReplaced ==
  ASSUME NEW s \in Seq(Segments), NEW t \in 1..Len(s), t < Len(s), NEW e \in Segments
  PROVE  /\ Replaced(s, t, e) \in Seq(Segments) /\ Len(Replaced(s, t, e)) = Len(s) - 1
         /\ Replaces(Replaced(s, t, e), s, t, e)
<1> DEFINE r == Replaced(s, t, e)
<1> SUFFICES r \in Seq(Segments) /\ Len(r) = Len(s) - 1 /\ Replaces(r, s, t, e)
  OBVIOUS
<1>1. Len(s) \in Nat /\ DOMAIN s = 1..Len(s) /\ \A i \in 1..Len(s) : s[i] \in Segments
  OBVIOUS
<1>2. Len(s) - 1 \in Nat
  BY <1>1
<1>3. DOMAIN r = 1..Len(s) - 1 /\ \A i \in DOMAIN r :
        r[i] = IF i < t THEN s[i] ELSE IF i = t THEN e ELSE s[i + 1]
  BY DEF Replaced
<1>4. r = [i \in 1..Len(s) - 1 |-> r[i]]
  BY DEF Replaced
<1> HIDE DEF r
<1>5. \A i \in 1..Len(s) - 1 : r[i] \in Segments
  BY <1>1, <1>3
<1>6. r \in [1..Len(s) - 1 -> Segments]
  BY <1>4, <1>5
<1>7. r \in Seq(Segments) /\ Len(r) = Len(s) - 1
  BY <1>2, <1>6
<1>8. DOMAIN r \subseteq Nat \ {0} /\ t \in DOMAIN r /\ r[t] = e
  BY <1>1, <1>3
<1>9. \A i \in DOMAIN r :
        \/ i < t /\ i \in DOMAIN s /\ r[i] = s[i]
        \/ i = t
        \/ i > t /\ i + 1 \in DOMAIN s /\ i + 1 > t + 1 /\ r[i] = s[i + 1]
  BY <1>1, <1>3
<1>10. \A i \in DOMAIN s :
        \/ i < t /\ i \in DOMAIN r /\ r[i] = s[i]
        \/ i = t
        \/ i = t + 1
        \/ i > t + 1 /\ i - 1 \in DOMAIN r /\ i - 1 > t /\ r[i - 1] = s[i]
  <2> SUFFICES ASSUME NEW i \in DOMAIN s, i > t + 1
               PROVE  i - 1 \in DOMAIN r /\ i - 1 > t /\ r[i - 1] = s[i]
    BY <1>1, <1>3
  <2>1. i \in Nat /\ i - 1 \in 1..Len(s) - 1 /\ i - 1 > t /\ (i - 1) + 1 = i
    BY <1>1
  <2> QED
    BY <1>3, <2>1
<1> QED
  BY <1>7, <1>8, <1>9, <1>10 DEF Replaces

\* A get finds the same in the compacted segment, or nothing where a tombstone
\* of the oldest segment was dropped.
LEMMA MergedIsFound ==
  ASSUME NEW s \in Seq(Segments), NEW t \in 1..Len(s), t < Len(s), NEW new \in Segments,
         NEW r, Replaces(r, s, t, new),
         NEW k \in Keys, NEW x, x = s[t].kv[k], NEW y, y = s[t + 1].kv[k],
         NEW n, Finds(s, k, n),
         \/ new.kv[k] = IF y # 0 THEN y ELSE x
         \/ t = 1 /\ new.kv[k] = 0
  PROVE  \/ Finds(r, k, n)
         \/ new.kv[k] = 0 /\ Finds(r, k, 0) /\ n = IF y # 0 THEN y ELSE x
<1> DEFINE m == IF y # 0 THEN y ELSE x
<1> SUFFICES \/ Finds(r, k, n)
             \/ new.kv[k] = 0 /\ Finds(r, k, 0) /\ n = m
  OBVIOUS
<1>1. DOMAIN s = 1..Len(s) /\ Len(s) \in Nat /\ t \in Nat
      /\ t + 1 \in DOMAIN s /\ t \in DOMAIN s /\ t < t + 1
  OBVIOUS
<1>2. /\ DOMAIN r \subseteq Nat \ {0} /\ t \in DOMAIN r /\ r[t] = new
      /\ \A i \in DOMAIN r :
           \/ i < t /\ i \in DOMAIN s /\ r[i] = s[i]
           \/ i = t
           \/ i > t /\ i + 1 \in DOMAIN s /\ i + 1 > t + 1 /\ r[i] = s[i + 1]
      /\ \A i \in DOMAIN s :
           \/ i < t /\ i \in DOMAIN r /\ r[i] = s[i]
           \/ i = t
           \/ i = t + 1
           \/ i > t + 1 /\ i - 1 \in DOMAIN r /\ i - 1 > t /\ r[i - 1] = s[i]
  BY DEF Replaces
<1> HIDE DEF m
<1> DEFINE Above(i) == \A j \in DOMAIN s : j > i => s[j].kv[k] = 0
\* What follows the new segment is what followed the two.
<1>3. Above(t + 1) => \A j \in DOMAIN r : j > t => r[j].kv[k] = 0
  BY <1>1, <1>2
<1>4. CASE n = 0
  <2>1. \A j \in DOMAIN s : s[j].kv[k] = 0
    BY <1>4 DEF Finds
  <2>2. m = 0 /\ new.kv[k] = 0
    BY <1>1, <2>1 DEF m
  <2>3. \A j \in DOMAIN r : r[j].kv[k] = 0
    BY <1>2, <2>1, <2>2
  <2> QED
    BY <1>4, <2>3 DEF Finds
<1>5. CASE n # 0
  <2>1. PICK i \in DOMAIN s : s[i].kv[k] = n /\ Above(i)
    BY <1>5 DEF Finds
  <2>2. i \in Nat
    BY <1>1
  <2>3. CASE i > t + 1
    <3>1. i - 1 \in DOMAIN r /\ i - 1 > t /\ r[i - 1] = s[i]
      BY <1>1, <1>2, <2>2, <2>3
    <3>2. ASSUME NEW j \in DOMAIN r, j > i - 1
          PROVE  r[j].kv[k] = 0
      <4>1. j \in Nat /\ j > t /\ j + 1 > i
        BY <1>1, <1>2, <2>2, <3>1, <3>2
      <4>2. j + 1 \in DOMAIN s /\ r[j] = s[j + 1]
        BY <1>1, <1>2, <4>1
      <4> QED
        BY <2>1, <4>1, <4>2
    <3> QED
      BY <1>5, <2>1, <3>1, <3>2 DEF Finds
  <2>4. CASE i \in {t, t + 1}
    <3>1. Above(t + 1)
      BY <1>1, <2>1, <2>2, <2>4
    <3>2. n = m
      BY <1>1, <1>5, <2>1, <2>4 DEF m
    <3>3. CASE new.kv[k] = m
      BY <1>2, <1>3, <1>5, <3>1, <3>2, <3>3 DEF Finds
    <3>4. CASE t = 1 /\ new.kv[k] = 0
      <4>1. \A j \in DOMAIN r : j = t \/ j > t
        BY <1>2, <3>4
      <4>2. \A j \in DOMAIN r : r[j].kv[k] = 0
        BY <1>2, <1>3, <3>1, <3>4, <4>1
      <4> QED
        BY <3>2, <3>4, <4>2 DEF Finds
    <3> QED
      BY <3>3, <3>4 DEF m
  <2>5. CASE i < t
    <3>1. i \in DOMAIN r /\ r[i] = s[i] /\ t # 1
      BY <1>1, <1>2, <2>2, <2>5
    <3>2. x = 0 /\ y = 0 /\ Above(t + 1)
      BY <1>1, <2>1, <2>2, <2>5
    <3>3. new.kv[k] = 0
      BY <3>1, <3>2
    <3>4. ASSUME NEW j \in DOMAIN r, j > i
          PROVE  r[j].kv[k] = 0
      BY <1>2, <1>3, <2>1, <3>2, <3>3, <3>4
    <3> QED
      BY <1>5, <2>1, <3>1, <3>4 DEF Finds
  <2> QED
    BY <1>1, <2>2, <2>3, <2>4, <2>5
<1> QED
  BY <1>4, <1>5

LEMMA InstallCompactedKeepsBInv ==
  ASSUME BInv, InstallCompacted
  PROVE  BInv'
<1> USE DEF BInv
<1> DEFINE new == [id |-> tmp.right, tag |-> Plain, level |-> tmp.level, kv |-> tmp.kv]
<1>1. /\ UNCHANGED <<phase, active, flushing, mem, cursor, fpc, wal, clock, crashes, failures,
                     written, pending, last, logged, mishap>>
      /\ phase = "up" /\ cpc = "markedBoth" /\ cpc' = "idle" /\ target' = 0
      /\ db' = db \cup {new} /\ tmp' = NoTmp /\ filed' = filed - 1
      /\ segs' = Replaced(segs, target, new)
  BY DEF InstallCompacted, Replaced, bounds, history
<1>2. new \in Segments /\ new.kv = tmp.kv /\ tmp.kv \in Contents
  BY DEF TypeOK, Tmps, Segments, Plain
<1> HIDE DEF new
<1>3. target \in 1..Len(segs) /\ target < Len(segs) /\ target \in DOMAIN segs
      /\ target + 1 \in DOMAIN segs /\ segs \in Seq(Segments) /\ filed \in 2..Len(segs)
      /\ Len(segs) \in Nat
  BY <1>1, FiledAreSegments DEF Merging, TypeOK
<1>4. /\ segs' \in Seq(Segments) /\ Len(segs') = Len(segs) - 1
      /\ Replaces(segs', segs, target, new)
      /\ \A i \in DOMAIN segs' :
           \/ i \in DOMAIN segs /\ segs'[i] = segs[i]
           \/ segs'[i] = new
           \/ i + 1 \in DOMAIN segs /\ segs'[i] = segs[i + 1]
  <2> HIDE DEF BInv
  <2>1. /\ segs' \in Seq(Segments) /\ Len(segs') = Len(segs) - 1
        /\ Replaces(segs', segs, target, new)
    BY <1>1, <1>2, <1>3, NeighboursReplaced
  <2> QED
    BY <2>1 DEF Replaces
<1>5. IsFiniteSet(db') /\ NoTmp \in Tmps /\ db' \subseteq Segments
  <2>1. NoTmp \in Tmps
    BY BucketAssumption DEF NoTmp, Tmps, Empty, Contents, Writes, Memtables
  <2>2. IsFiniteSet(db \cup {new})
    BY FS_AddElement
  <2> QED
    BY <1>1, <1>2, <2>1, <2>2 DEF TypeOK
<1>6. TypeOK'
  <2>1. filed' \in 0..Len(segs')
    BY <1>1, <1>3, <1>4
  <2> QED
    BY <1>1, <1>4, <1>5, <2>1 DEF TypeOK
<1>7. Layers' /\ Forgotten' /\ Merging' /\ Cleaning'
  BY <1>1 DEF Layers, Forgotten, Merging, Cleaning
<1>8. Known'
  <2>1. \A k \in Keys : new.kv[k] <= Len(written)
    BY <1>2 DEF Known
  <2>2. \A i \in DOMAIN segs', k \in Keys : segs'[i].kv[k] <= Len(written)
    BY <1>4, <2>1, SegmentTypes
  <2>3. \A k \in Keys : NoTmp.kv[k] <= Len(written)
    BY DEF NoTmp, Empty, TypeOK, Writes
  <2> QED
    BY <1>1, <2>1, <2>2, <2>3 DEF Known
<1>9. ReadsTheLast'
  <2> SUFFICES ASSUME ~mishap, NEW k \in Keys
               PROVE  \E n \in Writes : Reads(k, n)' /\ (Value(n) = Value(last[k]))'
    BY <1>1 DEF ReadsTheLast
  <2>1. PICK n \in Writes : Reads(k, n) /\ Value(n) = Value(last[k])
    BY <1>1 DEF ReadsTheLast
  <2>2. \A v : (Value(v) = Value(last[k]))' <=> Value(v) = Value(last[k])
    BY <1>1 DEF Value
  <2>3. CASE n # 0 /\ (mem[active][k] = n \/ (mem[active][k] = 0 /\ mem[flushing][k] = n))
    BY <1>1, <2>1, <2>2, <2>3 DEF Reads
  <2>4. CASE mem[active][k] = 0 /\ mem[flushing][k] = 0 /\ Finds(segs, k, n)
    <3> DEFINE x == segs[target].kv[k]
               y == segs[target + 1].kv[k]
               m == IF y # 0 THEN y ELSE x
    <3>1. \/ new.kv[k] = m
          \/ target = 1 /\ new.kv[k] = 0 /\ Value(m) = 0
      BY <1>1, <1>2 DEF Merging
    <3>2. \/ Finds(segs', k, n)
          \/ new.kv[k] = 0 /\ Finds(segs', k, 0) /\ n = m
      <4> HIDE DEF BInv
      <4> SUFFICES ASSUME NEW s \in Seq(Segments), s = segs,
                          NEW t \in 1..Len(s), t = target, t < Len(s),
                          NEW e \in Segments, e = new,
                          NEW r, Replaces(r, s, t, e),
                          Finds(s, k, n),
                          NEW a, a = s[t].kv[k], NEW b, b = s[t + 1].kv[k]
                   PROVE  \/ Finds(r, k, n)
                          \/ e.kv[k] = 0 /\ Finds(r, k, 0) /\ n = IF b # 0 THEN b ELSE a
        BY <1>1, <1>2, <1>3, <1>4, <2>4
      <4>1. \/ e.kv[k] = IF b # 0 THEN b ELSE a
            \/ t = 1 /\ e.kv[k] = 0
        BY <3>1
      <4> QED
        BY <4>1, MergedIsFound
    <3>3. CASE Finds(segs', k, n)
      <4>1. Reads(k, n)'
        BY <1>1, <2>4, <3>3 DEF Reads, Finds
      <4> QED
        BY <2>1, <2>2, <4>1
    <3>4. CASE new.kv[k] = 0 /\ Finds(segs', k, 0) /\ n = m
      <4>1. Value(0) = Value(n)
        BY <3>1, <3>4 DEF Value
      <4>2. Reads(k, 0)'
        BY <1>1, <2>4, <3>4 DEF Reads, Finds
      <4>3. 0 \in Writes
        BY BucketAssumption DEF Writes
      <4> QED
        BY <2>1, <2>2, <4>1, <4>2, <4>3
    <3> QED
      BY <3>2, <3>3, <3>4
  <2>5. \/ n # 0 /\ (mem[active][k] = n \/ (mem[active][k] = 0 /\ mem[flushing][k] = n))
        \/ mem[active][k] = 0 /\ mem[flushing][k] = 0 /\ Finds(segs, k, n)
    BY <2>1 DEF Reads
  <2> QED
    BY <2>3, <2>4, <2>5
<1> QED
  BY <1>5, <1>6, <1>7, <1>8, <1>9

\* The cleaned segment lacks only keys that newer segments hold.
LEMMA InstallCleanedKeepsBInv ==
  ASSUME BInv, InstallCleaned
  PROVE  BInv'
<1> USE DEF BInv
<1> DEFINE new == [id |-> tmp.right, tag |-> tmp.level + 1, level |-> tmp.level, kv |-> tmp.kv]
<1>1. /\ UNCHANGED <<phase, active, flushing, mem, filed, cursor, fpc, wal, clock, crashes,
                     failures, written, pending, last, logged, mishap>>
      /\ phase = "up" /\ cpc = "marked" /\ cpc' = "idle" /\ target' = 0
      /\ db' = db \cup {new} /\ tmp' = NoTmp /\ segs' = [segs EXCEPT ![target] = new]
  BY DEF InstallCleaned, bounds, history
<1>2. new \in Segments /\ new.kv = tmp.kv /\ tmp.kv \in Contents
  BY DEF TypeOK, Tmps, Segments
<1> HIDE DEF new
<1>3. target \in DOMAIN segs /\ segs \in Seq(Segments)
  BY <1>1, FiledAreSegments DEF Cleaning, TypeOK
<1>4. /\ segs' \in Seq(Segments) /\ Len(segs') = Len(segs) /\ DOMAIN segs' = DOMAIN segs
      /\ \A i \in DOMAIN segs : segs'[i] = IF i = target THEN new ELSE segs[i]
  BY <1>1, <1>2, <1>3
<1>5. IsFiniteSet(db') /\ NoTmp \in Tmps /\ db' \subseteq Segments
  <2>1. NoTmp \in Tmps
    BY BucketAssumption DEF NoTmp, Tmps, Empty, Contents, Writes, Memtables
  <2>2. IsFiniteSet(db \cup {new})
    BY FS_AddElement
  <2> QED
    BY <1>1, <1>2, <2>1, <2>2 DEF TypeOK
<1>6. TypeOK'
  BY <1>1, <1>4, <1>5 DEF TypeOK
<1>7. Layers' /\ Forgotten' /\ Merging' /\ Cleaning'
  BY <1>1 DEF Layers, Forgotten, Merging, Cleaning
<1>8. Known'
  <2>1. \A k \in Keys : new.kv[k] <= Len(written)
    BY <1>2 DEF Known
  <2>2. \A i \in DOMAIN segs', k \in Keys : segs'[i].kv[k] <= Len(written)
    BY <1>4, <2>1, SegmentTypes
  <2>3. \A k \in Keys : NoTmp.kv[k] <= Len(written)
    BY DEF NoTmp, Empty, TypeOK, Writes
  <2> QED
    BY <1>1, <2>1, <2>2, <2>3 DEF Known
<1>9. ASSUME NEW k \in Keys, NEW n, Finds(segs, k, n)
      PROVE  Finds(segs', k, n)
  <2>1. \/ new.kv[k] = segs[target].kv[k]
        \/ new.kv[k] = 0 /\ \E j \in DOMAIN segs : j > target /\ segs[j].kv[k] # 0
    BY <1>1, <1>2 DEF Cleaning
  <2>2. CASE new.kv[k] = segs[target].kv[k]
    <3>1. \A i \in DOMAIN segs : segs'[i].kv[k] = segs[i].kv[k]
      BY <1>4, <2>2
    <3> QED
      BY <1>4, <1>9, <3>1 DEF Finds
  <2>3. CASE new.kv[k] = 0 /\ \E j \in DOMAIN segs : j > target /\ segs[j].kv[k] # 0
    <3>1. PICK j \in DOMAIN segs : j > target /\ segs[j].kv[k] # 0
      BY <2>3
    <3>2. n # 0
      BY <1>9, <3>1 DEF Finds
    <3>3. PICK i \in DOMAIN segs :
            segs[i].kv[k] = n /\ \A l \in DOMAIN segs : l > i => segs[l].kv[k] = 0
      BY <1>9, <3>2 DEF Finds
    <3>4. i # target
      BY <3>1, <3>3
    <3>5. segs'[i].kv[k] = n /\ \A l \in DOMAIN segs : l > i => segs'[l].kv[k] = 0
      BY <1>4, <2>3, <3>3, <3>4
    <3> QED
      BY <1>4, <3>2, <3>5 DEF Finds
  <2> QED
    BY <2>1, <2>2, <2>3
<1>10. ReadsTheLast'
  <2> SUFFICES ASSUME ~mishap, NEW k \in Keys
               PROVE  \E n \in Writes : Reads(k, n)' /\ (Value(n) = Value(last[k]))'
    BY <1>1 DEF ReadsTheLast
  <2>1. PICK n \in Writes : Reads(k, n) /\ Value(n) = Value(last[k])
    BY <1>1 DEF ReadsTheLast
  <2>2. (Value(n) = Value(last[k]))'
    BY <1>1, <2>1 DEF Value
  <2>3. Finds(segs, k, n) => Finds(segs', k, n)
    BY <1>9
  <2>4. Reads(k, n)'
    <3>1. Finds(segs, k, n) => Finds(segs, k, n)'
      BY <2>3 DEF Finds
    <3> QED
      BY <1>1, <2>1, <3>1 DEF Reads
  <2> QED
    BY <2>2, <2>4
<1> QED
  BY <1>5, <1>6, <1>7, <1>8, <1>10

----------------------------------------------------------------------------
(* Crashes, shutdowns and recovery *)

\* Of a process that stopped only the files are left.
LEMMA StopKeepsBInv ==
  ASSUME BInv, ForgetMemory, phase' = "down", mishap' \in BOOLEAN,
         UNCHANGED <<tmp, clock, failures, written, last>>,
         wal' \in [Memtables -> Contents], wal'[0] = Empty, logged' \in Contents,
         db' \subseteq Segments, IsFiniteSet(db'), crashes' \in 0..MaxCrashes,
         \A m \in Memtables, k \in Keys : wal'[m][k] <= Len(written),
         \A f \in db', k \in Keys : f.kv[k] <= Len(written)
  PROVE  BInv'
<1> USE DEF BInv, ForgetMemory
<1>1. 0 \in Memtables /\ Empty \in Contents
  BY BucketAssumption DEF Memtables, Empty, Contents, Writes
<1>2. mem' \in [Memtables -> Contents] /\ \A m \in Memtables : mem'[m] = Empty
  BY <1>1
<1>3. segs' \in Seq(Segments) /\ filed' \in 0..Len(segs')
  OBVIOUS
<1>4. TypeOK'
  BY <1>1, <1>2, <1>3 DEF TypeOK
<1>5. Layers' /\ Forgotten' /\ Merging' /\ Cleaning' /\ ReadsTheLast'
  BY <1>2 DEF Layers, Forgotten, Merging, Cleaning, ReadsTheLast
<1>6. Known'
  <2>1. \A k \in Keys : Empty[k] <= Len(written)
    BY DEF Empty, TypeOK, Writes
  <2> QED
    BY <1>2, <2>1 DEF Known
<1> QED
  BY <1>4, <1>5, <1>6

LEMMA CrashKeepsBInv ==
  ASSUME BInv, Crash
  PROVE  BInv'
<1>1. /\ ForgetMemory /\ phase' = "down" /\ mishap' \in BOOLEAN
      /\ UNCHANGED <<tmp, clock, failures, written, last, wal, db, logged>>
  BY DEF Crash, disk
<1>2. crashes' \in 0..MaxCrashes
  BY BucketAssumption DEF Crash, BInv, TypeOK
<1>3. /\ wal' \in [Memtables -> Contents] /\ wal'[0] = Empty /\ logged' \in Contents
      /\ db' \subseteq Segments /\ IsFiniteSet(db')
  BY <1>1 DEF BInv, TypeOK, Layers
<1>4. /\ \A m \in Memtables, k \in Keys : wal'[m][k] <= Len(written)
      /\ \A f \in db', k \in Keys : f.kv[k] <= Len(written)
  BY <1>1 DEF BInv, Known
<1> QED
  BY <1>1, <1>2, <1>3, <1>4, StopKeepsBInv

LEMMA ShutdownKeepsBInv ==
  ASSUME BInv, NEW reuse \in BOOLEAN, Shutdown(reuse)
  PROVE  BInv'
<1>1. /\ ForgetMemory /\ phase' = "down" /\ mishap' \in BOOLEAN
      /\ UNCHANGED <<tmp, clock, failures, written, last>>
  BY DEF Shutdown, BInv, TypeOK
<1>2. crashes' \in 0..MaxCrashes
  BY BucketAssumption DEF Shutdown, BInv, TypeOK
<1>3. active \in Memtables /\ active # 0 /\ mem[active] \in Contents
      /\ \A k \in Keys : mem[active][k] <= Len(written)
  BY DEF Shutdown, BInv, TypeOK, Layers, Known
<1>4. Empty \in Contents /\ \A k \in Keys : Empty[k] <= Len(written)
  BY BucketAssumption DEF BInv, TypeOK, Empty, Contents, Writes
<1>5. PICK c \in {Empty, mem[active]} : wal' = [wal EXCEPT ![active] = c]
  BY DEF Shutdown, Log
<1>6. c \in Contents /\ \A k \in Keys : c[k] <= Len(written)
  BY <1>3, <1>4, <1>5
<1>7. wal' \in [Memtables -> Contents] /\ wal'[0] = Empty
      /\ \A m \in Memtables, k \in Keys : wal'[m][k] <= Len(written)
  BY <1>3, <1>5, <1>6 DEF BInv, TypeOK, Layers, Known
<1>8. logged' \in Contents
  BY <1>3, NewestInContents DEF Shutdown, Log, BInv, TypeOK
<1>9. db' = db \/ db' = db \cup {Segment(active, mem[active])}
  BY DEF Shutdown
<1>10. db' \subseteq Segments /\ IsFiniteSet(db')
       /\ \A f \in db', k \in Keys : f.kv[k] <= Len(written)
  <2>1. /\ Segment(active, mem[active]) \in Segments
        /\ IsFiniteSet(db \cup {Segment(active, mem[active])})
        /\ IsFiniteSet(db) /\ db \subseteq Segments
    BY <1>3, SegmentOfMemtable DEF BInv, TypeOK
  <2>2. Segment(active, mem[active]).kv = mem[active]
    BY DEF Segment
  <2>3. \A f \in db, k \in Keys : f.kv[k] <= Len(written)
    BY DEF BInv, Known
  <2> QED
    BY <1>3, <1>9, <2>1, <2>2, <2>3
<1> QED
  BY <1>1, <1>2, <1>7, <1>8, <1>10, StopKeepsBInv

\* Steps of a recovery change only the files.
LEMMA RecoveringKeepsBInv ==
  ASSUME BInv, phase # "up", phase' \in {"recovering", "refused"}, mishap' \in BOOLEAN,
         UNCHANGED <<memory, bounds, written, pending, last, logged>>,
         wal' \in [Memtables -> Contents], wal'[0] = Empty,
         db' \subseteq Segments, IsFiniteSet(db'), tmp' \in {tmp, NoTmp},
         \A m \in Memtables, k \in Keys : wal'[m][k] <= Len(written),
         \A f \in db', k \in Keys : f.kv[k] <= Len(written)
  PROVE  BInv'
<1> USE DEF BInv, memory, bounds
<1>1. Empty \in Contents /\ \A k \in Keys : Empty[k] <= Len(written)
  BY BucketAssumption DEF TypeOK, Empty, Contents, Writes
<1>2. NoTmp \in Tmps /\ NoTmp.kv = Empty
  BY <1>1, BucketAssumption DEF NoTmp, Tmps, Memtables
<1>3. TypeOK'
  BY <1>2 DEF TypeOK
<1>4. Layers' /\ Forgotten' /\ ReadsTheLast'
  BY DEF Layers, Forgotten, ReadsTheLast
<1>5. Merging' /\ Cleaning'
  BY DEF Forgotten, Merging, Cleaning
<1>6. Known'
  BY <1>1, <1>2 DEF Known
<1> QED
  BY <1>3, <1>4, <1>5, <1>6

LEMMA LoadSegmentsKeepsBInv ==
  ASSUME BInv, LoadSegments
  PROVE  BInv'
<1> DEFINE new == [id |-> tmp.right, tag |-> Plain, level |-> tmp.level, kv |-> tmp.kv]
<1>1. new \in Segments /\ \A k \in Keys : new.kv[k] <= Len(written)
  BY DEF BInv, TypeOK, Tmps, Segments, Plain, Known
<1> HIDE DEF new
<1>2. phase # "up" /\ phase' \in {"recovering", "refused"} /\ mishap' \in BOOLEAN
  BY DEF LoadSegments, BInv, TypeOK
<1>3. UNCHANGED <<memory, wal, bounds, written, pending, last, logged>> /\ tmp' \in {tmp, NoTmp}
  BY DEF LoadSegments
<1>4. db' \subseteq db \cup {new}
  BY DEF LoadSegments, new
<1>5. IsFiniteSet(db \cup {new})
  BY FS_AddElement DEF BInv
<1>6. IsFiniteSet(db')
  BY <1>4, <1>5, FS_Subset
<1>7. db' \subseteq Segments /\ \A f \in db', k \in Keys : f.kv[k] <= Len(written)
  BY <1>1, <1>4 DEF BInv, TypeOK, Known
<1>8. /\ wal' \in [Memtables -> Contents] /\ wal'[0] = Empty
      /\ \A m \in Memtables, k \in Keys : wal'[m][k] <= Len(written)
  BY <1>3 DEF BInv, TypeOK, Layers, Known
<1> QED
  BY <1>2, <1>3, <1>6, <1>7, <1>8, RecoveringKeepsBInv

LEMMA FlushRecoveredLogKeepsBInv ==
  ASSUME BInv, NEW m \in Memtables, FlushRecoveredLog(m)
  PROVE  BInv'
<1>1. phase # "up" /\ phase' \in {"recovering", "refused"} /\ mishap' \in BOOLEAN
  BY DEF FlushRecoveredLog, BInv, TypeOK, history
<1>2. UNCHANGED <<memory, bounds, written, pending, last, logged, tmp>>
  BY DEF FlushRecoveredLog, history
<1>3. wal[m] \in Contents /\ \A k \in Keys : wal[m][k] <= Len(written)
  BY DEF BInv, TypeOK, Known
<1>4. Empty \in Contents /\ \A k \in Keys : Empty[k] <= Len(written)
  BY BucketAssumption DEF BInv, TypeOK, Empty, Contents, Writes
<1>5. /\ wal' \in [Memtables -> Contents] /\ wal'[0] = Empty
      /\ \A l \in Memtables, k \in Keys : wal'[l][k] <= Len(written)
  BY <1>4 DEF FlushRecoveredLog, BInv, TypeOK, Layers, Known
<1>6. /\ db' \subseteq Segments /\ IsFiniteSet(db')
      /\ \A f \in db', k \in Keys : f.kv[k] <= Len(written)
  <2>1. /\ Segment(m, wal[m]) \in Segments /\ IsFiniteSet(db \cup {Segment(m, wal[m])})
        /\ db \subseteq Segments
    BY <1>3, SegmentOfMemtable DEF BInv, TypeOK
  <2>2. Segment(m, wal[m]).kv = wal[m] /\ db' = db \cup {Segment(m, wal[m])}
    BY DEF Segment, FlushRecoveredLog
  <2>3. \A f \in db, k \in Keys : f.kv[k] <= Len(written)
    BY DEF BInv, Known
  <2> QED
    BY <1>3, <2>1, <2>2, <2>3
<1> QED
  BY <1>1, <1>2, <1>5, <1>6, RecoveringKeepsBInv

LEMMA FinishRecoveryKeepsBInv ==
  ASSUME BInv, NEW m \in Memtables, FinishRecovery(m)
  PROVE  BInv'
<1> USE DEF BInv
<1>1. /\ UNCHANGED <<flushing, cursor, fpc, cpc, target, wal, db, tmp, crashes, failures,
                     written, pending>>
      /\ phase = "recovering" /\ phase' = "up"
      /\ active' = m /\ mem' = [mem EXCEPT ![m] = wal[m]]
      /\ clock' = IF m > clock THEN m ELSE clock
      /\ filed' = Cardinality(db) /\ mishap' \in BOOLEAN
  BY DEF FinishRecovery, disk
<1>2. /\ flushing = 0 /\ mem = [l \in Memtables |-> Empty] /\ fpc = "idle" /\ cpc = "idle"
      /\ target = 0 /\ pending = {} /\ clock \in Memtables
  BY <1>1 DEF Forgotten, TypeOK
<1>3. m # 0
  BY <1>2 DEF FinishRecovery, Logs, Layers, Memtables
<1>4. PICK s \in [1..Cardinality(db) -> db] : segs' = s
  BY DEF FinishRecovery
<1>5. Cardinality(db) \in Nat
  BY FS_CardinalityType
<1>6. segs' \in Seq(Segments) /\ Len(segs') = Cardinality(db)
  <2>1. s \in [1..Cardinality(db) -> Segments]
    BY <1>4 DEF TypeOK
  <2> QED
    BY <1>4, <1>5, <2>1
<1>7. \A i \in DOMAIN segs' : segs'[i] \in db
  BY <1>4
<1>8. PICK found \in Contents :
        (\A k \in Keys : Reads(k, found[k])') /\ last' = found /\ logged' = found
  BY DEF FinishRecovery
<1>9. wal[m] \in Contents /\ mem' \in [Memtables -> Contents] /\ mem'[0] = Empty
      /\ \A l \in Memtables : mem'[l] = IF l = m THEN wal[m] ELSE Empty
  BY <1>1, <1>2, <1>3 DEF TypeOK
<1>10. m \in Nat /\ clock \in Nat /\ clock' \in Memtables /\ m \in 1..clock' /\ clock <= clock'
  BY <1>1, <1>2, <1>3 DEF Memtables
<1>11. TypeOK'
  <2>1. filed' \in 0..Len(segs')
    BY <1>1, <1>5, <1>6
  <2> QED
    BY <1>1, <1>2, <1>6, <1>8, <1>9, <1>10, <2>1 DEF TypeOK
<1>12. Layers'
  <2>1. \A l \in Memtables : l > clock' => l # m
    BY <1>10
  <2> QED
    BY <1>1, <1>2, <1>3, <1>9, <1>10, <2>1 DEF Layers
<1>13. Forgotten' /\ Merging' /\ Cleaning'
  BY <1>1, <1>2 DEF Forgotten, Merging, Cleaning
<1>14. 0 \in Writes /\ 0 <= Len(written) /\ \A k \in Keys : Empty[k] = 0
  BY BucketAssumption DEF Writes, TypeOK, Empty
<1>15. /\ \A l \in Memtables, k \in Keys : mem'[l][k] <= Len(written)
       /\ \A i \in DOMAIN segs', k \in Keys : segs'[i].kv[k] <= Len(written)
  BY <1>7, <1>9, <1>14 DEF Known
<1>16. \A k \in Keys : found[k] <= Len(written)
  <2> SUFFICES ASSUME NEW k \in Keys, found[k] # 0
               PROVE  found[k] <= Len(written)
    BY <1>14
  <2>1. Reads(k, found[k])'
    BY <1>8
  <2>2. CASE found[k] \in {mem'[active'][k], mem'[flushing'][k]}
    BY <1>1, <1>11, <1>15, <2>2 DEF TypeOK
  <2>3. CASE Finds(segs', k, found[k])
    BY <1>15, <2>3 DEF Finds
  <2>4. \/ found[k] \in {mem'[active'][k], mem'[flushing'][k]}
        \/ Finds(segs', k, found[k])
    BY <2>1 DEF Reads, Finds
  <2> QED
    BY <2>2, <2>3, <2>4
<1>17. Known'
  BY <1>1, <1>8, <1>15, <1>16 DEF Known
<1>18. ReadsTheLast'
  <2> SUFFICES ASSUME NEW k \in Keys
               PROVE  \E n \in Writes : Reads(k, n)' /\ (Value(n) = Value(last[k]))'
    BY DEF ReadsTheLast
  <2>1. last'[k] \in Writes /\ last'[k] = found[k]
    BY <1>8 DEF Contents
  <2>2. Reads(k, found[k])'
    BY <1>8
  <2>3. (Value(found[k]) = Value(last[k]))'
    BY <2>1 DEF Value
  <2> QED
    BY <2>1, <2>2, <2>3
<1> QED
  BY <1>1, <1>11, <1>12, <1>13, <1>17, <1>18

----------------------------------------------------------------------------
(* The theorems *)

LEMMA NextKeepsBInv == BInv /\ [Next]_vars => BInv'
<1> SUFFICES ASSUME BInv, [Next]_vars PROVE BInv'
  OBVIOUS
<1>1. CASE Writers
  <2>1. ASSUME NEW k \in Keys, NEW dead \in BOOLEAN, Write(k, dead)
        PROVE  BInv'
    BY <2>1, WriteKeepsBInv
  <2>2. ASSUME NEW n \in pending, WriteWAL(n)
        PROVE  BInv'
    BY <2>2, WriteWALKeepsBInv
  <2> QED
    BY <1>1, <2>1, <2>2 DEF Writers
<1>2. CASE SyncLog
  BY <1>2, SyncLogKeepsBInv
<1>3. CASE Flushes
  BY <1>3, SwitchMemtableKeepsBInv, CloseLogKeepsBInv, WriteSegmentKeepsBInv,
     DropLogKeepsBInv, AddSegmentKeepsBInv, FlushFailsKeepsBInv DEF Flushes
<1>4. CASE Cursors
  BY <1>4, CursorsKeepBInv
<1>5. CASE Compacts
  <2>1. ASSUME NEW i \in 1..Len(segs), StartCompaction(i)
        PROVE  BInv'
    BY <2>1, StartCompactionKeepsBInv
  <2>2. ASSUME NEW i \in 1..Len(segs), NEW from \in 1..Len(segs) + 1, StartCleanup(i, from)
        PROVE  BInv'
    BY <2>2, StartCleanupKeepsBInv
  <2>3. ASSUME MarkLeft \/ MarkRight \/ MarkCleaned
        PROVE  BInv'
    BY <2>3, MarkKeepsBInv
  <2> QED
    BY <1>5, <2>1, <2>2, <2>3, WriteCompactedKeepsBInv, InstallCompactedKeepsBInv,
       WriteCleanedKeepsBInv, InstallCleanedKeepsBInv DEF Compacts
<1>6. CASE Restarts
  <2>1. ASSUME NEW reuse \in BOOLEAN, Shutdown(reuse)
        PROVE  BInv'
    BY <2>1, ShutdownKeepsBInv
  <2>2. ASSUME NEW m \in Memtables, FlushRecoveredLog(m)
        PROVE  BInv'
    BY <2>2, FlushRecoveredLogKeepsBInv
  <2>3. ASSUME NEW m \in Memtables, FinishRecovery(m)
        PROVE  BInv'
    BY <2>3, FinishRecoveryKeepsBInv
  <2> QED
    BY <1>6, <2>1, <2>2, <2>3, CrashKeepsBInv, LoadSegmentsKeepsBInv DEF Restarts
<1>7. CASE UNCHANGED vars
  <2>1. UNCHANGED <<phase, active, flushing, mem, segs, filed, cursor, fpc, cpc, target, wal, db,
                    tmp, clock, crashes, failures, written, pending, last, logged, mishap>>
    BY <1>7 DEF vars, memory, disk, bounds, history
  <2>2. TypeOK' /\ Layers' /\ Forgotten' /\ Known'
    BY <2>1 DEF BInv, TypeOK, Layers, Forgotten, Known
  <2>3. Merging' /\ Cleaning' /\ ReadsTheLast'
    BY <2>1 DEF BInv, Merging, Cleaning, ReadsTheLast, Reads, Finds, Value
  <2> QED
    BY <2>1, <2>2, <2>3 DEF BInv
<1> QED
  BY <1>1, <1>2, <1>3, <1>4, <1>5, <1>6, <1>7 DEF Next

\* The invariant holds in every state of the specification.
LEMMA AlwaysBInv == Spec => []BInv
<1> QED
  BY InitBInv, NextKeepsBInv, PTL DEF Spec

\* The bucket's variables keep their types, whatever is written, flushed,
\* merged, cleaned, failing, crashing and recovered.
THEOREM BucketTypeCorrect == Spec => []TypeOK
<1>1. BInv => TypeOK
  BY DEF BInv
<1> QED
  BY <1>1, AlwaysBInv, PTL

\* A get of a running bucket finds the last write for its key, through every
\* step of the flush, compaction and cleanup cycles and after every recovery
\* (of which "last" is what it found), for any number of keys, writers,
\* memtables, segments, crashes and failing flushes.
THEOREM BucketReadsTheLast == Spec => []ReadsTheLast
<1>1. BInv => ReadsTheLast
  BY DEF BInv
<1> QED
  BY <1>1, AlwaysBInv, PTL

----------------------------------------------------------------------------
(* The files, and what a recovery makes of them.                           *)
(* What follows holds until data was lost in one of the known ways.        *)

Up == phase = "up" /\ ~mishap

(* The file of a segment was marked for deletion. *)
Gone(i) ==
  \/ cpc \in {"markedLeft", "markedBoth", "marked"} /\ i = target
  \/ cpc = "markedBoth" /\ i = target + 1

(* Segments are older than the memtable being flushed, and that one than   *)
(* the active one; no other memtable, and no log of another, has contents, *)
(* and a log may lag behind its memtable.                                  *)
Ordered ==
  Up =>
    /\ \A i, j \in DOMAIN segs : i < j => segs[i].id < segs[j].id
    /\ \A i \in DOMAIN segs : /\ segs[i].id > 0 /\ segs[i].id < active
                              /\ flushing # 0 => segs[i].id < flushing
    /\ flushing < active
    /\ \A m \in Memtables \ {active, flushing} : mem[m] = Empty /\ wal[m] = Empty
    /\ \A m \in Memtables, k \in Keys : wal[m][k] <= mem[m][k]

(* A segment has its file until it is marked, the flush leaves the log     *)
(* until the file is there, and there are no other files.                  *)
OnDisk ==
  Up =>
    /\ \A f \in db : \/ \E i \in DOMAIN segs : f = segs[i] /\ ~Gone(i)
                     \/ flushing # 0 /\ f = Segment(flushing, mem[flushing])
    /\ \A i \in DOMAIN segs : ~Gone(i) => segs[i] \in db
    /\ fpc \in {"closeLog", "write"} => \A f \in db : f.id # flushing
    /\ fpc \in {"write", "dropLog"} => wal[flushing] = mem[flushing]
    /\ fpc = "add" => wal[flushing] = Empty
    /\ fpc \in {"dropLog", "add"} => Segment(flushing, mem[flushing]) \in db

Merges == {"compact", "compacted", "markedLeft", "markedBoth"}
Cleans == {"clean", "cleaned", "marked"}

(* The temporary file names the segments it is made of. *)
InTmp ==
  Up =>
    /\ cpc = "idle" => tmp = NoTmp
    /\ cpc \in Merges => tmp.left = segs[target].id /\ tmp.right = segs[target + 1].id
    /\ cpc = "compact" => tmp.kv = Empty
    /\ cpc \in Merges \ {"compact"} => tmp.done
    /\ cpc \in Cleans => tmp.left = segs[target].id /\ tmp.right = segs[target].id

(* What NewBucket needs of the files: one of a name, the right source of a *)
(* compaction as long as the left one, and the new one if that is gone.    *)
Loadable ==
  ~mishap =>
    /\ phase # "refused"
    /\ \A f, g \in db : f.id = g.id => f = g
    /\ \A f \in db : f.id \in 1..clock
    /\ \A m \in Memtables : wal[m] # Empty => m \in 1..clock
    /\ phase = "recovering" => tmp = NoTmp /\ \A f \in db : wal[f.id] = Empty
    /\ phase = "down" /\ tmp.left # tmp.right =>
         /\ wal[tmp.left] = Empty /\ wal[tmp.right] = Empty /\ tmp.right \in 1..clock
         /\ (\E f \in db : f.id = tmp.left) => \E f \in db : f.id = tmp.right
         /\ (\A f \in db : f.id # tmp.left) => tmp.done

(* The temporary file stands for its sources, be it by a recovery. *)
TakesOver ==
  \/ cpc = "marked"
  \/ tmp.left # tmp.right /\ \A f \in db : f.id # tmp.left

(* A recovery would find the write n of key k in the layer named m. *)
Survives(m, k, n) ==
  /\ n # 0
  /\ \/ wal[m][k] = n
     \/ /\ wal[m] = Empty /\ ~(TakesOver /\ m = tmp.right)
        /\ \E f \in db : f.id = m /\ f.kv[k] = n
     \/ TakesOver /\ m = tmp.right /\ tmp.kv[k] = n

(* The layer named m has it somewhere, in the memory or in a file. *)
Holds(m, k, n) ==
  /\ n # 0
  /\ \/ wal[m][k] = n
     \/ mem[m][k] = n
     \/ \E f \in db : f.id = m /\ f.kv[k] = n
     \/ \E i \in DOMAIN segs : segs[i].id = m /\ segs[i].kv[k] = n
     \/ tmp.right = m /\ tmp.kv[k] = n

(* Newer layers hold newer writes. *)
Ascending ==
  ~mishap =>
    \A m, l \in Memtables, k \in Keys, a, b \in Writes :
      m < l /\ Holds(m, k, a) /\ Holds(l, k, b) => a <= b

(* The newest write that reached a file is the newest that survives, or it *)
(* is a delete that was dropped with all it had deleted.                   *)
Survived(k) == \E m \in Memtables : Survives(m, k, logged[k])

DeletedForGood(k) ==
  /\ Value(logged[k]) = 0
  /\ \A m \in Memtables, n \in Writes : ~Survives(m, k, n)
  /\ \A m \in Memtables : mem[m][k] = 0 \/ mem[m][k] >= logged[k]

Durable ==
  ~mishap =>
    \A k \in Keys :
      /\ logged[k] <= Len(written)
      /\ \A m \in Memtables, n \in Writes : Survives(m, k, n) => n <= logged[k]
      /\ Survived(k) \/ DeletedForGood(k)

DInv == BInv /\ Ordered /\ OnDisk /\ InTmp /\ Loadable /\ Ascending /\ Durable

----------------------------------------------------------------------------
(* Where the layers are *)

LEMMA UpTypes ==
  ASSUME DInv
  PROVE  /\ active \in Nat /\ flushing \in Nat /\ clock \in Nat /\ filed \in Nat /\ target \in Nat
         /\ active \in Memtables /\ flushing \in Memtables
         /\ \A m \in Memtables : m \in Nat /\ mem[m] \in Contents /\ wal[m] \in Contents
         /\ \A m \in Memtables, k \in Keys :
              mem[m][k] \in Nat /\ wal[m][k] \in Nat /\ mem[m][k] \in Writes /\ wal[m][k] \in Writes
         /\ \A i \in DOMAIN segs :
              /\ i \in Nat /\ segs[i] \in Segments /\ segs[i].id \in Nat /\ segs[i].kv \in Contents
              /\ segs[i].id \in Memtables
         /\ \A f \in db : f \in Segments /\ f.id \in Nat /\ f.id \in Memtables /\ f.kv \in Contents
         /\ tmp \in Tmps /\ tmp.left \in Memtables /\ tmp.right \in Memtables /\ tmp.kv \in Contents
         /\ \A k \in Keys : logged[k] \in Nat /\ logged[k] \in Writes /\ tmp.kv[k] \in Writes
         /\ Empty \in Contents /\ \A k \in Keys : Empty[k] = 0
<1>1. /\ active \in Memtables /\ flushing \in Memtables /\ clock \in Memtables
      /\ filed \in 0..Len(segs) /\ segs \in Seq(Segments) /\ target \in Nat
      /\ mem \in [Memtables -> Contents] /\ wal \in [Memtables -> Contents]
      /\ db \subseteq Segments /\ tmp \in Tmps /\ logged \in Contents
  BY DEF DInv, BInv, TypeOK
<1>2. Memtables \subseteq Nat /\ Writes \subseteq Nat
  BY DEF Memtables, Writes
<1>3. \A c \in Contents, k \in Keys : c[k] \in Writes
  BY DEF Contents
<1>4. \A s \in Segments : s.id \in Memtables /\ s.kv \in Contents
  BY DEF Segments
<1>5. tmp.left \in Memtables /\ tmp.right \in Memtables /\ tmp.kv \in Contents
  BY <1>1 DEF Tmps
<1>6. \A i \in DOMAIN segs : i \in Nat /\ segs[i] \in Segments
  BY <1>1
<1>7. Empty \in Contents /\ \A k \in Keys : Empty[k] = 0
  BY BucketAssumption DEF Empty, Contents, Writes
<1>8. filed \in Nat
  BY <1>1
<1>9. \A m \in Memtables : mem[m] \in Contents /\ wal[m] \in Contents
  BY <1>1
<1>10. \A m \in Memtables, k \in Keys : mem[m][k] \in Writes /\ wal[m][k] \in Writes
  BY <1>3, <1>9
<1>11. \A k \in Keys : logged[k] \in Writes /\ tmp.kv[k] \in Writes
  BY <1>1, <1>3, <1>5
<1> QED
  BY <1>1, <1>2, <1>4, <1>5, <1>6, <1>7, <1>8, <1>9, <1>10, <1>11

LEMMA TargetIsSegment ==
  ASSUME DInv
  PROVE  /\ cpc \in Merges => /\ target \in DOMAIN segs /\ target + 1 \in DOMAIN segs
                              /\ target < target + 1 /\ target # target + 1
         /\ cpc \in Cleans => target \in DOMAIN segs
<1>1. DOMAIN segs = 1..Len(segs) /\ filed \in Nat /\ Len(segs) \in Nat /\ filed <= Len(segs)
      /\ target \in Nat
  BY FiledAreSegments DEF DInv, BInv, TypeOK
<1>2. cpc \in Merges => target \in 1..filed /\ target < filed
  BY DEF DInv, BInv, Merging, Merges
<1>3. cpc \in Cleans => target \in 1..filed
  BY DEF DInv, BInv, Cleaning, Cleans
<1> QED
  BY <1>1, <1>2, <1>3

\* The temporary file, where there is one, is named by segments.
LEMMA TmpIsOld ==
  ASSUME DInv, Up
  PROVE  \/ tmp = NoTmp /\ cpc = "idle" /\ ~TakesOver
         \/ \E i, j \in DOMAIN segs : tmp.left = segs[i].id /\ tmp.right = segs[j].id
<1>1. cpc \in {"idle"} \cup Merges \cup Cleans
  BY DEF DInv, BInv, TypeOK, Merges, Cleans
<1>2. CASE cpc = "idle"
  BY <1>2 DEF DInv, InTmp, TakesOver, NoTmp
<1>3. CASE cpc \in Merges
  BY <1>3, TargetIsSegment DEF DInv, InTmp
<1>4. CASE cpc \in Cleans
  BY <1>4, TargetIsSegment DEF DInv, InTmp
<1> QED
  BY <1>1, <1>2, <1>3, <1>4

LEMMA SegmentsAreOld ==
  ASSUME DInv, Up, NEW i \in DOMAIN segs
  PROVE  /\ segs[i].id \in Memtables \ {0} /\ segs[i].id # active /\ segs[i].id # flushing
         /\ wal[segs[i].id] = Empty /\ mem[segs[i].id] = Empty
         /\ \A j \in DOMAIN segs : segs[j].id = segs[i].id => j = i
<1>1. segs[i].id \in Memtables /\ segs[i].id \in Nat /\ active \in Nat /\ flushing \in Nat
  BY UpTypes
<1>2. segs[i].id > 0 /\ segs[i].id < active /\ (flushing # 0 => segs[i].id < flushing)
  BY DEF DInv, Ordered
<1>3. segs[i].id # active /\ segs[i].id # flushing /\ segs[i].id # 0
  BY <1>1, <1>2
<1>4. \A j \in DOMAIN segs : segs[j].id = segs[i].id => j = i
  <2> SUFFICES ASSUME NEW j \in DOMAIN segs, segs[j].id = segs[i].id, j # i
               PROVE  FALSE
    OBVIOUS
  <2>1. i \in Nat /\ j \in Nat
    BY UpTypes
  <2>2. i < j \/ j < i
    BY <2>1
  <2>3. segs[i].id < segs[j].id \/ segs[j].id < segs[i].id
    BY <2>2 DEF DInv, Ordered
  <2> QED
    BY <1>1, <2>3
<1> QED
  BY <1>1, <1>3, <1>4 DEF DInv, Ordered

\* The sources of the temporary file are not being written or flushed.
LEMMA TmpIsApart ==
  ASSUME DInv, Up, TakesOver \/ tmp.left # tmp.right
  PROVE  /\ tmp.left # active /\ tmp.left # flushing /\ tmp.right # active /\ tmp.right # flushing
         /\ wal[tmp.left] = Empty /\ wal[tmp.right] = Empty
         /\ tmp.left # 0 /\ tmp.right # 0
<1>1. tmp # NoTmp \/ ~(tmp = NoTmp /\ ~TakesOver)
  BY DEF NoTmp
<1>2. PICK i, j \in DOMAIN segs : tmp.left = segs[i].id /\ tmp.right = segs[j].id
  BY TmpIsOld DEF NoTmp
<1> QED
  BY <1>2, SegmentsAreOld

\* The layers of the files are segments, or the memtable being flushed.
LEMMA FilesAreOld ==
  ASSUME DInv, Up, NEW f \in db
  PROVE  \/ \E i \in DOMAIN segs : f = segs[i] /\ ~Gone(i)
         \/ flushing # 0 /\ f.id = flushing /\ f.kv = mem[flushing]
BY DEF DInv, OnDisk, Segment

LEMMA SegmentHolds ==
  ASSUME DInv, Up, NEW i \in DOMAIN segs, NEW k \in Keys, NEW n \in Writes,
         Holds(segs[i].id, k, n)
  PROVE  n = segs[i].kv[k] \/ (tmp.right = segs[i].id /\ n = tmp.kv[k])
<1> DEFINE m == segs[i].id
<1>1. m # flushing /\ wal[m] = Empty /\ mem[m] = Empty
      /\ \A j \in DOMAIN segs : segs[j].id = m => j = i
  BY SegmentsAreOld
<1>2. n # 0 /\ Empty[k] = 0
  BY UpTypes DEF Holds
<1>3. ASSUME NEW f \in db, f.id = m
      PROVE  f = segs[i]
  BY <1>1, <1>3, FilesAreOld
<1> QED
  BY <1>1, <1>2, <1>3 DEF Holds

LEMMA HoldsWhere ==
  ASSUME DInv, Up, NEW m \in Memtables, NEW k \in Keys, NEW n \in Writes, Holds(m, k, n)
  PROVE  m = active \/ (m = flushing /\ m # 0) \/ \E i \in DOMAIN segs : segs[i].id = m
<1>1. n # 0 /\ Empty[k] = 0 /\ mem[0] = Empty /\ wal[0] = Empty
  BY UpTypes DEF Holds, DInv, BInv, TypeOK, Layers
<1>2. CASE wal[m][k] = n \/ mem[m][k] = n
  <2>1. m \in {active, flushing} /\ m # 0
    BY <1>1, <1>2 DEF DInv, Ordered
  <2> QED
    BY <2>1
<1>3. ASSUME NEW f \in db, f.id = m
      PROVE  (m = flushing /\ m # 0) \/ \E i \in DOMAIN segs : segs[i].id = m
  BY <1>3, FilesAreOld
<1>4. CASE tmp.right = m /\ tmp.kv[k] = n
  <2>1. tmp # NoTmp
    BY <1>1, <1>4 DEF NoTmp
  <2> QED
    BY <1>4, <2>1, TmpIsOld
<1> QED
  BY <1>2, <1>3, <1>4 DEF Holds

----------------------------------------------------------------------------
(* What a step leaves alone *)

\* A step that brings no write to another layer.
LEMMA AscendingKept ==
  ASSUME Ascending, mishap' \/ ~mishap,
         \A m \in Memtables, k \in Keys, n \in Writes : Holds(m, k, n)' => Holds(m, k, n)
  PROVE  Ascending'
BY DEF Ascending

\* A step after which a recovery finds what it had found before.
LEMMA DurableKept ==
  ASSUME Durable, mishap' \/ ~mishap, UNCHANGED <<written, logged>>,
         \A m \in Memtables, k \in Keys, n \in Writes : Survives(m, k, n)' <=> Survives(m, k, n),
         \A k \in Keys : logged[k] \in Writes,
         \A m \in Memtables, k \in Keys : mem'[m][k] = mem[m][k] \/ mem'[m][k] = 0
  PROVE  Durable'
<1> SUFFICES ASSUME ~mishap', ~mishap, NEW k \in Keys
             PROVE  /\ logged'[k] <= Len(written')
                    /\ \A m \in Memtables, n \in Writes : Survives(m, k, n)' => n <= logged'[k]
                    /\ Survived(k)' \/ DeletedForGood(k)'
  BY DEF Durable
<1>1. /\ logged[k] <= Len(written)
      /\ \A m \in Memtables, n \in Writes : Survives(m, k, n) => n <= logged[k]
      /\ Survived(k) \/ DeletedForGood(k)
  BY DEF Durable
<1>2. CASE Survived(k)
  <2>1. PICK m \in Memtables : Survives(m, k, logged[k])
    BY <1>2 DEF Survived
  <2>2. Survives(m, k, logged[k])'
    <3>1. PICK n \in Writes : n = logged[k] /\ Survives(m, k, n)
      BY <2>1
    <3>2. Survives(m, k, n)'
      BY <3>1
    <3> QED
      BY <3>1, <3>2 DEF Survives
  <2>3. Survived(k)'
    BY <2>2 DEF Survived
  <2> QED
    BY <1>1, <2>3
<1>3. CASE DeletedForGood(k)
  <2>1. (Value(logged[k]) = 0)'
    BY <1>3 DEF DeletedForGood, Value
  <2>2. \A m \in Memtables : mem'[m][k] = 0 \/ mem'[m][k] >= logged'[k]
    BY <1>3 DEF DeletedForGood
  <2>3. DeletedForGood(k)'
    BY <1>3, <2>1, <2>2 DEF DeletedForGood
  <2> QED
    BY <1>1, <2>3
<1> QED
  BY <1>1, <1>2, <1>3

\* Files that stay as they are.
SameFiles == UNCHANGED <<phase, clock, wal, db, tmp, mishap>>

LEMMA SameFilesLoadable ==
  ASSUME Loadable, SameFiles
  PROVE  Loadable'
BY DEF Loadable, SameFiles

LEMMA SameFilesSurvive ==
  ASSUME SameFiles, cpc' = "marked" <=> cpc = "marked"
  PROVE  \A m, k, n : Survives(m, k, n)' <=> Survives(m, k, n)
BY DEF Survives, TakesOver, SameFiles

\* Steps that leave memory and files, but for how far the cycles have got.
LEMMA CyclesKeepDInv ==
  ASSUME DInv, BInv', SameFiles,
         UNCHANGED <<active, flushing, mem, segs, written, logged, cpc, target>>,
         fpc' \in {fpc, "idle"}
  PROVE  DInv'
<1> USE DEF DInv, SameFiles
<1>1. Ordered' /\ InTmp'
  BY DEF Ordered, InTmp, Up
<1>2. OnDisk'
  BY DEF OnDisk, Up, Gone, Segment
<1>3. Loadable'
  BY SameFilesLoadable
<1>4. Ascending'
  BY AscendingKept DEF Holds
<1>5. Durable'
  BY SameFilesSurvive, DurableKept, UpTypes
<1> QED
  BY <1>1, <1>2, <1>3, <1>4, <1>5

LEMMA FlushFailsKeepsDInv ==
  ASSUME DInv, BInv', FlushFails
  PROVE  DInv'
<1>1. /\ UNCHANGED <<phase, active, flushing, mem, segs, clock, cpc, target, wal, db, tmp,
                     written, logged, mishap>>
      /\ fpc' \in {fpc, "idle"}
  BY DEF FlushFails, disk, history
<1> QED
  BY <1>1, CyclesKeepDInv DEF SameFiles

LEMMA CursorsKeepDInv ==
  ASSUME DInv, BInv', Cursors
  PROVE  DInv'
<1>1. /\ UNCHANGED <<phase, active, flushing, mem, segs, clock, cpc, target, wal, db, tmp,
                     written, logged, mishap>>
      /\ fpc' = fpc
  BY DEF Cursors, OpenCursor, CloseCursor, FileEnqueued, disk, bounds, history
<1> QED
  BY <1>1, CyclesKeepDInv DEF SameFiles

LEMMA InitDInv == Init => DInv
<1> SUFFICES ASSUME Init PROVE DInv
  OBVIOUS
<1> USE DEF Init
<1>1. BInv
  BY InitBInv
<1>2. 1 \in Memtables /\ 0 \in Memtables /\ \A k \in Keys : Empty[k] = 0
  BY BucketAssumption DEF Memtables, Empty
<1>3. Ordered /\ OnDisk /\ InTmp
  BY <1>2 DEF Ordered, OnDisk, InTmp, Merges, Cleans
<1>4. Loadable
  BY <1>2 DEF Loadable
<1>5. \A m \in Memtables, k \in Keys : \A n : ~Survives(m, k, n) /\ ~Holds(m, k, n)
  BY <1>2 DEF Survives, Holds, TakesOver, NoTmp
<1>6. Ascending
  BY <1>5 DEF Ascending
<1>7. Durable
  BY <1>2, <1>5 DEF Durable, DeletedForGood, Value
<1> QED
  BY <1>1, <1>3, <1>4, <1>6, <1>7 DEF DInv

----------------------------------------------------------------------------
(* Writes and logs *)

LEMMA WriteKeepsDInv ==
  ASSUME DInv, BInv', NEW k \in Keys, NEW dead \in BOOLEAN, Write(k, dead)
  PROVE  DInv'
<1> DEFINE n == Len(written) + 1
<1>1. /\ UNCHANGED <<active, flushing, segs, filed, cursor, fpc, cpc, target, logged>>
      /\ phase = "up" /\ SameFiles
      /\ written' = Append(written, [key |-> k, dead |-> dead])
      /\ mem' = [mem EXCEPT ![active][k] = n]
  BY DEF Write, disk, bounds, SameFiles
<1> SUFFICES ASSUME ~mishap PROVE DInv'
  BY <1>1 DEF DInv, SameFiles, Ordered, OnDisk, InTmp, Loadable, Ascending, Durable, Up
<1>2. Up
  BY <1>1 DEF Up
<1>3. /\ n \in Writes /\ n # 0 /\ n > Len(written) /\ Len(written) \in Nat /\ Len(written') = n
      /\ DOMAIN written' = 1..n /\ DOMAIN written = 1..Len(written)
      /\ \A i \in 1..Len(written) : written'[i] = written[i]
  BY <1>1, BucketAssumption DEF Write, Writes, DInv, BInv, TypeOK
<1> HIDE DEF n
<1>4. active \in Memtables /\ active # flushing /\ active # 0 /\ active \in Nat /\ flushing < active
  BY <1>2, UpTypes DEF DInv, BInv, Layers, Up, Ordered
<1>5. \A m \in Memtables, j \in Keys :
        mem'[m][j] = IF m = active /\ j = k THEN n ELSE mem[m][j]
  BY <1>1, <1>4, UpTypes DEF DInv, BInv, TypeOK, Contents
<1>6. \A m \in Memtables : m # active => mem'[m] = mem[m]
  BY <1>1, <1>4 DEF DInv, BInv, TypeOK
<1>7. \A m \in Memtables, j \in Keys : mem[m][j] <= Len(written) /\ wal[m][j] <= Len(written)
  BY DEF DInv, BInv, Known
<1>8. Ordered'
  <2>1. \A m \in Memtables, j \in Keys : wal[m][j] <= mem'[m][j]
    <3> SUFFICES ASSUME NEW m \in Memtables, NEW j \in Keys
                 PROVE  wal[m][j] <= mem'[m][j]
      OBVIOUS
    <3>1. wal[m][j] <= mem[m][j] /\ wal[m][j] <= Len(written) /\ wal[m][j] \in Nat
      BY <1>2, <1>7, UpTypes DEF DInv, Ordered
    <3>2. wal[m][j] <= n
      BY <1>3, <3>1 DEF n
    <3> QED
      BY <1>5, <3>1, <3>2
  <2> QED
    BY <1>1, <1>2, <1>6, <2>1 DEF DInv, Ordered, Up, SameFiles
<1>9. OnDisk' /\ InTmp'
  <2>1. flushing \in Memtables /\ mem'[flushing] = mem[flushing]
    BY <1>4, <1>6, UpTypes
  <2>2. OnDisk'
    BY <1>1, <1>2, <2>1 DEF DInv, OnDisk, Up, SameFiles, Gone, Segment
  <2> QED
    BY <1>1, <1>2, <2>2 DEF DInv, InTmp, Up, SameFiles
<1>10. Loadable'
  BY <1>1, SameFilesLoadable DEF DInv
<1>11. ASSUME NEW m \in Memtables, NEW j \in Keys, NEW b \in Writes, Holds(m, j, b)'
       PROVE  Holds(m, j, b) \/ (m = active /\ j = k /\ b = n)
  BY <1>1, <1>5, <1>11 DEF Holds, SameFiles
<1>12. ASSUME NEW m \in Memtables, NEW j \in Keys, NEW b \in Writes, Holds(m, j, b)
       PROVE  b <= Len(written) /\ m <= active
  <2>1. b <= Len(written)
    BY <1>7, <1>12 DEF Holds, DInv, BInv, Known
  <2>2. m <= active
    <3>1. \A i \in DOMAIN segs : segs[i].id <= active
      BY <1>2, UpTypes DEF DInv, Ordered
    <3> QED
      BY <1>2, <1>4, <1>12, <3>1, HoldsWhere, UpTypes
  <2> QED
    BY <2>1, <2>2
<1>13. Ascending'
  <2> SUFFICES ASSUME NEW m \in Memtables, NEW l \in Memtables, NEW j \in Keys,
                      NEW a \in Writes, NEW b \in Writes,
                      m < l, Holds(m, j, a)', Holds(l, j, b)'
               PROVE  a <= b
    BY DEF Ascending
  <2>1. m \in Nat /\ l \in Nat /\ a \in Nat /\ b \in Nat
    BY DEF Memtables, Writes
  <2>2. CASE Holds(m, j, a) /\ Holds(l, j, b)
    BY <2>2, <1>2 DEF DInv, Ascending, Up
  <2>3. CASE b = n /\ Holds(m, j, a)
    BY <2>1, <2>3, <1>3, <1>12
  <2>4. CASE a = n /\ b = n
    BY <2>1, <2>4
  <2>5. CASE m = active /\ Holds(l, j, b)
    BY <2>1, <2>5, <1>4, <1>12
  <2> QED
    BY <1>11, <2>2, <2>3, <2>4, <2>5
<1>14. Durable'
  <2> SUFFICES ASSUME NEW j \in Keys
               PROVE  /\ logged[j] <= Len(written')
                      /\ \A m \in Memtables, b \in Writes : Survives(m, j, b)' => b <= logged[j]
                      /\ Survived(j)' \/ DeletedForGood(j)'
    BY <1>1 DEF Durable
  <2>1. \A m, i, b : Survives(m, i, b)' <=> Survives(m, i, b)
    BY <1>1, SameFilesSurvive
  <2>2. /\ logged[j] <= Len(written) /\ logged[j] \in Nat
        /\ \A m \in Memtables, b \in Writes : Survives(m, j, b) => b <= logged[j]
        /\ Survived(j) \/ DeletedForGood(j)
    BY UpTypes DEF DInv, Durable
  <2>3. Survived(j) => Survived(j)'
    <3>1. \A m : Survives(m, j, logged[j])' <=> Survives(m, j, logged[j])
      <4>1. \A m : (\A i, b : Survives(m, i, b)' <=> Survives(m, i, b))
        BY <2>1
      <4> QED
        BY <1>1 DEF Survives, SameFiles, TakesOver
    <3> QED
      BY <3>1 DEF Survived
  <2>4. DeletedForGood(j) => DeletedForGood(j)'
    <3>1. Value(logged[j]) = 0 => (Value(logged[j]) = 0)'
      BY <1>1, <1>3, <2>2 DEF Value
    <3>2. ASSUME DeletedForGood(j), NEW m \in Memtables
          PROVE  mem'[m][j] = 0 \/ mem'[m][j] >= logged[j]
      BY <1>3, <1>5, <2>2, <3>2 DEF DeletedForGood, n
    <3> QED
      BY <1>1, <2>1, <3>1, <3>2 DEF DeletedForGood
  <2> QED
    BY <1>3, <2>1, <2>2, <2>3, <2>4 DEF n
<1> QED
  BY <1>8, <1>9, <1>10, <1>13, <1>14 DEF DInv

\* The contents of a layer reach a file.
LEMMA LoggedKeepsDurable ==
  ASSUME DInv, ~mishap, phase = "up", UNCHANGED written,
         NEW m \in Memtables, logged' = Newest(mem[m]),
         \A l \in Memtables, k \in Keys : mem'[l][k] = mem[l][k] \/ mem'[l][k] = 0,
         \A l \in Memtables, k \in Keys : \A n :
           /\ l # m => (Survives(l, k, n)' <=> Survives(l, k, n))
           /\ Survives(m, k, n)' <=> n # 0 /\ mem[m][k] = n
           /\ Survives(m, k, n) <=> n # 0 /\ wal[m][k] = n
  PROVE  Durable'
<1> SUFFICES ASSUME NEW k \in Keys
             PROVE  /\ logged'[k] <= Len(written)
                    /\ \A l \in Memtables, n \in Writes : Survives(l, k, n)' => n <= logged'[k]
                    /\ Survived(k)' \/ DeletedForGood(k)'
  BY DEF Durable
<1>1. /\ logged[k] <= Len(written) /\ logged[k] \in Nat /\ mem[m][k] \in Nat /\ mem[m][k] \in Writes
      /\ wal[m][k] \in Nat /\ wal[m][k] <= mem[m][k] /\ mem[m][k] <= Len(written)
      /\ \A l \in Memtables, n \in Writes : Survives(l, k, n) => n <= logged[k]
      /\ Survived(k) \/ DeletedForGood(k)
  BY UpTypes DEF DInv, Durable, Ordered, Up, BInv, Known
<1>2. logged'[k] = IF mem[m][k] > logged[k] THEN mem[m][k] ELSE logged[k]
  BY DEF Newest
<1>3. \A l \in Memtables, n \in Writes : Survives(l, k, n)' => n <= logged'[k]
  <2> SUFFICES ASSUME NEW l \in Memtables, NEW n \in Writes, Survives(l, k, n)'
               PROVE  n <= logged'[k]
    OBVIOUS
  <2>1. n \in Nat
    BY DEF Writes
  <2>2. n = mem[m][k] \/ n <= logged[k]
    BY <1>1
  <2> QED
    BY <1>1, <1>2, <2>1, <2>2
<1>4. CASE logged'[k] = mem[m][k] /\ mem[m][k] # 0
  <2>1. PICK n \in Writes : n = mem[m][k]
    BY <1>1
  <2>2. Survives(m, k, n)'
    BY <1>4, <2>1
  <2>3. Survives(m, k, logged[k])'
    BY <1>4, <2>1, <2>2 DEF Survives
  <2> QED
    BY <1>1, <1>2, <1>3, <2>3 DEF Survived
<1>5. CASE logged'[k] = logged[k] /\ (mem[m][k] < logged[k] \/ mem[m][k] = 0)
  <2>1. CASE Survived(k)
    <3>1. PICK l \in Memtables : Survives(l, k, logged[k])
      BY <2>1 DEF Survived
    <3>2. l # m
      <4>1. l = m => wal[m][k] = logged[k] /\ logged[k] # 0
        BY <3>1
      <4> QED
        BY <1>1, <1>5, <4>1
    <3>3. PICK n : n = logged[k] /\ Survives(l, k, n)
      BY <3>1
    <3>4. Survives(l, k, n)'
      BY <3>2, <3>3
    <3>5. Survives(l, k, logged[k])'
      BY <1>5, <3>3, <3>4 DEF Survives
    <3> QED
      BY <1>1, <1>3, <1>5, <3>5 DEF Survived
  <2>2. CASE DeletedForGood(k)
    <3>1. mem[m][k] = 0 /\ wal[m][k] = 0
      BY <1>1, <1>5, <2>2 DEF DeletedForGood
    <3>2. \A l \in Memtables, n \in Writes : ~Survives(l, k, n)'
      BY <2>2, <3>1 DEF DeletedForGood
    <3>3. (Value(logged[k]) = 0)'
      BY <1>5, <2>2 DEF DeletedForGood, Value
    <3>4. DeletedForGood(k)'
      BY <1>5, <2>2, <3>2, <3>3 DEF DeletedForGood
    <3> QED
      BY <1>1, <1>3, <1>5, <3>4
  <2> QED
    BY <1>1, <2>1, <2>2
<1> QED
  BY <1>1, <1>2, <1>4, <1>5

\* The buffer of a log that has no segment yet is written out.
LEMMA LogKeepsDInv ==
  ASSUME DInv, BInv', Up, NEW m \in Memtables \ {0}, Log(m, mem[m]),
         UNCHANGED <<phase, clock, active, flushing, mem, segs, cpc, target, db, tmp, written,
                     mishap>>,
         \/ m = active /\ fpc' = fpc
         \/ m = flushing /\ fpc = "closeLog" /\ fpc' = "write"
  PROVE  DInv'
<1>1. /\ active \in Memtables /\ active \in 1..clock /\ flushing # active /\ flushing < active
      /\ flushing \in Memtables /\ active \in Nat /\ flushing \in Nat /\ clock \in Nat
  BY UpTypes DEF DInv, BInv, Layers, Ordered, Up
<1>2. wal' = [wal EXCEPT ![m] = mem[m]] /\ logged' = Newest(mem[m])
  BY DEF Log
<1>3. \A l \in Memtables : wal'[l] = IF l = m THEN mem[m] ELSE wal[l]
  BY <1>2 DEF DInv, BInv, TypeOK
<1>4. \A f \in db : f.id # m
  <2> SUFFICES ASSUME NEW f \in db PROVE f.id # m
    OBVIOUS
  <2>1. CASE m = active
    BY <1>1, <2>1, FilesAreOld, SegmentsAreOld
  <2>2. CASE m = flushing /\ fpc = "closeLog"
    BY <2>2 DEF DInv, OnDisk
  <2> QED
    BY <2>1, <2>2
<1>5. Ordered'
  <2>1. \A l \in Memtables, k \in Keys : wal'[l][k] <= mem[l][k]
    BY <1>3, UpTypes DEF DInv, Ordered
  <2>2. \A l \in Memtables \ {active, flushing} : wal'[l] = Empty
    BY <1>3 DEF DInv, Ordered
  <2> QED
    BY <2>1, <2>2 DEF DInv, Ordered, Up
<1>6. OnDisk' /\ InTmp'
  <2>1. fpc' \in {"write", "dropLog"} => wal'[flushing] = mem[flushing]
    BY <1>1, <1>3 DEF DInv, OnDisk
  <2>2. fpc' = "add" => wal'[flushing] = Empty
    BY <1>1, <1>3 DEF DInv, OnDisk
  <2>3. fpc' \in {"closeLog", "write"} => fpc \in {"closeLog", "write"}
    OBVIOUS
  <2>4. fpc' \in {"dropLog", "add"} => fpc' = fpc
    OBVIOUS
  <2>5. OnDisk'
    BY <2>1, <2>2, <2>3, <2>4 DEF DInv, OnDisk, Up, Gone, Segment
  <2> QED
    BY <2>5 DEF DInv, InTmp, Up
<1>7. Loadable'
  <2>1. m \in 1..clock
    BY <1>1
  <2>2. \A l \in Memtables : wal'[l] # Empty => l \in 1..clock
    BY <1>3, <2>1 DEF DInv, Loadable, Up
  <2> QED
    BY <2>2 DEF DInv, Loadable, Up
<1>8. Ascending'
  BY <1>3, AscendingKept DEF DInv, Holds
<1>9. TakesOver' <=> TakesOver
  BY DEF TakesOver
<1>10. ~(TakesOver /\ m = tmp.right)
  BY TmpIsApart
<1>11. ASSUME NEW l \in Memtables, NEW k \in Keys, NEW n
       PROVE  /\ l # m => (Survives(l, k, n)' <=> Survives(l, k, n))
              /\ Survives(m, k, n)' <=> n # 0 /\ mem[m][k] = n
              /\ Survives(m, k, n) <=> n # 0 /\ wal[m][k] = n
  <2>1. l # m => (Survives(l, k, n)' <=> Survives(l, k, n))
    BY <1>3, <1>9 DEF Survives
  <2>2. Survives(m, k, n)' <=> n # 0 /\ mem[m][k] = n
    BY <1>3, <1>4, <1>9, <1>10 DEF Survives
  <2>3. Survives(m, k, n) <=> n # 0 /\ wal[m][k] = n
    BY <1>4, <1>10 DEF Survives
  <2> QED
    BY <2>1, <2>2, <2>3
<1>12. Durable'
  BY <1>2, <1>11, LoggedKeepsDurable DEF Up
<1> QED
  BY <1>5, <1>6, <1>7, <1>8, <1>12 DEF DInv

LEMMA WriteLogsKeepDInv ==
  ASSUME DInv, BInv', ~mishap, SyncLog \/ (\E n : WriteWAL(n)) \/ CloseLog
  PROVE  DInv'
<1>1. CASE SyncLog \/ (\E n : WriteWAL(n))
  <2>1. /\ UNCHANGED <<phase, clock, active, flushing, mem, segs, cpc, target, db, tmp, written,
                       mishap, fpc>>
        /\ phase = "up" /\ Log(active, mem[active])
    BY <1>1 DEF SyncLog, WriteWAL, memory, bounds
  <2>2. active \in Memtables \ {0}
    BY <2>1 DEF DInv, BInv, TypeOK, Layers
  <2> QED
    BY <2>1, <2>2, LogKeepsDInv DEF Up
<1>2. CASE CloseLog
  <2>1. /\ UNCHANGED <<phase, clock, active, flushing, mem, segs, cpc, target, db, tmp, written,
                       mishap>>
        /\ phase = "up" /\ Log(flushing, mem[flushing]) /\ fpc = "closeLog" /\ fpc' = "write"
    BY <1>2 DEF CloseLog, bounds
  <2>2. flushing \in Memtables \ {0}
    BY <2>1 DEF DInv, BInv, TypeOK, Layers
  <2> QED
    BY <2>1, <2>2, LogKeepsDInv DEF Up
<1> QED
  BY <1>1, <1>2

----------------------------------------------------------------------------
(* The flush *)

LEMMA SwitchMemtableKeepsDInv ==
  ASSUME DInv, BInv', ~mishap', SwitchMemtable
  PROVE  DInv'
<1>1. /\ UNCHANGED <<phase, mem, segs, filed, cursor, cpc, target, wal, db, tmp, written, logged>>
      /\ phase = "up" /\ ~mishap /\ flushing = 0 /\ flushing' = active /\ fpc' = "closeLog"
      /\ active' = clock + 1 /\ clock' = clock + 1 /\ clock < MaxMemtables
  BY DEF SwitchMemtable, disk
<1>2. Up /\ active \in 1..clock /\ active \in Memtables /\ active # 0 /\ clock \in Nat /\ active \in Nat
  BY <1>1, UpTypes DEF Up, DInv, BInv, Layers
<1>3. Ordered'
  <2>1. \A i \in DOMAIN segs : segs[i].id < clock + 1
    BY <1>2, UpTypes DEF DInv, Ordered
  <2>2. active < clock + 1
    BY <1>2
  <2>3. mem[0] = Empty /\ wal[0] = Empty
    BY DEF DInv, BInv, TypeOK, Layers
  <2> QED
    BY <1>1, <1>2, <2>1, <2>2, <2>3 DEF DInv, Ordered, Up
<1>4. OnDisk' /\ InTmp'
  <2>1. \A f \in db : \E i \in DOMAIN segs : f = segs[i] /\ ~Gone(i)
    BY <1>1, <1>2 DEF DInv, OnDisk
  <2>2. \A f \in db : f.id # active
    BY <1>2, <2>1, SegmentsAreOld
  <2>3. OnDisk'
    BY <1>1, <1>2, <2>1, <2>2 DEF DInv, OnDisk, Up, Gone
  <2> QED
    BY <1>1, <1>2, <2>3 DEF DInv, InTmp, Up
<1>5. Loadable'
  <2>1. \A m : m \in 1..clock => m \in 1..clock'
    BY <1>1, <1>2
  <2>2. \A f \in db : f.id \in 1..clock'
    BY <1>1, <2>1 DEF DInv, Loadable
  <2>3. \A m \in Memtables : wal[m] # Empty => m \in 1..clock'
    BY <1>1, <2>1 DEF DInv, Loadable
  <2> QED
    BY <1>1, <2>2, <2>3 DEF DInv, Loadable
<1>6. Ascending'
  BY <1>1, AscendingKept DEF DInv, Holds
<1>7. \A m, k, n : Survives(m, k, n)' <=> Survives(m, k, n)
  BY <1>1 DEF Survives, TakesOver
<1>8. Durable'
  BY <1>1, <1>7, DurableKept, UpTypes DEF DInv
<1> QED
  BY <1>3, <1>4, <1>5, <1>6, <1>8 DEF DInv

LEMMA WriteSegmentKeepsDInv ==
  ASSUME DInv, BInv', ~mishap, WriteSegment
  PROVE  DInv'
<1> DEFINE new == Segment(flushing, mem[flushing])
<1>1. /\ UNCHANGED <<phase, active, flushing, mem, segs, cpc, target, wal, tmp, clock, written,
                     logged, mishap>>
      /\ phase = "up" /\ fpc = "write" /\ fpc' = "dropLog" /\ db' = db \cup {new} /\ Up
  BY DEF WriteSegment, bounds, history, Up
<1>2. /\ flushing \in Memtables /\ flushing # 0 /\ wal[flushing] = mem[flushing]
      /\ \A f \in db : f.id # flushing
  BY <1>1, UpTypes DEF DInv, BInv, Layers, OnDisk
<1>3. new.id = flushing /\ new.kv = mem[flushing]
  BY DEF Segment
<1>4. new = Segment(flushing, mem[flushing])
  OBVIOUS
<1> HIDE DEF new
<1>5. Ordered' /\ InTmp'
  BY <1>1 DEF DInv, Ordered, InTmp, Up
<1>6. OnDisk'
  BY <1>1, <1>2, <1>4 DEF DInv, OnDisk, Up, Gone, Segment
<1>7. Loadable'
  <2>1. flushing \in 1..clock
    BY <1>1, <1>2, UpTypes DEF DInv, BInv, Layers, Ordered
  <2> QED
    BY <1>1, <1>2, <1>3, <2>1 DEF DInv, Loadable
<1>8. Ascending'
  BY <1>1, <1>3, AscendingKept DEF DInv, Holds
<1>9. TakesOver' <=> TakesOver
  BY <1>1, <1>3, TmpIsApart DEF TakesOver
<1>10. \A m \in Memtables, k \in Keys, n \in Writes : Survives(m, k, n)' <=> Survives(m, k, n)
  BY <1>1, <1>2, <1>3, <1>9, UpTypes DEF Survives
<1>11. Durable'
  BY <1>1, <1>10, DurableKept, UpTypes DEF DInv
<1> QED
  BY <1>5, <1>6, <1>7, <1>8, <1>11 DEF DInv

LEMMA DropLogKeepsDInv ==
  ASSUME DInv, BInv', ~mishap, DropLog
  PROVE  DInv'
<1>1. /\ UNCHANGED <<phase, active, flushing, mem, segs, cpc, target, db, tmp, clock, written,
                     logged, mishap>>
      /\ phase = "up" /\ fpc = "dropLog" /\ fpc' = "add" /\ wal' = [wal EXCEPT ![flushing] = Empty] /\ Up
  BY DEF DropLog, bounds, history, Up
<1>2. /\ flushing \in Memtables /\ flushing # 0 /\ wal[flushing] = mem[flushing]
      /\ Segment(flushing, mem[flushing]) \in db
  BY <1>1, UpTypes DEF DInv, BInv, Layers, OnDisk
<1>3. \A l \in Memtables : wal'[l] = IF l = flushing THEN Empty ELSE wal[l]
  BY <1>1 DEF DInv, BInv, TypeOK
<1>4. Ordered'
  <2>1. \A l \in Memtables, k \in Keys : wal'[l][k] <= mem[l][k]
    BY <1>1, <1>3, UpTypes DEF DInv, Ordered
  <2>2. \A l \in Memtables \ {active, flushing} : wal'[l] = Empty
    BY <1>1, <1>3 DEF DInv, Ordered
  <2> QED
    BY <1>1, <2>1, <2>2 DEF DInv, Ordered, Up
<1>5. OnDisk' /\ InTmp'
  <2>1. OnDisk'
    BY <1>1, <1>2, <1>3 DEF DInv, OnDisk, Up, Gone, Segment
  <2> QED
    BY <1>1, <2>1 DEF DInv, InTmp, Up
<1>6. Loadable'
  BY <1>1, <1>3 DEF DInv, Loadable
<1>7. Ascending'
  BY <1>1, <1>3, UpTypes, AscendingKept DEF DInv, Holds
<1>8. TakesOver' <=> TakesOver
  BY <1>1 DEF TakesOver
<1>9. ~(TakesOver /\ flushing = tmp.right)
  BY <1>1, TmpIsApart
<1>10. \A f \in db : f.id = flushing => f.kv = mem[flushing]
  <2>1. Segment(flushing, mem[flushing]).id = flushing
        /\ Segment(flushing, mem[flushing]).kv = mem[flushing]
    BY DEF Segment
  <2> QED
    BY <1>1, <1>2, <2>1 DEF DInv, Loadable, Up
<1>11. ASSUME NEW m \in Memtables, NEW k \in Keys, NEW n \in Writes
       PROVE  Survives(m, k, n)' <=> Survives(m, k, n)
  <2>1. CASE m # flushing
    BY <1>1, <1>3, <1>8, <2>1 DEF Survives
  <2>2. CASE m = flushing
    <3>1. Survives(flushing, k, n)' <=> n # 0 /\ mem[flushing][k] = n
      <4>1. wal'[flushing] = Empty /\ Empty[k] = 0
        BY <1>2, <1>3, UpTypes
      <4>2. Segment(flushing, mem[flushing]).id = flushing
            /\ Segment(flushing, mem[flushing]).kv = mem[flushing]
        BY DEF Segment
      <4> QED
        BY <1>1, <1>2, <1>8, <1>9, <1>10, <4>1, <4>2 DEF Survives
    <3>2. Survives(flushing, k, n) <=> n # 0 /\ mem[flushing][k] = n
      BY <1>2, <1>9, <1>10 DEF Survives
    <3>3. Survives(m, k, n)' <=> n # 0 /\ mem[flushing][k] = n
      BY <1>1, <2>2, <3>1 DEF Survives, TakesOver
    <3>4. Survives(m, k, n) <=> n # 0 /\ mem[flushing][k] = n
      BY <2>2, <3>2 DEF Survives
    <3> QED
      BY <3>3, <3>4
  <2> QED
    BY <2>1, <2>2
<1>12. Durable'
  BY <1>1, <1>11, DurableKept, UpTypes DEF DInv
<1> QED
  BY <1>4, <1>5, <1>6, <1>7, <1>12 DEF DInv

LEMMA AddSegmentKeepsDInv ==
  ASSUME DInv, BInv', ~mishap, AddSegment
  PROVE  DInv'
<1> DEFINE new == Segment(flushing, mem[flushing])
           n == Len(segs) + 1
<1>1. /\ UNCHANGED <<phase, active, cpc, target, wal, db, tmp, clock, written, logged, mishap>>
      /\ phase = "up" /\ fpc = "add" /\ fpc' = "idle" /\ flushing' = 0 /\ Up
      /\ segs' = Append(segs, new) /\ mem' = [mem EXCEPT ![flushing] = Empty]
  BY DEF AddSegment, disk, bounds, history, Up
<1>2. /\ flushing \in Memtables /\ flushing # 0 /\ flushing # active /\ wal[flushing] = Empty
      /\ new \in db /\ flushing < active /\ flushing \in Nat
  BY <1>1, UpTypes DEF DInv, BInv, Layers, OnDisk, Ordered
<1>3. new.id = flushing /\ new.kv = mem[flushing] /\ new \in Segments
  BY <1>2, UpTypes DEF Segment, DInv, BInv, TypeOK
<1>4. \A l \in Memtables : mem'[l] = IF l = flushing THEN Empty ELSE mem[l]
  BY <1>1 DEF DInv, BInv, TypeOK
<1>5. new = Segment(flushing, mem[flushing])
  OBVIOUS
<1> HIDE DEF new
<1>6. /\ DOMAIN segs' = 1..n /\ DOMAIN segs = 1..Len(segs) /\ Len(segs) \in Nat
      /\ \A i \in DOMAIN segs : segs'[i] = segs[i]
      /\ segs'[n] = new
  <2>1. segs \in Seq(Segments)
    BY DEF DInv, BInv, TypeOK
  <2> QED
    BY <1>1, <1>3, <2>1
<1>7. \A i \in DOMAIN segs' : i \in DOMAIN segs \/ i = n
  BY <1>6
<1>8. DOMAIN segs \subseteq DOMAIN segs' /\ n \in DOMAIN segs' /\ n \notin DOMAIN segs
      /\ \A i \in DOMAIN segs : i < n /\ ~(n < i)
  BY <1>6
<1> HIDE DEF n
<1>9. Ordered'
  <2>1. \A i, j \in DOMAIN segs' : i < j => segs'[i].id < segs'[j].id
    <3> SUFFICES ASSUME NEW i \in DOMAIN segs', NEW j \in DOMAIN segs', i < j
                 PROVE  segs'[i].id < segs'[j].id
      OBVIOUS
    <3>1. CASE i \in DOMAIN segs /\ j \in DOMAIN segs
      BY <1>1, <1>6, <3>1 DEF DInv, Ordered
    <3>2. CASE i \in DOMAIN segs /\ j = n
      BY <1>1, <1>2, <1>3, <1>6, <3>2 DEF DInv, Ordered
    <3>3. i # n
      BY <1>6, <1>7, <1>8
    <3> QED
      BY <1>7, <3>1, <3>2, <3>3
  <2>2. \A i \in DOMAIN segs' : segs'[i].id > 0 /\ segs'[i].id < active
    BY <1>1, <1>2, <1>3, <1>6, <1>7 DEF DInv, Ordered
  <2>3. \A l \in Memtables \ {active} : mem'[l] = Empty /\ wal[l] = Empty
    BY <1>1, <1>2, <1>4 DEF DInv, Ordered
  <2>4. \A l \in Memtables, k \in Keys : wal[l][k] <= mem'[l][k]
    BY <1>1, <1>2, <1>4, UpTypes DEF DInv, Ordered
  <2>5. active' = active /\ flushing' = 0 /\ 0 < active /\ wal' = wal
    BY <1>1, <1>2, UpTypes
  <2>6. \A l \in Memtables \ {active, 0} : mem'[l] = Empty /\ wal[l] = Empty
    BY <2>3
  <2> QED
    BY <2>1, <2>2, <2>4, <2>5, <2>6 DEF Ordered
<1>10. /\ cpc \in Merges => target \in DOMAIN segs /\ target + 1 \in DOMAIN segs
       /\ cpc \in Cleans => target \in DOMAIN segs
  BY TargetIsSegment
<1>11. ~Gone(n)
  BY <1>8, <1>10 DEF Gone, Merges, Cleans
<1>12. OnDisk'
  <2>1. ASSUME NEW f \in db
        PROVE  \E i \in DOMAIN segs' : f = segs'[i] /\ ~Gone(i)
    <3>1. f = new \/ \E i \in DOMAIN segs : f = segs[i] /\ ~Gone(i)
      BY <1>1, <1>5 DEF DInv, OnDisk
    <3> QED
      BY <1>6, <1>8, <1>11, <3>1
  <2>2. \A i \in DOMAIN segs' : ~Gone(i) => segs'[i] \in db
    BY <1>1, <1>2, <1>6, <1>7 DEF DInv, OnDisk
  <2>3. \A i : Gone(i)' <=> Gone(i)
    BY <1>1 DEF Gone
  <2> QED
    BY <1>1, <2>1, <2>2, <2>3 DEF OnDisk, Up
<1>13. InTmp'
  BY <1>1, <1>6, <1>10 DEF DInv, InTmp, Up
<1>14. Loadable'
  BY <1>1, SameFilesLoadable DEF DInv, SameFiles
<1>15. Ascending'
  <2>1. ASSUME NEW m \in Memtables, NEW k \in Keys, NEW b \in Writes, Holds(m, k, b)'
        PROVE  Holds(m, k, b)
    <3>1. b # 0 /\ Empty[k] = 0
      BY <2>1, UpTypes DEF Holds
    <3>2. mem'[m][k] = b => mem[m][k] = b
      BY <1>4, <3>1
    <3>3. ASSUME NEW i \in DOMAIN segs', segs'[i].id = m, segs'[i].kv[k] = b
          PROVE  Holds(m, k, b)
      BY <1>3, <1>6, <1>7, <3>1, <3>3 DEF Holds
    <3> QED
      BY <1>1, <2>1, <3>2, <3>3 DEF Holds
  <2> QED
    BY <1>1, <2>1, AscendingKept DEF DInv
<1>16. Durable'
  <2>1. \A m, k, b : Survives(m, k, b)' <=> Survives(m, k, b)
    BY <1>1, SameFilesSurvive DEF SameFiles
  <2>2. \A m \in Memtables, k \in Keys : mem'[m][k] = mem[m][k] \/ mem'[m][k] = 0
    BY <1>4, UpTypes
  <2> QED
    BY <1>1, <2>1, <2>2, DurableKept, UpTypes DEF DInv
<1> QED
  BY <1>9, <1>12, <1>13, <1>14, <1>15, <1>16 DEF DInv

----------------------------------------------------------------------------
(* The compaction cycle *)

Unmarked == {"idle", "compact", "compacted", "clean", "cleaned"}

\* Until the first file is marked for deletion, the temporary one does not count.
LEMMA UnmarkedTakesNotOver ==
  ASSUME DInv, Up, cpc \in Unmarked
  PROVE  ~TakesOver /\ \A i \in DOMAIN segs : ~Gone(i) /\ segs[i] \in db
<1>1. \A i \in DOMAIN segs : ~Gone(i)
  BY DEF Gone, Unmarked
<1>2. \A i \in DOMAIN segs : segs[i] \in db
  BY <1>1 DEF DInv, OnDisk
<1>3. tmp.left = tmp.right \/ \E f \in db : f.id = tmp.left
  <2>1. CASE cpc \in Merges
    BY <1>2, <2>1, TargetIsSegment DEF DInv, InTmp
  <2>2. CASE cpc \in Cleans
    BY <2>2 DEF DInv, InTmp
  <2>3. CASE cpc = "idle"
    BY <2>3 DEF DInv, InTmp, NoTmp
  <2> QED
    BY <2>1, <2>2, <2>3 DEF Unmarked, Merges, Cleans
<1>4. ~TakesOver
  BY <1>3 DEF TakesOver, Unmarked
<1> QED
  BY <1>1, <1>2, <1>4

\* The temporary file is made or written.
LEMMA TmpKeepsDInv ==
  ASSUME DInv, BInv', Up, cpc \in Unmarked, cpc' \in Unmarked, InTmp', Ascending',
         UNCHANGED <<phase, active, flushing, mem, segs, fpc, wal, db, clock, written, logged,
                     mishap>>,
         tmp'.left = tmp'.right \/ \E f \in db : f.id = tmp'.left
  PROVE  DInv'
<1>1. Ordered'
  BY DEF DInv, Ordered, Up
<1>2. \A i : Gone(i)' <=> Gone(i)
  BY DEF Gone, Unmarked
<1>3. OnDisk'
  BY <1>2 DEF DInv, OnDisk, Up, Segment
<1>4. Loadable'
  BY DEF DInv, Loadable, Up
<1>5. ~TakesOver /\ ~TakesOver'
  BY UnmarkedTakesNotOver DEF TakesOver, Unmarked
<1>6. \A m \in Memtables, k \in Keys, n \in Writes : Survives(m, k, n)' <=> Survives(m, k, n)
  BY <1>5 DEF Survives
<1>7. Durable'
  BY <1>6, DurableKept, UpTypes DEF DInv
<1> QED
  BY <1>1, <1>3, <1>4, <1>7 DEF DInv

LEMMA StartCompactionKeepsDInv ==
  ASSUME DInv, BInv', ~mishap, NEW i \in 1..Len(segs), StartCompaction(i)
  PROVE  DInv'
<1>1. /\ UNCHANGED <<phase, active, flushing, mem, segs, fpc, wal, db, clock, written, logged,
                     mishap>>
      /\ Up /\ cpc = "idle" /\ cpc' = "compact" /\ target' = i
      /\ tmp' = [left |-> segs[i].id, right |-> segs[i + 1].id, level |-> CompactedLevel(i),
                 kv |-> Empty, done |-> FALSE]
  BY DEF StartCompaction, bounds, history, Up
<1>2. i \in DOMAIN segs
  BY FiledAreSegments DEF DInv
<1>3. cpc \in Unmarked /\ cpc' \in Unmarked
  BY <1>1 DEF Unmarked
<1>4. InTmp'
  BY <1>1 DEF InTmp, Merges, Cleans
<1>5. Ascending'
  <2>1. \A m \in Memtables, k \in Keys, n \in Writes : Holds(m, k, n)' => Holds(m, k, n)
    BY <1>1, UpTypes DEF Holds
  <2> QED
    BY <1>1, <2>1, AscendingKept DEF DInv
<1>6. \E f \in db : f.id = tmp'.left
  BY <1>1, <1>2, <1>3, UnmarkedTakesNotOver
<1> QED
  BY <1>1, <1>3, <1>4, <1>5, <1>6, TmpKeepsDInv

LEMMA StartCleanupKeepsDInv ==
  ASSUME DInv, BInv', ~mishap, NEW i \in 1..Len(segs), NEW from, StartCleanup(i, from)
  PROVE  DInv'
<1>1. /\ UNCHANGED <<phase, active, flushing, mem, segs, fpc, wal, db, clock, written, logged,
                     mishap>>
      /\ Up /\ cpc = "idle" /\ cpc' = "clean" /\ target' = i
      /\ tmp'.left = segs[i].id /\ tmp'.right = segs[i].id
      /\ tmp'.kv = [k \in Keys |-> IF \E j \in from..Len(segs) : segs[j].kv[k] # 0
                                   THEN 0 ELSE segs[i].kv[k]]
  BY DEF StartCleanup, bounds, history, Up
<1>2. i \in DOMAIN segs
  BY FiledAreSegments DEF DInv
<1>3. cpc \in Unmarked /\ cpc' \in Unmarked
  BY <1>1 DEF Unmarked
<1>4. InTmp'
  BY <1>1 DEF InTmp, Merges, Cleans
<1>5. Ascending'
  <2>1. \A k \in Keys : tmp'.kv[k] = 0 \/ tmp'.kv[k] = segs[i].kv[k]
    BY <1>1
  <2>2. \A m \in Memtables, k \in Keys, n \in Writes : Holds(m, k, n)' => Holds(m, k, n)
    BY <1>1, <1>2, <2>1 DEF Holds
  <2> QED
    BY <1>1, <2>2, AscendingKept DEF DInv
<1> QED
  BY <1>1, <1>3, <1>4, <1>5, TmpKeepsDInv

LEMMA WriteCleanedKeepsDInv ==
  ASSUME DInv, BInv', ~mishap, WriteCleaned
  PROVE  DInv'
<1>1. /\ UNCHANGED <<phase, active, flushing, mem, segs, target, fpc, wal, db, clock, written,
                     logged, mishap>>
      /\ Up /\ cpc = "clean" /\ cpc' = "cleaned"
      /\ tmp'.left = tmp.left /\ tmp'.right = tmp.right /\ tmp'.kv = tmp.kv
  BY UpTypes DEF WriteCleaned, bounds, history, Up, Tmps
<1>2. cpc \in Unmarked /\ cpc' \in Unmarked
  BY <1>1 DEF Unmarked
<1>3. InTmp'
  BY <1>1 DEF DInv, InTmp, Merges, Cleans, Up
<1>4. Ascending'
  BY <1>1, AscendingKept DEF DInv, Holds
<1>5. tmp'.left = tmp'.right
  BY <1>1 DEF DInv, InTmp, Cleans
<1> QED
  BY <1>1, <1>2, <1>3, <1>4, <1>5, TmpKeepsDInv

\* The compacted segment has the name of the newer source, and entries of both.
LEMMA WriteCompactedKeepsDInv ==
  ASSUME DInv, BInv', ~mishap, WriteCompacted
  PROVE  DInv'
<1> DEFINE old == segs[target]
           new == segs[target + 1]
<1>1. /\ UNCHANGED <<phase, active, flushing, mem, segs, target, fpc, wal, db, clock, written,
                     logged, mishap>>
      /\ Up /\ cpc = "compact" /\ cpc' = "compacted"
      /\ tmp'.left = tmp.left /\ tmp'.right = tmp.right /\ tmp'.done
  BY UpTypes DEF WriteCompacted, bounds, history, Up, Tmps
<1>2. /\ cpc \in Unmarked /\ cpc' \in Unmarked
      /\ cpc \in Merges /\ cpc' \notin {"idle", "compact"} \cup Cleans
  BY <1>1 DEF Unmarked, Merges, Cleans
<1>3. /\ target \in DOMAIN segs /\ target + 1 \in DOMAIN segs /\ target \in Nat
      /\ target < target + 1 /\ tmp.left = old.id /\ tmp.right = new.id
      /\ old.id \in Memtables /\ new.id \in Memtables /\ old.id \in Nat /\ new.id \in Nat
  BY <1>1, <1>2, TargetIsSegment, UpTypes DEF DInv, InTmp
<1>4. old.id < new.id
  BY <1>1, <1>3 DEF DInv, Ordered
<1>5. \A k \in Keys : tmp'.kv[k] \in {0, new.kv[k], old.kv[k]}
  BY <1>1, <1>3 DEF BInv, Merging
<1> HIDE DEF old, new
<1>6. InTmp'
  BY <1>1, <1>2 DEF DInv, InTmp, Up
<1>7. ASSUME NEW k \in Keys
      PROVE  /\ old.kv[k] # 0 => Holds(old.id, k, old.kv[k])
             /\ new.kv[k] # 0 => Holds(new.id, k, new.kv[k])
  BY <1>3 DEF Holds, old, new
<1>8. ASSUME NEW m \in Memtables, NEW k \in Keys, NEW n \in Writes, Holds(m, k, n)'
      PROVE  Holds(m, k, n) \/ (m = new.id /\ n = old.kv[k] /\ n # 0)
  <2>1. n # 0 /\ (tmp'.right = m /\ tmp'.kv[k] = n => m = new.id /\ n \in {new.kv[k], old.kv[k]})
    BY <1>1, <1>3, <1>5, <1>8 DEF Holds
  <2> QED
    BY <1>1, <1>7, <1>8, <2>1 DEF Holds
<1>9. Ascending'
  <2> SUFFICES ASSUME NEW m \in Memtables, NEW l \in Memtables, NEW k \in Keys,
                      NEW a \in Writes, NEW b \in Writes,
                      m < l, Holds(m, k, a)', Holds(l, k, b)'
               PROVE  a <= b
    BY DEF Ascending
  <2>1. m \in Nat /\ l \in Nat /\ a \in Nat /\ b \in Nat
    BY DEF Memtables, Writes
  <2>2. \A x, y \in Memtables, c, d \in Writes : x < y /\ Holds(x, k, c) /\ Holds(y, k, d) => c <= d
    BY <1>1 DEF DInv, Ascending, Up
  <2>3. CASE Holds(m, k, a) /\ Holds(l, k, b)
    BY <2>2, <2>3
  <2>4. CASE m = new.id /\ a = old.kv[k] /\ a # 0 /\ Holds(l, k, b)
    <3>1. old.id < l
      BY <1>3, <1>4, <2>1, <2>4
    <3> QED
      BY <1>3, <1>7, <2>2, <2>4, <3>1
  <2>5. CASE Holds(m, k, a) /\ l = new.id /\ b = old.kv[k] /\ b # 0
    <3>1. PICK j \in DOMAIN segs : segs[j].id = m
      <4>1. new.id < active /\ (flushing # 0 => new.id < flushing) /\ active \in Nat /\ flushing \in Nat
        BY <1>1, <1>3, UpTypes DEF DInv, Ordered, new
      <4>2. m # active /\ (flushing # 0 => m # flushing)
        BY <1>3, <2>1, <2>5, <4>1
      <4> QED
        BY <1>1, <2>5, <4>2, HoldsWhere
    <3>2. ~(j > target + 1) /\ j # target + 1 /\ j \in Nat
      <4>1. j \in Nat
        BY UpTypes
      <4>2. j > target + 1 => new.id < m
        BY <1>1, <1>3, <3>1, <4>1 DEF DInv, Ordered, new
      <4>3. j # target + 1
        BY <1>3, <2>1, <2>5, <3>1 DEF new
      <4> QED
        BY <1>3, <2>1, <2>5, <4>1, <4>2, <4>3
    <3>3. j < target \/ j = target
      BY <1>3, <3>2
    <3>4. CASE j < target
      <4>1. m < old.id
        BY <1>1, <1>3, <3>1, <3>4 DEF DInv, Ordered, old
      <4> QED
        BY <1>3, <1>7, <2>2, <2>5, <4>1
    <3>5. CASE j = target
      <4>1. a = old.kv[k]
        BY <1>1, <1>3, <1>4, <2>5, <3>1, <3>5, SegmentHolds DEF old
      <4> QED
        BY <2>1, <2>5, <4>1
    <3> QED
      BY <3>3, <3>4, <3>5
  <2> QED
    BY <1>8, <2>1, <2>3, <2>4, <2>5
<1>10. \E f \in db : f.id = tmp'.left
  BY <1>1, <1>2, <1>3, UnmarkedTakesNotOver DEF old
<1> QED
  BY <1>1, <1>2, <1>6, <1>9, <1>10, TmpKeepsDInv

\* A file that the temporary one stands for is marked for deletion.
LEMMA MarkKeepsFiles ==
  ASSUME DInv, BInv', Up, NEW i \in DOMAIN segs, db' = db \ {segs[i]},
         UNCHANGED <<phase, active, flushing, mem, segs, fpc, wal, tmp, clock, mishap>>,
         \A j \in DOMAIN segs : Gone(j)' <=> Gone(j) \/ j = i
  PROVE  Ordered' /\ OnDisk' /\ Loadable' /\ Ascending'
<1>1. Ordered'
  BY DEF DInv, Ordered, Up
<1>2. segs[i].id # flushing /\ \A j \in DOMAIN segs : j # i => segs[j].id # segs[i].id
  BY SegmentsAreOld
<1>3. OnDisk'
  <2>1. \A f \in db' : \/ \E j \in DOMAIN segs : f = segs[j] /\ ~Gone(j)'
                       \/ flushing # 0 /\ f = Segment(flushing, mem[flushing])
    BY DEF DInv, OnDisk
  <2>2. \A j \in DOMAIN segs : ~Gone(j)' => segs[j] \in db'
    BY <1>2 DEF DInv, OnDisk
  <2>3. Segment(flushing, mem[flushing]) \in db => Segment(flushing, mem[flushing]) \in db'
    BY <1>2 DEF Segment
  <2>4. UNCHANGED Segment(flushing, mem[flushing])
    BY DEF Segment
  <2> QED
    BY <2>1, <2>2, <2>3, <2>4 DEF DInv, OnDisk, Up
<1>4. Loadable'
  BY DEF DInv, Loadable, Up
<1>5. Ascending'
  BY AscendingKept DEF DInv, Holds
<1> QED
  BY <1>1, <1>3, <1>4, <1>5

\* The segments of the oldest pair are older than anything else.
LEMMA OldestAreOlder ==
  ASSUME DInv, Up, target = 1, 1 \in DOMAIN segs, 2 \in DOMAIN segs,
         NEW m \in Memtables, NEW k \in Keys, NEW n \in Writes, Holds(m, k, n),
         m # segs[1].id, m # segs[2].id
  PROVE  segs[1].id < m /\ segs[2].id < m
<1>1. segs[1].id < active /\ segs[2].id < active
      /\ (flushing # 0 => segs[1].id < flushing /\ segs[2].id < flushing)
  BY DEF DInv, Ordered
<1>2. ASSUME NEW j \in DOMAIN segs, segs[j].id = m
      PROVE  segs[1].id < m /\ segs[2].id < m
  <2>1. j \in Nat /\ j # 0 /\ j # 1 /\ j # 2
    BY <1>2, FiledAreSegments DEF DInv
  <2>2. 1 < j /\ 2 < j
    BY <2>1
  <2> QED
    BY <1>2, <2>2 DEF DInv, Ordered
<1> QED
  BY <1>1, <1>2, HoldsWhere

LEMMA MarkLeftKeepsDInv ==
  ASSUME DInv, BInv', ~mishap, MarkLeft
  PROVE  DInv'
<1> DEFINE L == segs[target].id
           R == segs[target + 1].id
<1>1. /\ UNCHANGED <<phase, active, flushing, mem, segs, target, fpc, wal, tmp, clock, written,
                     logged, mishap>>
      /\ Up /\ cpc = "compacted" /\ cpc' = "markedLeft" /\ db' = db \ {segs[target]}
  BY DEF MarkLeft, bounds, history, Up
<1>2. cpc \in Merges /\ cpc \in Unmarked /\ cpc' \in Merges
      /\ cpc' \notin {"idle", "compact"} \cup Cleans
  BY <1>1 DEF Unmarked, Merges, Cleans
<1>3. /\ target \in DOMAIN segs /\ target + 1 \in DOMAIN segs /\ target \in Nat /\ target < target + 1
      /\ tmp.left = L /\ tmp.right = R /\ L \in Memtables /\ R \in Memtables /\ L \in Nat /\ R \in Nat
      /\ segs[target] \in db /\ segs[target + 1] \in db
  BY <1>1, <1>2, TargetIsSegment, UpTypes, UnmarkedTakesNotOver DEF DInv, InTmp
<1>4. /\ L < R /\ wal[L] = Empty /\ wal[R] = Empty /\ mem[L] = Empty /\ mem[R] = Empty
  BY <1>1, <1>3, SegmentsAreOld DEF DInv, Ordered
<1>5. Ordered' /\ OnDisk' /\ Loadable' /\ Ascending'
  BY <1>1, <1>3, MarkKeepsFiles DEF Gone
<1>6. InTmp'
  BY <1>1, <1>2 DEF DInv, InTmp, Up, Merges, Cleans
<1>7. \A f \in db : /\ f.id = L <=> f = segs[target]
                    /\ f.id = R <=> f = segs[target + 1]
  BY <1>1, <1>3, <1>4 DEF DInv, Loadable, Up
<1>8. ~TakesOver /\ TakesOver' /\ tmp'.right = R
  BY <1>1, <1>2, <1>3, <1>4, <1>7, UnmarkedTakesNotOver DEF TakesOver
<1>9. ASSUME NEW k \in Keys, NEW n
      PROVE  /\ Survives(L, k, n) <=> n # 0 /\ segs[target].kv[k] = n
             /\ Survives(R, k, n) <=> n # 0 /\ segs[target + 1].kv[k] = n
             /\ ~Survives(L, k, n)'
             /\ Survives(R, k, n)' <=> n # 0 /\ tmp.kv[k] = n
             /\ \A m \in Memtables : m # L /\ m # R => (Survives(m, k, n)' <=> Survives(m, k, n))
  <2>1. Empty[k] = 0
    BY UpTypes
  <2>2. /\ Survives(L, k, n) <=> n # 0 /\ segs[target].kv[k] = n
        /\ Survives(R, k, n) <=> n # 0 /\ segs[target + 1].kv[k] = n
    BY <1>3, <1>4, <1>7, <1>8, <2>1 DEF Survives
  <2>3. /\ ~Survives(L, k, n)'
        /\ Survives(R, k, n)' <=> n # 0 /\ tmp.kv[k] = n
    BY <1>1, <1>3, <1>4, <1>7, <1>8, <2>1 DEF Survives
  <2>4. \A m \in Memtables : m # L /\ m # R => (Survives(m, k, n)' <=> Survives(m, k, n))
    BY <1>1, <1>3, <1>8 DEF Survives
  <2> QED
    BY <2>2, <2>3, <2>4
<1>10. Durable'
  <2> SUFFICES ASSUME NEW k \in Keys
               PROVE  /\ logged[k] <= Len(written)
                      /\ \A m \in Memtables, n \in Writes : Survives(m, k, n)' => n <= logged[k]
                      /\ Survived(k)' \/ DeletedForGood(k)'
    BY <1>1 DEF Durable
  <2> DEFINE l == segs[target].kv[k]
             r == segs[target + 1].kv[k]
             t == tmp.kv[k]
  <2>1. /\ logged[k] <= Len(written)
        /\ \A m \in Memtables, n \in Writes : Survives(m, k, n) => n <= logged[k]
        /\ Survived(k) \/ DeletedForGood(k)
    BY <1>1 DEF DInv, Durable, Up
  <2>2. /\ r # 0 => t = r \/ (target = 1 /\ t = 0 /\ Value(r) = 0)
        /\ r = 0 => t = l \/ (target = 1 /\ t = 0 /\ Value(l) = 0)
    BY <1>1 DEF DInv, BInv, Merging
  <2>3. l \in Writes /\ r \in Writes /\ t \in Writes /\ logged[k] \in Writes
    BY <1>3, UpTypes DEF Contents
  <2>4. Writes \subseteq Nat
    BY DEF Writes
  <2>5. (Value(logged[k]) = 0)' <=> Value(logged[k]) = 0
    BY <1>1 DEF Value
  <2>6. l # 0 /\ r # 0 => l <= r
    <3>1. /\ l # 0 => Holds(L, k, l)
          /\ r # 0 => Holds(R, k, r)
      BY <1>3 DEF Holds
    <3> QED
      BY <1>1, <1>3, <1>4, <2>3, <3>1 DEF DInv, Ascending, Up
  <2>7. /\ Survives(L, k, l) <=> l # 0
        /\ Survives(R, k, r) <=> r # 0
        /\ Survives(R, k, t)' <=> t # 0
    <3>1. Survives(L, k, l) <=> l # 0
      BY <1>9
    <3>2. Survives(R, k, r) <=> r # 0
      BY <1>9
    <3>3. Survives(R, k, t)' <=> t # 0
      BY <1>1, <1>3, <1>4, <1>8, UpTypes DEF Survives
    <3> QED
      BY <3>1, <3>2, <3>3
  <2>8. \A m \in Memtables, n \in Writes : Survives(m, k, n)' => n <= logged[k]
    <3> SUFFICES ASSUME NEW m \in Memtables, NEW n \in Writes, Survives(m, k, n)'
                 PROVE  n <= logged[k]
      OBVIOUS
    <3>1. CASE m # L /\ m # R
      BY <1>9, <2>1, <3>1
    <3>2. CASE m = L
      <4>1. Survives(L, k, n)'
        BY <1>1, <3>2 DEF Survives, TakesOver
      <4> QED
        BY <1>9, <4>1
    <3>3. CASE m = R
      <4>1. Survives(R, k, n)'
        BY <1>1, <3>3 DEF Survives, TakesOver
      <4>2. n # 0 /\ t = n
        BY <1>9, <4>1
      <4> QED
        BY <1>3, <2>1, <2>2, <2>3, <2>7, <4>2
    <3> QED
      BY <3>1, <3>2, <3>3
  <2>9. CASE Survived(k)
    <3>1. PICK m \in Memtables : Survives(m, k, logged[k])
      BY <2>9 DEF Survived
    <3>2. PICK n \in Writes : n = logged[k]
      BY <2>3
    <3>3. n # 0 /\ Survives(m, k, n)
      BY <3>1, <3>2 DEF Survives
    <3>4. CASE m # L /\ m # R
      <4>1. Survives(m, k, n)'
        BY <1>9, <3>3, <3>4
      <4>2. Survived(k)'
        BY <1>1, <3>2, <4>1 DEF Survived, Survives, TakesOver
      <4> QED
        BY <2>1, <2>8, <4>2
    <3>5. CASE m = L \/ m = R
      <4>1. l = n \/ r = n
        BY <1>9, <3>3, <3>5
      <4>2. t = n \/ (target = 1 /\ t = 0 /\ Value(n) = 0)
        <5>1. CASE r = 0
          BY <2>2, <3>3, <4>1, <5>1
        <5>2. CASE r # 0
          <6>1. r <= n
            BY <1>3, <2>1, <2>3, <2>7, <3>2, <5>2
          <6>2. r = n
            BY <2>3, <2>4, <2>6, <3>3, <4>1, <5>2, <6>1
          <6> QED
            BY <2>2, <5>2, <6>2
        <5> QED
          BY <5>1, <5>2
      <4>3. CASE t = n
        <5>1. Survives(R, k, logged[k])'
          BY <1>1, <2>7, <3>2, <3>3, <4>3 DEF Survives, TakesOver
        <5>2. PICK x \in Memtables : x = R
          BY <1>3
        <5>3. Survives(x, k, logged[k])'
          BY <1>1, <5>1, <5>2 DEF Survives, TakesOver
        <5> QED
          BY <2>1, <2>8, <5>3 DEF Survived
      <4>4. CASE target = 1 /\ t = 0 /\ Value(n) = 0
        <5>1. 1 \in DOMAIN segs /\ 2 \in DOMAIN segs /\ L = segs[1].id /\ R = segs[2].id
          BY <1>3, <4>4
        <5>2. Holds(m, k, n) /\ m \in Nat /\ n \in Nat
          BY <1>3, <2>4, <3>3, <3>5, <4>1, <1>9 DEF Holds
        <5>3. ASSUME NEW x \in Memtables, NEW b \in Writes, Holds(x, k, b), x # L, x # R
              PROVE  n <= b
          <6>1. m < x
            BY <1>1, <3>5, <4>4, <5>1, <5>3, OldestAreOlder
          <6> QED
            BY <1>1, <5>2, <5>3, <6>1 DEF DInv, Ascending, Up
        <5>4. CASE \E x \in Memtables, b \in Writes : Survives(x, k, b)'
          <6>1. PICK x \in Memtables, b \in Writes : Survives(x, k, b)'
            BY <5>4
          <6>2. x # L /\ x # R
            <7>1. ~Survives(L, k, b)' /\ ~Survives(R, k, b)'
              BY <1>9, <4>4
            <7>2. x = L => Survives(L, k, b)'
              BY <1>1, <6>1 DEF Survives, TakesOver
            <7>3. x = R => Survives(R, k, b)'
              BY <1>1, <6>1 DEF Survives, TakesOver
            <7> QED
              BY <7>1, <7>2, <7>3
          <6>3. Survives(x, k, b)
            BY <1>9, <6>1, <6>2
          <6>4. Holds(x, k, b)
            BY <1>8, <6>3 DEF Survives, Holds
          <6>5. b = n
            BY <2>1, <2>4, <3>2, <5>3, <6>2, <6>3, <6>4
          <6>6. Survives(x, k, logged[k])'
            BY <1>1, <3>2, <6>1, <6>5 DEF Survives, TakesOver
          <6> QED
            BY <2>1, <2>8, <6>6 DEF Survived
        <5>5. CASE \A x \in Memtables, b \in Writes : ~Survives(x, k, b)'
          <6>1. \A x \in Memtables : mem[x][k] = 0 \/ mem[x][k] >= logged[k]
            <7> SUFFICES ASSUME NEW x \in Memtables, mem[x][k] # 0
                         PROVE  mem[x][k] >= logged[k]
              OBVIOUS
            <7>1. Holds(x, k, mem[x][k]) /\ mem[x][k] \in Writes /\ x # L /\ x # R
              BY <1>4, UpTypes DEF Holds
            <7> QED
              BY <2>4, <3>2, <5>3, <7>1
          <6>2. DeletedForGood(k)'
            BY <1>1, <2>5, <3>2, <4>4, <5>5, <6>1 DEF DeletedForGood
          <6> QED
            BY <2>1, <2>8, <6>2
        <5> QED
          BY <5>4, <5>5
      <4> QED
        BY <4>2, <4>3, <4>4
    <3> QED
      BY <3>4, <3>5
  <2>10. CASE DeletedForGood(k)
    <3>1. l = 0 /\ r = 0 /\ t = 0
      BY <1>3, <2>2, <2>3, <2>7, <2>10 DEF DeletedForGood
    <3>2. ASSUME NEW x \in Memtables, NEW b \in Writes, Survives(x, k, b)'
          PROVE  FALSE
      <4>1. CASE x # L /\ x # R
        BY <1>9, <2>10, <3>2, <4>1 DEF DeletedForGood
      <4>2. CASE x = L
        <5>1. Survives(L, k, b)'
          BY <1>1, <3>2, <4>2 DEF Survives, TakesOver
        <5> QED
          BY <1>9, <5>1
      <4>3. CASE x = R
        <5>1. Survives(R, k, b)'
          BY <1>1, <3>2, <4>3 DEF Survives, TakesOver
        <5> QED
          BY <1>9, <3>1, <5>1
      <4> QED
        BY <4>1, <4>2, <4>3
    <3>3. DeletedForGood(k)'
      BY <1>1, <2>5, <2>10, <3>2 DEF DeletedForGood
    <3> QED
      BY <2>1, <2>8, <3>3
  <2> QED
    BY <2>1, <2>9, <2>10
<1> QED
  BY <1>5, <1>6, <1>10 DEF DInv

LEMMA MarkRightKeepsDInv ==
  ASSUME DInv, BInv', ~mishap, MarkRight
  PROVE  DInv'
<1> DEFINE L == segs[target].id
           R == segs[target + 1].id
<1>1. /\ UNCHANGED <<phase, active, flushing, mem, segs, target, fpc, wal, tmp, clock, written,
                     logged, mishap>>
      /\ Up /\ cpc = "markedLeft" /\ cpc' = "markedBoth" /\ db' = db \ {segs[target + 1]}
  BY DEF MarkRight, bounds, history, Up
<1>2. cpc \in Merges /\ cpc' \in Merges /\ cpc \notin {"idle", "compact"} \cup Cleans
      /\ cpc' \notin {"idle", "compact"} \cup Cleans
  BY <1>1 DEF Merges, Cleans
<1>3. /\ target \in DOMAIN segs /\ target + 1 \in DOMAIN segs /\ target \in Nat /\ target < target + 1
      /\ tmp.left = L /\ tmp.right = R /\ L \in Memtables /\ R \in Memtables /\ L \in Nat /\ R \in Nat
  BY <1>1, <1>2, TargetIsSegment, UpTypes DEF DInv, InTmp
<1>4. L < R
  BY <1>1, <1>3 DEF DInv, Ordered
<1>5. Ordered' /\ OnDisk' /\ Loadable' /\ Ascending'
  BY <1>1, <1>3, MarkKeepsFiles DEF Gone
<1>6. InTmp'
  BY <1>1, <1>2 DEF DInv, InTmp, Up, Merges, Cleans
<1>7. \A f \in db : f.id # L
  BY <1>1, <1>3, FilesAreOld, SegmentsAreOld DEF Gone
<1>8. TakesOver /\ TakesOver' /\ tmp'.right = R
  BY <1>1, <1>3, <1>4, <1>7 DEF TakesOver
<1>9. \A m \in Memtables, k \in Keys, n \in Writes : Survives(m, k, n)' <=> Survives(m, k, n)
  BY <1>1, <1>3, <1>8 DEF Survives
<1>10. Durable'
  BY <1>1, <1>9, DurableKept, UpTypes DEF DInv
<1> QED
  BY <1>5, <1>6, <1>10 DEF DInv

\* What is left out of a cleaned segment is in the file of a newer one.
LEMMA MarkCleanedKeepsDInv ==
  ASSUME DInv, BInv', ~mishap, MarkCleaned
  PROVE  DInv'
<1> DEFINE S == segs[target].id
<1>1. /\ UNCHANGED <<phase, active, flushing, mem, segs, target, fpc, wal, tmp, clock, written,
                     logged, mishap>>
      /\ Up /\ cpc = "cleaned" /\ cpc' = "marked" /\ db' = db \ {segs[target]}
  BY DEF MarkCleaned, bounds, history, Up
<1>2. cpc \in Cleans /\ cpc' \in Cleans /\ cpc \in Unmarked
      /\ cpc \notin {"idle"} \cup Merges /\ cpc' \notin {"idle"} \cup Merges
  BY <1>1 DEF Merges, Cleans, Unmarked
<1>3. /\ target \in DOMAIN segs /\ target \in Nat /\ target # target + 1
      /\ tmp.left = S /\ tmp.right = S /\ S \in Memtables /\ S \in Nat /\ segs[target] \in db
  BY <1>1, <1>2, TargetIsSegment, UpTypes, UnmarkedTakesNotOver DEF DInv, InTmp
<1>4. wal[S] = Empty
  BY <1>1, <1>3, SegmentsAreOld
<1>5. Ordered' /\ OnDisk' /\ Loadable' /\ Ascending'
  BY <1>1, <1>3, MarkKeepsFiles DEF Gone
<1>6. InTmp'
  BY <1>1, <1>2 DEF DInv, InTmp, Up, Merges, Cleans
<1>7. \A f \in db : f.id = S <=> f = segs[target]
  BY <1>1, <1>3 DEF DInv, Loadable, Up
<1>8. ~TakesOver /\ TakesOver' /\ tmp'.right = S
  BY <1>1, <1>2, <1>3, UnmarkedTakesNotOver DEF TakesOver
<1>9. ASSUME NEW k \in Keys, NEW n
      PROVE  /\ Survives(S, k, n) <=> n # 0 /\ segs[target].kv[k] = n
             /\ Survives(S, k, n)' <=> n # 0 /\ tmp.kv[k] = n
             /\ \A m \in Memtables : m # S => (Survives(m, k, n)' <=> Survives(m, k, n))
  <2>1. Empty[k] = 0
    BY UpTypes
  <2>2. Survives(S, k, n) <=> n # 0 /\ segs[target].kv[k] = n
    BY <1>3, <1>4, <1>7, <1>8, <2>1 DEF Survives
  <2>3. Survives(S, k, n)' <=> n # 0 /\ tmp.kv[k] = n
    BY <1>1, <1>3, <1>4, <1>7, <1>8, <2>1 DEF Survives
  <2>4. \A m \in Memtables : m # S => (Survives(m, k, n)' <=> Survives(m, k, n))
    BY <1>1, <1>3, <1>8 DEF Survives
  <2> QED
    BY <2>2, <2>3, <2>4
<1>10. ASSUME NEW m \in Memtables, NEW k \in Keys, NEW n, Survives(m, k, n)'
       PROVE  Survives(m, k, n)
  <2>1. CASE m # S
    BY <1>9, <1>10, <2>1
  <2>2. CASE m = S
    <3>1. Survives(S, k, n)'
      BY <1>1, <1>10, <2>2 DEF Survives, TakesOver
    <3>2. n # 0 /\ tmp.kv[k] = n
      BY <1>9, <3>1
    <3>3. segs[target].kv[k] = n
      BY <1>1, <3>2 DEF DInv, BInv, Cleaning
    <3>4. Survives(S, k, n)
      BY <1>9, <3>2, <3>3
    <3> QED
      BY <2>2, <3>4 DEF Survives
  <2> QED
    BY <2>1, <2>2
<1>11. Durable'
  <2> SUFFICES ASSUME NEW k \in Keys
               PROVE  /\ logged[k] <= Len(written)
                      /\ \A m \in Memtables, n \in Writes : Survives(m, k, n)' => n <= logged[k]
                      /\ Survived(k)' \/ DeletedForGood(k)'
    BY <1>1 DEF Durable
  <2>1. /\ logged[k] <= Len(written)
        /\ \A m \in Memtables, n \in Writes : Survives(m, k, n) => n <= logged[k]
        /\ Survived(k) \/ DeletedForGood(k)
    BY <1>1 DEF DInv, Durable, Up
  <2>2. \A m \in Memtables, n \in Writes : Survives(m, k, n)' => n <= logged[k]
    BY <1>10, <2>1
  <2>3. (Value(logged[k]) = 0)' <=> Value(logged[k]) = 0
    BY <1>1 DEF Value
  <2>4. CASE Survived(k)
    <3>1. PICK m \in Memtables : Survives(m, k, logged[k])
      BY <2>4 DEF Survived
    <3>2. PICK n \in Writes : n = logged[k]
      BY UpTypes
    <3>3. n # 0 /\ Survives(m, k, n) /\ n \in Nat
      BY <3>1, <3>2 DEF Survives, Writes
    <3>4. CASE Survives(m, k, n)'
      <4>1. Survives(m, k, logged[k])'
        BY <1>1, <3>2, <3>4 DEF Survives, TakesOver
      <4> QED
        BY <2>1, <2>2, <4>1 DEF Survived
    <3>5. CASE ~Survives(m, k, n)'
      <4>1. m = S
        BY <1>9, <3>3, <3>5
      <4>2. segs[target].kv[k] = n
        BY <1>9, <3>3, <4>1
      <4>3. tmp.kv[k] # n
        <5>1. tmp.kv[k] = n => Survives(S, k, n)'
          BY <1>9, <3>3
        <5>2. Survives(S, k, n)' => Survives(m, k, n)'
          BY <1>1, <4>1 DEF Survives, TakesOver
        <5> QED
          BY <3>5, <5>1, <5>2
      <4>4. PICK j \in DOMAIN segs : j > target /\ segs[j].kv[k] # 0
        BY <1>1, <4>2, <4>3 DEF DInv, BInv, Cleaning
      <4>5. PICK x \in Memtables : x = segs[j].id
        BY UpTypes
      <4>6. PICK b \in Writes : b = segs[j].kv[k]
        BY UpTypes DEF Contents
      <4>7. j \in Nat /\ j # target /\ target < j
        BY <1>3, <4>4, UpTypes
      <4>8. S < x /\ x # S /\ wal[x] = Empty /\ segs[j] \in db
        BY <1>1, <1>2, <1>3, <4>5, <4>7, SegmentsAreOld, UnmarkedTakesNotOver DEF DInv, Ordered
      <4>9. Survives(x, k, b)
        BY <1>8, <4>4, <4>5, <4>6, <4>8 DEF Survives
      <4>10. n <= b
        <5>1. Holds(S, k, n) /\ Holds(x, k, b)
          BY <1>3, <3>3, <4>2, <4>4, <4>5, <4>6 DEF Holds
        <5> QED
          BY <1>1, <1>3, <4>8, <5>1 DEF DInv, Ascending, Up
      <4>11. b = n
        BY <2>1, <3>2, <3>3, <4>9, <4>10 DEF Writes
      <4>12. Survives(x, k, b)'
        BY <1>9, <4>8, <4>9
      <4>13. Survives(x, k, logged[k])'
        BY <1>1, <3>2, <4>11, <4>12 DEF Survives, TakesOver
      <4> QED
        BY <2>1, <2>2, <4>13 DEF Survived
    <3> QED
      BY <3>4, <3>5
  <2>5. CASE DeletedForGood(k)
    <3>1. \A m \in Memtables, n \in Writes : ~Survives(m, k, n)'
      BY <1>10, <2>5 DEF DeletedForGood
    <3>2. DeletedForGood(k)'
      BY <1>1, <2>3, <2>5, <3>1 DEF DeletedForGood
    <3> QED
      BY <2>1, <2>2, <3>2
  <2> QED
    BY <2>1, <2>4, <2>5
<1> QED
  BY <1>5, <1>6, <1>11 DEF DInv

\* The temporary file gets the name of the newer source.
LEMMA InstallKeepsDInv ==
  ASSUME DInv, BInv', Up, TakesOver, Ordered', OnDisk',
         NEW new \in Segments, new.id = tmp.right, new.kv = tmp.kv,
         db' = db \cup {new}, tmp' = NoTmp, cpc' = "idle",
         \A f \in db : f.id # tmp.right, tmp.right \in 1..clock,
         \A i \in DOMAIN segs' : segs'[i] = new \/ \E j \in DOMAIN segs : segs'[i] = segs[j],
         UNCHANGED <<phase, active, flushing, mem, fpc, wal, clock, written, logged, mishap>>
  PROVE  DInv'
<1>1. InTmp'
  BY DEF InTmp, Merges, Cleans
<1>2. Loadable'
  <2>1. \A f, g \in db' : f.id = g.id => f = g
    BY DEF DInv, Loadable, Up
  <2>2. \A f \in db' : f.id \in 1..clock
    BY DEF DInv, Loadable, Up
  <2> QED
    BY <2>1, <2>2 DEF DInv, Loadable, Up
<1>3. \A m \in Memtables, k \in Keys, n \in Writes : Holds(m, k, n)' => Holds(m, k, n)
  BY UpTypes DEF Holds, NoTmp
<1>4. Ascending'
  BY <1>3, AscendingKept DEF DInv
<1>5. ~TakesOver'
  BY DEF TakesOver, NoTmp
<1>6. wal[tmp.right] = Empty
  BY TmpIsApart
<1>7. ASSUME NEW m \in Memtables, NEW k \in Keys, NEW n \in Writes
      PROVE  Survives(m, k, n)' <=> Survives(m, k, n)
  <2>1. CASE m = tmp.right
    BY <1>5, <1>6, <2>1, UpTypes DEF Survives
  <2>2. CASE m # tmp.right
    BY <1>5, <2>2 DEF Survives
  <2> QED
    BY <2>1, <2>2
<1>8. Durable'
  BY <1>7, DurableKept, UpTypes DEF DInv
<1> QED
  BY <1>1, <1>2, <1>4, <1>8 DEF DInv

\* A name of a segment is below the clock.
LEMMA NamesInRange ==
  ASSUME DInv, Up, NEW i \in DOMAIN segs
  PROVE  segs[i].id \in 1..clock
<1>1. segs[i].id \in Nat /\ segs[i].id > 0 /\ segs[i].id < active /\ active \in 1..clock /\ clock \in Nat
  BY UpTypes DEF DInv, Ordered, Up, BInv, Layers
<1> QED
  BY <1>1

LEMMA InstallCleanedKeepsDInv ==
  ASSUME DInv, BInv', ~mishap, InstallCleaned
  PROVE  DInv'
<1> DEFINE new == [id |-> tmp.right, tag |-> tmp.level + 1, level |-> tmp.level, kv |-> tmp.kv]
<1>1. /\ UNCHANGED <<phase, active, flushing, mem, fpc, wal, clock, written, logged, mishap>>
      /\ Up /\ cpc = "marked" /\ cpc' = "idle" /\ db' = db \cup {new} /\ tmp' = NoTmp
      /\ segs' = [segs EXCEPT ![target] = new]
  BY DEF InstallCleaned, bounds, history, Up
<1>2. new \in Segments /\ new.id = tmp.right /\ new.kv = tmp.kv
  <2>1. tmp.level \in Nat /\ tmp.level + 1 \in Nat
    <3>1. tmp \in Tmps
      BY UpTypes
    <3> QED
      BY <3>1 DEF Tmps
  <2>2. tmp.right \in Memtables /\ tmp.kv \in Contents
    BY UpTypes
  <2>3. new \in [id : Memtables, tag : Nat, level : Nat, kv : Contents]
    BY <2>1, <2>2
  <2> QED
    BY <2>3 DEF Segments
<1> HIDE DEF new
<1>3. /\ target \in DOMAIN segs /\ tmp.right = segs[target].id /\ cpc \in Cleans
  BY <1>1, TargetIsSegment DEF DInv, InTmp, Cleans
<1>4. /\ DOMAIN segs' = DOMAIN segs
      /\ \A i \in DOMAIN segs : segs'[i] = IF i = target THEN new ELSE segs[i]
  BY <1>1, <1>3 DEF DInv, BInv, TypeOK
<1>5. \A i \in DOMAIN segs : /\ segs'[i].id = segs[i].id
                             /\ Gone(i) <=> i = target
                             /\ ~Gone(i)'
  BY <1>1, <1>2, <1>3, <1>4 DEF Gone
<1>6. Ordered'
  BY <1>1, <1>4, <1>5 DEF DInv, Ordered, Up
<1>7. \A f \in db : f.id # tmp.right
  BY <1>1, <1>3, <1>5, FilesAreOld, SegmentsAreOld
<1>8. OnDisk'
  <2>1. \A f \in db' : \/ \E i \in DOMAIN segs' : f = segs'[i] /\ ~Gone(i)'
                       \/ flushing # 0 /\ f = Segment(flushing, mem[flushing])
    BY <1>1, <1>3, <1>4, <1>5 DEF DInv, OnDisk
  <2>2. \A i \in DOMAIN segs' : segs'[i] \in db'
    BY <1>1, <1>4, <1>5 DEF DInv, OnDisk
  <2>3. UNCHANGED Segment(flushing, mem[flushing])
    BY <1>1 DEF Segment
  <2>4. new.id # flushing
    BY <1>1, <1>2, <1>3, SegmentsAreOld
  <2> QED
    BY <1>1, <2>1, <2>2, <2>3, <2>4 DEF DInv, OnDisk, Up
<1>9. TakesOver /\ tmp.right \in 1..clock
  BY <1>1, <1>3, NamesInRange DEF TakesOver
<1> QED
  BY <1>1, <1>2, <1>4, <1>6, <1>7, <1>8, <1>9, InstallKeepsDInv

LEMMA InstallCompactedKeepsDInv ==
  ASSUME DInv, BInv', ~mishap, InstallCompacted
  PROVE  DInv'
<1> DEFINE new == [id |-> tmp.right, tag |-> Plain, level |-> tmp.level, kv |-> tmp.kv]
<1>1. /\ UNCHANGED <<phase, active, flushing, mem, fpc, wal, clock, written, logged, mishap>>
      /\ Up /\ cpc = "markedBoth" /\ cpc' = "idle" /\ db' = db \cup {new} /\ tmp' = NoTmp
      /\ segs' = Replaced(segs, target, new)
  BY DEF InstallCompacted, Replaced, bounds, history, Up
<1>2. new \in Segments /\ new.id = tmp.right /\ new.kv = tmp.kv
  BY DEF DInv, BInv, TypeOK, Tmps, Segments, Plain
<1> HIDE DEF new
<1>3. /\ target \in DOMAIN segs /\ target + 1 \in DOMAIN segs /\ target \in Nat
      /\ target < target + 1 /\ cpc \in Merges
      /\ tmp.right = segs[target + 1].id /\ tmp.left = segs[target].id
      /\ tmp.left \in Nat /\ tmp.right \in Nat
  BY <1>1, TargetIsSegment, UpTypes DEF DInv, InTmp, Merges
<1>4. Replaces(segs', segs, target, new) /\ DOMAIN segs = 1..Len(segs)
  <2>1. segs \in Seq(Segments) /\ DOMAIN segs = 1..Len(segs) /\ Len(segs) \in Nat
    BY DEF DInv, BInv, TypeOK
  <2>2. target \in 1..Len(segs) /\ target < Len(segs)
    BY <1>3, <2>1
  <2> QED
    BY <1>1, <1>2, <2>1, <2>2, NeighboursReplaced
<1>5. \A i \in DOMAIN segs : Gone(i) <=> i = target \/ i = target + 1
  BY <1>1 DEF Gone
<1>6. ASSUME NEW i \in DOMAIN segs'
      PROVE  \E j \in DOMAIN segs : /\ segs'[i].id = segs[j].id
                                    /\ i < target => j = i /\ segs'[i] = segs[j]
                                    /\ i = target => j = target + 1 /\ segs'[i] = new
                                    /\ i > target => j = i + 1 /\ segs'[i] = segs[j] /\ j > target + 1
  <2>1. i \in Nat
    BY <1>4 DEF Replaces
  <2>2. CASE i = target
    BY <1>2, <1>3, <1>4, <2>2 DEF Replaces
  <2>3. CASE i < target
    BY <1>3, <1>4, <2>1, <2>3 DEF Replaces
  <2>4. CASE i > target
    BY <1>3, <1>4, <2>1, <2>4 DEF Replaces
  <2> QED
    BY <1>3, <2>1, <2>2, <2>3, <2>4
<1>7. \A i \in DOMAIN segs' : i \in Nat /\ ~Gone(i)'
  BY <1>1, <1>4 DEF Replaces, Gone
<1>8. Ordered'
  <2>1. \A i, j \in DOMAIN segs' : i < j => segs'[i].id < segs'[j].id
    <3> SUFFICES ASSUME NEW i \in DOMAIN segs', NEW j \in DOMAIN segs', i < j
                 PROVE  segs'[i].id < segs'[j].id
      OBVIOUS
    <3>1. i \in Nat /\ j \in Nat
      BY <1>7
    <3>2. PICK x \in DOMAIN segs : /\ segs'[i].id = segs[x].id
                                   /\ i < target => x = i
                                   /\ i = target => x = target + 1
                                   /\ i > target => x = i + 1
      BY <1>6
    <3>3. PICK y \in DOMAIN segs : /\ segs'[j].id = segs[y].id
                                   /\ j < target => y = j
                                   /\ j = target => y = target + 1
                                   /\ j > target => y = j + 1
      BY <1>6
    <3>4. x < y
      BY <1>3, <3>1, <3>2, <3>3
    <3> QED
      BY <1>1, <3>2, <3>3, <3>4 DEF DInv, Ordered
  <2>2. \A i \in DOMAIN segs' : /\ segs'[i].id > 0 /\ segs'[i].id < active
                                /\ flushing # 0 => segs'[i].id < flushing
    BY <1>1, <1>6 DEF DInv, Ordered
  <2> QED
    BY <1>1, <2>1, <2>2 DEF DInv, Ordered, Up
<1>9. \A f \in db : f.id # tmp.right
  BY <1>1, <1>3, <1>5, FilesAreOld, SegmentsAreOld
<1>10. OnDisk'
  <2>1. ASSUME NEW f \in db'
        PROVE  \/ \E i \in DOMAIN segs' : f = segs'[i] /\ ~Gone(i)'
               \/ flushing # 0 /\ f = Segment(flushing, mem[flushing])
    <3>1. CASE f = new
      BY <1>4, <1>7, <3>1 DEF Replaces
    <3>2. ASSUME NEW i \in DOMAIN segs, f = segs[i], ~Gone(i)
          PROVE  \E j \in DOMAIN segs' : f = segs'[j]
      <4>1. i # target /\ i # target + 1
        BY <1>5, <3>2
      <4> QED
        BY <1>4, <3>2, <4>1 DEF Replaces
    <3> QED
      BY <1>1, <1>7, <3>1, <3>2 DEF DInv, OnDisk
  <2>2. \A i \in DOMAIN segs' : segs'[i] \in db'
    <3> SUFFICES ASSUME NEW i \in DOMAIN segs' PROVE segs'[i] \in db'
      OBVIOUS
    <3>1. PICK j \in DOMAIN segs : /\ i < target => j = i /\ segs'[i] = segs[j]
                                   /\ i = target => segs'[i] = new
                                   /\ i > target => segs'[i] = segs[j] /\ j > target + 1
      BY <1>6
    <3>2. i \in Nat /\ j \in Nat
      BY <1>7, UpTypes
    <3>3. CASE i = target
      BY <1>1, <3>1, <3>3
    <3>4. CASE i # target
      <4>1. j # target /\ j # target + 1 /\ segs'[i] = segs[j]
        BY <1>3, <3>1, <3>2, <3>4
      <4> QED
        BY <1>1, <1>5, <4>1 DEF DInv, OnDisk
    <3> QED
      BY <3>3, <3>4
  <2>3. UNCHANGED Segment(flushing, mem[flushing])
    BY <1>1 DEF Segment
  <2>4. new.id # flushing
    BY <1>1, <1>2, <1>3, SegmentsAreOld
  <2> QED
    BY <1>1, <2>1, <2>2, <2>3, <2>4 DEF DInv, OnDisk, Up
<1>11. \A i \in DOMAIN segs' : segs'[i] = new \/ \E j \in DOMAIN segs : segs'[i] = segs[j]
  BY <1>4 DEF Replaces
<1>12. TakesOver /\ tmp.right \in 1..clock
  <2>1. \A f \in db : f.id # tmp.left
    BY <1>1, <1>3, <1>5, FilesAreOld, SegmentsAreOld
  <2>2. tmp.left < tmp.right
    BY <1>1, <1>3 DEF DInv, Ordered
  <2>3. tmp.left # tmp.right
    BY <1>3, <2>2
  <2> QED
    BY <1>1, <1>3, <2>1, <2>3, NamesInRange DEF TakesOver
<1> QED
  BY <1>1, <1>2, <1>8, <1>9, <1>10, <1>11, <1>12, InstallKeepsDInv

----------------------------------------------------------------------------
(* Crashes and shutdowns *)

\* Of a process that stopped the files are left: only then do they count.
LEMMA StoppedInvs ==
  ASSUME phase' = "down", fpc' = "idle", cpc' = "idle"
  PROVE  Ordered' /\ OnDisk' /\ InTmp'
BY DEF Ordered, OnDisk, InTmp, Up

LEMMA CrashKeepsDInv ==
  ASSUME DInv, BInv', ~mishap', Crash
  PROVE  DInv'
<1>1. /\ ForgetMemory /\ phase' = "down" /\ ~mishap /\ cpc # "marked" /\ phase \in {"up", "recovering"}
      /\ UNCHANGED <<wal, db, tmp, clock, written, logged>>
      /\ cpc' = "idle" /\ fpc' = "idle" /\ segs' = <<>> /\ mem' = [m \in Memtables |-> Empty]
  BY DEF Crash, disk, ForgetMemory
<1>2. Ordered' /\ OnDisk' /\ InTmp'
  BY <1>1, StoppedInvs
<1>3. \A m \in Memtables, k \in Keys : mem'[m][k] = 0
  BY <1>1, UpTypes
<1>4. Ascending'
  <2>1. \A m \in Memtables, k \in Keys, n \in Writes : Holds(m, k, n)' => Holds(m, k, n)
    BY <1>1, <1>3 DEF Holds
  <2> QED
    BY <1>1, <2>1, AscendingKept DEF DInv
<1>5. Durable'
  <2>1. \A m \in Memtables, k \in Keys, n \in Writes : Survives(m, k, n)' <=> Survives(m, k, n)
    BY <1>1 DEF Survives, TakesOver
  <2> QED
    BY <1>1, <1>3, <2>1, DurableKept, UpTypes DEF DInv
<1>6. Loadable'
  <2>1. /\ \A f, g \in db : f.id = g.id => f = g
        /\ \A f \in db : f.id \in 1..clock
        /\ \A m \in Memtables : wal[m] # Empty => m \in 1..clock
    BY <1>1 DEF DInv, Loadable
  <2>2. ASSUME tmp.left # tmp.right
        PROVE  /\ wal[tmp.left] = Empty /\ wal[tmp.right] = Empty /\ tmp.right \in 1..clock
               /\ (\E f \in db : f.id = tmp.left) => \E f \in db : f.id = tmp.right
               /\ (\A f \in db : f.id # tmp.left) => tmp.done
    <3>1. Up
      BY <1>1, <2>2 DEF DInv, Loadable, NoTmp, Up
    <3>2. cpc \in Merges
      BY <2>2, <3>1 DEF DInv, BInv, TypeOK, InTmp, Merges, Cleans, NoTmp
    <3>3. /\ target \in DOMAIN segs /\ target + 1 \in DOMAIN segs /\ target # target + 1
          /\ tmp.left = segs[target].id /\ tmp.right = segs[target + 1].id
      BY <3>1, <3>2, TargetIsSegment DEF DInv, InTmp
    <3>4. ASSUME NEW f \in db, f.id = tmp.left
          PROVE  \E g \in db : g.id = tmp.right
      <4>1. ~Gone(target)
        BY <3>1, <3>3, <3>4, FilesAreOld, SegmentsAreOld
      <4>2. ~Gone(target + 1)
        BY <3>2, <3>3, <4>1 DEF Gone, Merges
      <4> QED
        BY <3>1, <3>3, <4>2 DEF DInv, OnDisk
    <3>5. ASSUME \A f \in db : f.id # tmp.left
          PROVE  tmp.done
      <4>1. Gone(target)
        BY <3>1, <3>3, <3>5 DEF DInv, OnDisk
      <4>2. cpc \in Merges \ {"compact"}
        BY <3>2, <3>3, <4>1 DEF Gone, Merges
      <4> QED
        BY <3>1, <4>2 DEF DInv, InTmp
    <3> QED
      BY <2>2, <3>1, <3>3, <3>4, <3>5, TmpIsApart, NamesInRange
  <2> QED
    BY <1>1, <2>1, <2>2 DEF Loadable
<1> QED
  BY <1>2, <1>4, <1>5, <1>6 DEF DInv

\* The active memtable ends up in its log or in a segment.
LEMMA ShutdownKeepsDInv ==
  ASSUME DInv, BInv', ~mishap, NEW reuse \in BOOLEAN, Shutdown(reuse)
  PROVE  DInv'
<1> DEFINE file == Segment(active, mem[active])
<1>1. /\ ForgetMemory /\ phase' = "down" /\ phase = "up" /\ cpc = "idle" /\ Up
      /\ UNCHANGED <<tmp, clock, written, mishap>>
      /\ cpc' = "idle" /\ fpc' = "idle" /\ segs' = <<>> /\ mem' = [m \in Memtables |-> Empty]
  BY DEF Shutdown, ForgetMemory, Up
<1>2. /\ logged' = Newest(mem[active])
      /\ \/ wal' = [wal EXCEPT ![active] = mem[active]] /\ db' = db
         \/ wal' = [wal EXCEPT ![active] = Empty] /\ db' = db \cup {file}
  BY DEF Shutdown, Log
<1>3. file.id = active /\ file.kv = mem[active]
  BY DEF Segment
<1> HIDE DEF file
<1>4. /\ active \in Memtables /\ active \in 1..clock /\ tmp = NoTmp
      /\ active # flushing /\ \A f \in db : f.id # active
  <2>1. active \in Memtables /\ active \in 1..clock /\ tmp = NoTmp /\ active # flushing
    BY <1>1 DEF DInv, InTmp, BInv, TypeOK, Layers
  <2> QED
    BY <1>1, <2>1, FilesAreOld, SegmentsAreOld
<1>5. /\ \A l \in Memtables : l # active => wal'[l] = wal[l]
      /\ wal'[active] = mem[active] \/ wal'[active] = Empty
  BY <1>2, <1>4 DEF DInv, BInv, TypeOK
<1>6. Ordered' /\ OnDisk' /\ InTmp'
  BY <1>1, StoppedInvs
<1>7. \A m \in Memtables, k \in Keys : mem'[m][k] = 0
  BY <1>1, UpTypes
<1>8. Loadable'
  <2>1. \A f, g \in db' : f.id = g.id => f = g
    BY <1>1, <1>2, <1>3, <1>4 DEF DInv, Loadable, Up
  <2>2. \A f \in db' : f.id \in 1..clock
    BY <1>1, <1>2, <1>3, <1>4 DEF DInv, Loadable, Up
  <2>3. \A m \in Memtables : wal'[m] # Empty => m \in 1..clock
    BY <1>1, <1>4, <1>5 DEF DInv, Loadable, Up
  <2> QED
    BY <1>1, <1>4, <2>1, <2>2, <2>3 DEF Loadable, NoTmp
<1>9. Ascending'
  <2>1. \A m \in Memtables, k \in Keys : wal'[m][k] \in {0, wal[m][k], mem[m][k]}
    <3> SUFFICES ASSUME NEW m \in Memtables, NEW k \in Keys
                 PROVE  wal'[m][k] \in {0, wal[m][k], mem[m][k]}
      OBVIOUS
    <3>1. m # active => wal'[m] = wal[m]
      BY <1>5
    <3>2. m = active => wal'[m] = mem[m] \/ wal'[m] = Empty
      BY <1>5
    <3>3. Empty[k] = 0
      BY UpTypes
    <3> QED
      BY <3>1, <3>2, <3>3
  <2>2. \A f \in db' : f \in db \/ (f.id = active /\ f.kv = mem[active])
    BY <1>2, <1>3
  <2>3. \A m \in Memtables, k \in Keys, n \in Writes : Holds(m, k, n)' => Holds(m, k, n)
    BY <1>1, <1>7, <2>1, <2>2 DEF Holds
  <2> QED
    BY <1>1, <2>3, AscendingKept DEF DInv
<1>10. ~TakesOver /\ ~TakesOver'
  BY <1>1, <1>4 DEF TakesOver, NoTmp
<1>11. \A l \in Memtables, k \in Keys : \A n :
         /\ l # active => (Survives(l, k, n)' <=> Survives(l, k, n))
         /\ Survives(active, k, n) <=> n # 0 /\ wal[active][k] = n
  BY <1>2, <1>3, <1>4, <1>5, <1>10 DEF Survives
<1>12. ASSUME NEW m \in Memtables, m = active
       PROVE  \A k \in Keys : \A n : Survives(m, k, n)' <=> n # 0 /\ mem[active][k] = n
  <2>1. CASE wal'[m] = mem[active] /\ db' = db
    BY <1>4, <1>10, <1>12, <2>1 DEF Survives
  <2>2. CASE wal'[m] = Empty /\ db' = db \cup {file}
    BY <1>3, <1>4, <1>10, <1>12, <2>2, UpTypes DEF Survives
  <2> QED
    BY <1>2, <1>12, <2>1, <2>2 DEF DInv, BInv, TypeOK
<1>13. Durable'
  <2> SUFFICES ASSUME NEW m \in Memtables, m = active
               PROVE  Durable'
    BY <1>4
  <2>1. \A l \in Memtables, k \in Keys : \A n :
          /\ l # m => (Survives(l, k, n)' <=> Survives(l, k, n))
          /\ Survives(m, k, n)' <=> n # 0 /\ mem[m][k] = n
          /\ Survives(m, k, n) <=> n # 0 /\ wal[m][k] = n
    BY <1>11, <1>12 DEF Survives
  <2>2. logged' = Newest(mem[m])
    BY <1>2
  <2> QED
    BY <1>1, <1>7, <2>1, <2>2, LoggedKeepsDurable
<1> QED
  BY <1>6, <1>8, <1>9, <1>13 DEF DInv

----------------------------------------------------------------------------
(* Recovery *)

\* NewBucket puts the temporary file where a recovery was to find it.
LEMMA LoadSegmentsKeepsDInv ==
  ASSUME DInv, BInv', ~mishap', LoadSegments
  PROVE  DInv'
<1> DEFINE left == Named(db, tmp.left, Plain)
           right == Named(db, tmp.right, Plain)
           replaces == tmp.left # tmp.right /\ left = {}
           new == [id |-> tmp.right, tag |-> Plain, level |-> tmp.level, kv |-> tmp.kv]
           refused == \/ tmp.left # tmp.right /\ left # {} /\ right = {}
                      \/ replaces /\ ~tmp.done
<1>1. /\ phase = "down" /\ ~mishap /\ cpc = "idle" /\ mem = [m \in Memtables |-> Empty]
      /\ UNCHANGED <<cpc, mem, segs, clock, wal, written, logged>>
      /\ tmp.left # tmp.right => \A f \in db : f.id \in {tmp.left, tmp.right} => f.tag = Plain
  BY DEF LoadSegments, DInv, BInv, Forgotten, memory, bounds
<1>2. /\ \A f, g \in db : f.id = g.id => f = g
      /\ \A f \in db : f.id \in 1..clock
      /\ \A m \in Memtables : wal[m] # Empty => m \in 1..clock
      /\ tmp.left # tmp.right =>
           /\ wal[tmp.left] = Empty /\ wal[tmp.right] = Empty /\ tmp.right \in 1..clock
           /\ (\E f \in db : f.id = tmp.left) => \E f \in db : f.id = tmp.right
           /\ (\A f \in db : f.id # tmp.left) => tmp.done
  BY <1>1 DEF DInv, Loadable
<1>3. /\ tmp.left # tmp.right => left = {f \in db : f.id = tmp.left} /\ right = {f \in db : f.id = tmp.right}
      /\ replaces <=> TakesOver
  BY <1>1 DEF Named, TakesOver
<1>4. ~refused
  BY <1>2, <1>3
<1>5. /\ phase' = "recovering" /\ tmp' = NoTmp
      /\ db' = {f \in db : f.id \notin Logs /\ ~(replaces /\ f \in right)}
                 \cup (IF replaces THEN {new} ELSE {})
  BY <1>4 DEF LoadSegments
<1> HIDE DEF refused, left, right
<1>6. new.id = tmp.right /\ new.kv = tmp.kv
  OBVIOUS
<1> HIDE DEF new
<1>7. \A f : f \in db' <=> \/ /\ f \in db /\ wal[f.id] = Empty
                              /\ ~(TakesOver /\ f.id = tmp.right)
                           \/ TakesOver /\ f = new
  BY <1>3, <1>5, UpTypes DEF Logs
<1> HIDE DEF replaces
<1>8. TakesOver => tmp.left # tmp.right
  BY <1>1 DEF TakesOver
<1>9. ~TakesOver'
  BY <1>1, <1>5 DEF TakesOver, NoTmp
<1>10. Ordered' /\ OnDisk' /\ InTmp'
  BY <1>5 DEF Ordered, OnDisk, InTmp, Up
<1>11. Loadable'
  <2>1. \A f, g \in db' : f.id = g.id => f = g
    BY <1>2, <1>6, <1>7
  <2>2. \A f \in db' : f.id \in 1..clock /\ wal[f.id] = Empty
    BY <1>2, <1>6, <1>7, <1>8
  <2> QED
    BY <1>1, <1>2, <1>5, <2>1, <2>2 DEF Loadable
<1>12. Ascending'
  <2>1. \A f \in db' : f \in db \/ (f.id = tmp.right /\ f.kv = tmp.kv)
    BY <1>6, <1>7
  <2>2. NoTmp.kv = Empty
    BY DEF NoTmp
  <2>3. \A m \in Memtables, k \in Keys, n \in Writes : Holds(m, k, n)' => Holds(m, k, n)
    BY <1>1, <1>5, <2>1, <2>2, UpTypes DEF Holds
  <2> QED
    BY <1>1, <2>3, AscendingKept DEF DInv
<1>13. Durable'
  <2>1. ASSUME NEW m \in Memtables, NEW k \in Keys, NEW n \in Writes
        PROVE  Survives(m, k, n)' <=> Survives(m, k, n)
    <3>1. CASE TakesOver /\ m = tmp.right
      <4>1. Survives(m, k, n) <=> n # 0 /\ tmp.kv[k] = n
        BY <1>2, <1>8, <3>1, UpTypes DEF Survives
      <4>2. \A f \in db' : f.id = m <=> f = new
        BY <1>6, <1>7, <3>1
      <4>3. Survives(m, k, n)' <=> n # 0 /\ tmp.kv[k] = n
        BY <1>1, <1>2, <1>6, <1>7, <1>8, <1>9, <3>1, <4>2, UpTypes DEF Survives
      <4> QED
        BY <4>1, <4>3
    <3>2. CASE ~(TakesOver /\ m = tmp.right)
      <4>1. \A f : f.id = m /\ wal[m] = Empty => (f \in db' <=> f \in db)
        BY <1>6, <1>7, <3>2
      <4> QED
        BY <1>1, <1>9, <3>2, <4>1 DEF Survives
    <3> QED
      BY <3>1, <3>2
  <2> QED
    BY <1>1, <2>1, DurableKept, UpTypes DEF DInv
<1> QED
  BY <1>10, <1>11, <1>12, <1>13 DEF DInv

LEMMA FlushRecoveredLogKeepsDInv ==
  ASSUME DInv, BInv', ~mishap, NEW m \in Memtables, FlushRecoveredLog(m)
  PROVE  DInv'
<1> DEFINE new == Segment(m, wal[m])
<1>1. /\ phase = "recovering" /\ wal[m] # Empty
      /\ UNCHANGED <<phase, cpc, mem, segs, clock, tmp, written, logged, mishap>>
      /\ db' = db \cup {new} /\ wal' = [wal EXCEPT ![m] = Empty]
  BY DEF FlushRecoveredLog, Logs, memory, bounds, history
<1>2. new.id = m /\ new.kv = wal[m]
  BY DEF Segment
<1> HIDE DEF new
<1>3. \A l \in Memtables : wal'[l] = IF l = m THEN Empty ELSE wal[l]
  BY <1>1 DEF DInv, BInv, TypeOK
<1>4. /\ tmp = NoTmp /\ m \in 1..clock /\ \A f \in db : wal[f.id] = Empty /\ f.id # m
      /\ cpc = "idle"
  BY <1>1 DEF DInv, Loadable, BInv, Forgotten
<1>5. Ordered' /\ OnDisk' /\ InTmp'
  BY <1>1 DEF Ordered, OnDisk, InTmp, Up
<1>6. Loadable'
  <2>1. \A f, g \in db' : f.id = g.id => f = g
    BY <1>1, <1>2, <1>4 DEF DInv, Loadable
  <2>2. \A f \in db' : f.id \in 1..clock /\ wal'[f.id] = Empty
    BY <1>1, <1>2, <1>3, <1>4, UpTypes DEF DInv, Loadable
  <2>3. \A l \in Memtables : wal'[l] # Empty => l \in 1..clock
    BY <1>1, <1>3 DEF DInv, Loadable
  <2> QED
    BY <1>1, <1>4, <2>1, <2>2, <2>3 DEF Loadable
<1>7. Ascending'
  <2>1. \A l \in Memtables, k \in Keys : wal'[l][k] = wal[l][k] \/ wal'[l][k] = 0
    BY <1>3, UpTypes
  <2>2. \A l \in Memtables, k \in Keys, n \in Writes : Holds(l, k, n)' => Holds(l, k, n)
    BY <1>1, <1>2, <2>1 DEF Holds
  <2> QED
    BY <1>1, <2>2, AscendingKept DEF DInv
<1>8. ~TakesOver /\ ~TakesOver'
  BY <1>1, <1>4 DEF TakesOver, NoTmp
<1>9. Durable'
  <2>1. ASSUME NEW l \in Memtables, NEW k \in Keys, NEW n \in Writes
        PROVE  Survives(l, k, n)' <=> Survives(l, k, n)
    BY <1>1, <1>2, <1>3, <1>4, <1>8, UpTypes DEF Survives
  <2> QED
    BY <1>1, <2>1, DurableKept, UpTypes DEF DInv
<1> QED
  BY <1>5, <1>6, <1>7, <1>9 DEF DInv

\* The segments of a recovered bucket are the files, in the order of names,
\* all older than the active memtable.
LEMMA RecoveredSegments ==
  ASSUME DInv, ~mishap', NEW m \in Memtables, FinishRecovery(m)
  PROVE  /\ DOMAIN segs' \subseteq Nat
         /\ \A i \in DOMAIN segs' : segs'[i] \in db /\ segs'[i].id < m
         /\ \A f \in db : \E i \in DOMAIN segs' : f = segs'[i]
         /\ \A i, j \in DOMAIN segs' : i < j => segs'[i].id < segs'[j].id
<1> DEFINE n == Cardinality(db)
<1>1. IsFiniteSet(db) /\ n \in Nat
  BY FS_CardinalityType DEF DInv, BInv
<1>2. phase = "recovering" /\ ~mishap /\ \A f \in db : ~(f.id > m)
  BY DEF FinishRecovery
<1>3. /\ \A f, g \in db : f.id = g.id => f = g
      /\ \A f \in db : f.id \in 1..clock /\ f.id \in Nat /\ wal[f.id] = Empty
      /\ clock \in Nat /\ m \in Nat
  BY <1>2, UpTypes DEF DInv, Loadable, Memtables
<1>4. \A f \in db : f.id < m
  <2> SUFFICES ASSUME NEW f \in db PROVE f.id # m
    BY <1>2, <1>3
  <2>1. CASE Logs = {}
    <3>1. m = clock + 1
      BY <2>1 DEF FinishRecovery
    <3> QED
      BY <1>3, <3>1
  <2>2. CASE Logs # {}
    <3>1. wal[m] # Empty
      BY <2>2 DEF FinishRecovery, Logs
    <3> QED
      BY <1>3, <3>1
  <2> QED
    BY <2>1, <2>2
<1>5. PICK s \in [1..n -> db] : InOrder(s) /\ segs' = s
  BY DEF FinishRecovery
<1>6. \A i \in DOMAIN s : i \in Nat /\ s[i] \in db /\ s[i].id \in Nat /\ s[i].tag \in Nat
  <2>1. DOMAIN s \subseteq Nat /\ \A i \in DOMAIN s : s[i] \in db
    BY <1>1, <1>5
  <2>2. \A f \in db : f.id \in Nat /\ f.tag \in Nat
    BY <1>3 DEF DInv, BInv, TypeOK, Segments
  <2> QED
    BY <2>1, <2>2
<1>7. \A i, j \in DOMAIN s : i < j => s[i].id < s[j].id
  <2> SUFFICES ASSUME NEW i \in DOMAIN s, NEW j \in DOMAIN s, i < j
               PROVE  s[i].id < s[j].id
    OBVIOUS
  <2>1. s[i].id < s[j].id \/ (s[i].id = s[j].id /\ s[i].tag < s[j].tag)
    BY <1>5 DEF InOrder
  <2>2. ~(s[i].id = s[j].id /\ s[i].tag < s[j].tag)
    <3> SUFFICES ASSUME s[i].id = s[j].id PROVE ~(s[i].tag < s[j].tag)
      OBVIOUS
    <3>1. s[i] = s[j]
      BY <1>3, <1>6
    <3> QED
      BY <1>6, <3>1
  <2> QED
    BY <2>1, <2>2
<1>8. s \in Injection(1..n, db)
  <2>1. ASSUME NEW i \in DOMAIN s, NEW j \in DOMAIN s, s[i] = s[j]
        PROVE  i = j
    <3>1. ~(i < j) /\ ~(j < i)
      BY <1>6, <1>7, <2>1
    <3> QED
      BY <1>6, <3>1
  <2> QED
    BY <2>1 DEF Injection, IsInjective
<1>9. s \in Surjection(1..n, db)
  <2>1. Cardinality(1..n) = n
    BY <1>1, FS_Interval
  <2> HIDE DEF n
  <2>2. Cardinality(1..n) = Cardinality(db)
    BY <2>1 DEF n
  <2> QED
    BY <1>1, <1>8, <2>2, FS_Injection
<1>10. \A f \in db : \E i \in DOMAIN s : f = s[i]
  BY <1>5, <1>9 DEF Surjection
<1> QED
  BY <1>4, <1>5, <1>6, <1>7, <1>10

\* What a get finds after a recovery is the newest that survived.
LEMMA RecoveredNewest ==
  ASSUME DInv, BInv', ~mishap', NEW m \in Memtables, FinishRecovery(m), NEW k \in Keys
  PROVE  /\ logged'[k] \in Writes
         /\ logged'[k] # 0 => \E x \in Memtables : Survives(x, k, logged'[k])
         /\ \A x \in Memtables, b \in Writes : Survives(x, k, b) => b <= logged'[k]
<1>1. /\ phase = "recovering" /\ ~mishap /\ active' = m /\ mem' = [mem EXCEPT ![m] = wal[m]]
      /\ flushing' = flushing
  BY DEF FinishRecovery
<1>2. /\ flushing = 0 /\ mem = [l \in Memtables |-> Empty] /\ cpc = "idle"
      /\ wal[0] = Empty /\ Empty[k] = 0
      /\ \A l \in Memtables : l # m => wal[l] = Empty
  BY <1>1, UpTypes DEF DInv, BInv, Forgotten, Layers, FinishRecovery, Logs
<1>3. PICK found \in Contents :
        (\A j \in Keys : Reads(j, found[j])') /\ logged' = found
  BY DEF FinishRecovery
<1>4. PICK n \in Writes : n = found[k]
  BY <1>3 DEF Contents
<1>5. Reads(k, n)'
  BY <1>3, <1>4
<1>6. mem'[m] = wal[m] /\ mem'[flushing'][k] = 0
  <2>1. 0 \in Memtables
    BY BucketAssumption DEF Memtables
  <2>2. CASE m = 0
    BY <1>1, <1>2, <2>1, <2>2
  <2>3. CASE m # 0
    BY <1>1, <1>2, <2>1, <2>3
  <2> QED
    BY <2>2, <2>3
<1>7. \/ n # 0 /\ wal[m][k] = n
      \/ wal[m][k] = 0 /\ Finds(segs', k, n)
  BY <1>1, <1>5, <1>6 DEF Reads, Finds
<1>8. /\ \A i \in DOMAIN segs' : i \in Nat /\ segs'[i] \in db /\ segs'[i].id < m
      /\ \A f \in db : \E i \in DOMAIN segs' : f = segs'[i]
      /\ \A i, j \in DOMAIN segs' : i < j => segs'[i].id < segs'[j].id
  BY RecoveredSegments
<1>9. /\ \A f \in db : wal[f.id] = Empty /\ f.id \in Memtables /\ f.id \in Nat
      /\ ~TakesOver
  BY <1>1, <1>2, UpTypes DEF DInv, Loadable, TakesOver, NoTmp
<1>10. Writes \subseteq Nat
  BY DEF Writes
\* A write that survives is in the log or in a file.
<1>11. ASSUME NEW x \in Memtables, NEW b \in Writes, Survives(x, k, b)
       PROVE  /\ b # 0 /\ Holds(x, k, b)
              /\ \/ x = m /\ wal[m][k] = b
                 \/ \E i \in DOMAIN segs' : x = segs'[i].id /\ segs'[i].kv[k] = b
  <2>1. b # 0 /\ Holds(x, k, b)
    BY <1>9, <1>11 DEF Survives, Holds
  <2>2. wal[x][k] = b => x = m
    BY <1>2, <2>1
  <2> QED
    BY <1>8, <1>9, <1>11, <2>1, <2>2 DEF Survives
<1>12. \A x, l \in Memtables, a, b \in Writes :
         x < l /\ Holds(x, k, a) /\ Holds(l, k, b) => a <= b
  BY <1>1 DEF DInv, Ascending
<1>13. CASE n # 0 /\ wal[m][k] = n
  <2>1. Survives(m, k, n) /\ Holds(m, k, n)
    BY <1>13 DEF Survives, Holds
  <2>2. ASSUME NEW x \in Memtables, NEW b \in Writes, Survives(x, k, b)
        PROVE  b <= n
    <3>1. CASE x = m /\ wal[m][k] = b
      BY <1>10, <1>13, <3>1
    <3>2. CASE x < m
      BY <1>11, <1>12, <2>1, <2>2, <3>2
    <3> QED
      BY <1>8, <1>11, <2>2, <3>1, <3>2
  <2> QED
    BY <1>3, <1>4, <2>1, <2>2
<1>14. CASE wal[m][k] = 0 /\ Finds(segs', k, n)
  <2>1. CASE n = 0
    <3>1. \A i \in DOMAIN segs' : segs'[i].kv[k] = 0
      BY <1>14, <2>1 DEF Finds
    <3>2. \A x \in Memtables, b \in Writes : ~Survives(x, k, b)
      BY <1>11, <1>14, <3>1
    <3> QED
      BY <1>3, <1>4, <2>1, <3>2
  <2>2. CASE n # 0
    <3>1. PICK i \in DOMAIN segs' :
            segs'[i].kv[k] = n /\ \A j \in DOMAIN segs' : j > i => segs'[j].kv[k] = 0
      BY <1>14, <2>2 DEF Finds
    <3>2. Survives(segs'[i].id, k, n) /\ segs'[i].id \in Memtables
      BY <1>8, <1>9, <2>2, <3>1 DEF Survives
    <3>3. Holds(segs'[i].id, k, n)
      BY <1>11, <3>2
    <3>4. ASSUME NEW x \in Memtables, NEW b \in Writes, Survives(x, k, b)
          PROVE  b <= n
      <4>1. PICK j \in DOMAIN segs' : x = segs'[j].id /\ segs'[j].kv[k] = b
        BY <1>11, <1>14, <3>4
      <4>2. ~(j > i)
        BY <1>11, <3>1, <3>4, <4>1
      <4>3. CASE j = i
        BY <1>10, <3>1, <4>1, <4>3
      <4>4. CASE j < i
        <5>1. x < segs'[i].id
          BY <1>8, <4>1, <4>4
        <5> QED
          BY <1>11, <1>12, <3>2, <3>3, <3>4, <5>1
      <4> QED
        BY <1>8, <4>2, <4>3, <4>4
    <3> QED
      BY <1>3, <1>4, <3>2, <3>4
  <2> QED
    BY <2>1, <2>2
<1> QED
  BY <1>7, <1>13, <1>14

\* A recovery finds, for every key, what had reached a file.
LEMMA RecoveryFindsLogged ==
  ASSUME DInv, BInv', ~mishap', NEW m \in Memtables, FinishRecovery(m), NEW k \in Keys
  PROVE  Value(last'[k]) = Value(logged[k])
<1>1. ~mishap /\ last' = logged'
  BY DEF FinishRecovery
<1>2. /\ \A x \in Memtables, n \in Writes : Survives(x, k, n) => n <= logged[k]
      /\ Survived(k) \/ DeletedForGood(k)
      /\ logged[k] \in Writes /\ Writes \subseteq Nat
  BY <1>1, UpTypes DEF DInv, Durable, Writes
<1>3. PICK n \in Writes : n = logged'[k]
  BY RecoveredNewest
<1>4. /\ n # 0 => \E x \in Memtables : Survives(x, k, n)
      /\ \A x \in Memtables, b \in Writes : Survives(x, k, b) => b <= n
  BY <1>3, RecoveredNewest
<1>5. CASE Survived(k)
  <2>1. logged[k] <= n /\ logged[k] # 0
    BY <1>2, <1>4, <1>5 DEF Survived, Survives
  <2>2. n \in Nat /\ logged[k] \in Nat
    BY <1>2, <1>3
  <2>3. n # 0
    BY <2>1, <2>2
  <2>4. n <= logged[k]
    BY <1>2, <1>4, <2>3
  <2>5. n = logged[k]
    BY <2>1, <2>2, <2>4
  <2> QED
    BY <1>1, <1>3, <2>5
<1>6. CASE DeletedForGood(k)
  <2>1. n = 0 /\ Value(logged[k]) = 0
    BY <1>4, <1>6 DEF DeletedForGood
  <2> QED
    BY <1>1, <1>3, <2>1 DEF Value
<1> QED
  BY <1>2, <1>5, <1>6

LEMMA FinishRecoveryKeepsDInv ==
  ASSUME DInv, BInv', ~mishap', NEW m \in Memtables, FinishRecovery(m)
  PROVE  DInv'
<1>1. /\ phase = "recovering" /\ phase' = "up" /\ ~mishap /\ active' = m
      /\ mem' = [mem EXCEPT ![m] = wal[m]] /\ clock' = IF m > clock THEN m ELSE clock
      /\ UNCHANGED <<flushing, fpc, cpc, target, wal, db, tmp, written>> /\ last' = logged'
  BY DEF FinishRecovery, disk
<1>2. /\ flushing = 0 /\ mem = [l \in Memtables |-> Empty] /\ cpc = "idle" /\ fpc = "idle"
      /\ tmp = NoTmp /\ \A l \in Memtables : l # m => wal[l] = Empty
  BY <1>1 DEF DInv, BInv, Forgotten, Loadable, FinishRecovery, Logs
<1>3. \A l \in Memtables : mem'[l] = IF l = m THEN wal[m] ELSE Empty
  BY <1>1, <1>2
<1>4. m # 0 /\ m \in Nat /\ m \in 1..clock' /\ clock \in Nat /\ \A l : l \in 1..clock => l \in 1..clock'
  <2>1. active' # 0 /\ m \in Nat /\ clock \in Nat
    BY <1>1, UpTypes DEF BInv, Layers, Memtables
  <2> QED
    BY <1>1, <2>1
<1>5. /\ \A f, g \in db : f.id = g.id => f = g
      /\ \A f \in db : f.id \in 1..clock
      /\ \A l \in Memtables : wal[l] # Empty => l \in 1..clock
  BY <1>1 DEF DInv, Loadable
<1>6. /\ \A i \in DOMAIN segs' : segs'[i] \in db /\ segs'[i].id < m
      /\ \A f \in db : \E i \in DOMAIN segs' : f = segs'[i]
      /\ \A i, j \in DOMAIN segs' : i < j => segs'[i].id < segs'[j].id
  BY RecoveredSegments
<1>7. Ordered'
  <2>1. \A i \in DOMAIN segs' : segs'[i].id > 0
    BY <1>5, <1>6
  <2>2. \A l \in Memtables, k \in Keys : wal[l][k] <= mem'[l][k]
    BY <1>2, <1>3, UpTypes
  <2>3. 0 < m
    BY <1>4
  <2>4. active' = m /\ flushing' = 0 /\ wal' = wal
    BY <1>1, <1>2
  <2>5. \A l \in Memtables \ {m, 0} : mem'[l] = Empty /\ wal[l] = Empty
    BY <1>2, <1>3
  <2> QED
    BY <1>6, <2>1, <2>2, <2>3, <2>4, <2>5 DEF Ordered
<1>8. OnDisk' /\ InTmp'
  <2>1. \A i : ~Gone(i)'
    BY <1>1, <1>2 DEF Gone
  <2> QED
    BY <1>1, <1>2, <1>6, <2>1 DEF OnDisk, InTmp, Merges, Cleans
<1>9. Loadable'
  BY <1>1, <1>4, <1>5 DEF Loadable
<1>10. Ascending'
  <2>1. \A l \in Memtables, k \in Keys : mem'[l][k] = wal[l][k] \/ mem'[l][k] = 0
    BY <1>3, UpTypes
  <2>2. \A l \in Memtables, k \in Keys, n \in Writes : Holds(l, k, n)' => Holds(l, k, n)
    BY <1>1, <1>6, <2>1 DEF Holds
  <2> QED
    BY <1>1, <2>2, AscendingKept DEF DInv
<1>11. \A x, k, n : Survives(x, k, n)' <=> Survives(x, k, n)
  BY <1>1 DEF Survives, TakesOver
<1>12. Durable'
  <2> SUFFICES ASSUME NEW k \in Keys
               PROVE  /\ logged'[k] <= Len(written')
                      /\ \A x \in Memtables, n \in Writes : Survives(x, k, n)' => n <= logged'[k]
                      /\ Survived(k)' \/ DeletedForGood(k)'
    BY DEF Durable
  <2>1. logged'[k] <= Len(written')
    BY <1>1 DEF BInv, Known
  <2>2. PICK n \in Writes : n = logged'[k]
    BY RecoveredNewest
  <2>3. /\ n # 0 => \E x \in Memtables : Survives(x, k, n)
        /\ \A x \in Memtables, b \in Writes : Survives(x, k, b) => b <= n
    BY <2>2, RecoveredNewest
  <2>4. CASE n # 0
    <3>1. PICK x \in Memtables : Survives(x, k, n)
      BY <2>3, <2>4
    <3>2. Survives(x, k, n)'
      BY <1>11, <3>1
    <3>3. Survives(x, k, logged[k])'
      BY <2>2, <3>2 DEF Survives, TakesOver
    <3> QED
      BY <1>11, <2>1, <2>2, <2>3, <3>3 DEF Survived
  <2>5. CASE n = 0
    <3>1. \A x \in Memtables, b \in Writes : ~Survives(x, k, b)'
      <4>1. \A x \in Memtables, b \in Writes : ~Survives(x, k, b)
        BY <2>3, <2>5 DEF Survives, Writes
      <4> QED
        BY <1>11, <4>1
    <3>2. (Value(logged[k]) = 0)'
      BY <2>2, <2>5 DEF Value
    <3>3. \A x \in Memtables : mem'[x][k] = 0 \/ mem'[x][k] >= logged'[k]
      BY <1>3, <2>2, <2>5, UpTypes
    <3>4. DeletedForGood(k)'
      BY <3>1, <3>2, <3>3 DEF DeletedForGood
    <3> QED
      BY <1>11, <2>1, <2>2, <2>3, <3>4
  <2> QED
    BY <2>4, <2>5
<1> QED
  BY <1>7, <1>8, <1>9, <1>10, <1>12 DEF DInv

----------------------------------------------------------------------------
(* The theorems about recovery *)

\* Lost data stays lost, as far as the invariant is concerned.
LEMMA MishapStays ==
  ASSUME [Next]_vars, mishap, mishap \in BOOLEAN
  PROVE  mishap'
<1> USE DEF memory, disk, bounds, history
<1>1. CASE Writers \/ SyncLog
  BY <1>1 DEF Writers, Write, WriteWAL, SyncLog
<1>2. CASE Flushes
  BY <1>2 DEF Flushes, SwitchMemtable, CloseLog, WriteSegment, DropLog, AddSegment, FlushFails
<1>3. CASE Cursors
  BY <1>3 DEF Cursors, OpenCursor, CloseCursor, FileEnqueued
<1>4. CASE Compacts
  BY <1>4 DEF Compacts, StartCompaction, WriteCompacted, MarkLeft, MarkRight, InstallCompacted,
              StartCleanup, WriteCleaned, MarkCleaned, InstallCleaned
<1>5. CASE Restarts
  BY <1>5 DEF Restarts, Crash, Shutdown, LoadSegments, FlushRecoveredLog, FinishRecovery
<1>6. CASE UNCHANGED vars
  BY <1>6 DEF vars
<1> QED
  BY <1>1, <1>2, <1>3, <1>4, <1>5, <1>6 DEF Next

LEMMA NextKeepsDInv == DInv /\ [Next]_vars => DInv'
<1> SUFFICES ASSUME DInv, [Next]_vars PROVE DInv'
  OBVIOUS
<1>1. BInv'
  BY NextKeepsBInv DEF DInv
<1>2. CASE mishap'
  BY <1>1, <1>2 DEF DInv, Ordered, OnDisk, InTmp, Loadable, Ascending, Durable, Up
<1>3. CASE ~mishap'
  <2>1. ~mishap
    BY <1>3, MishapStays DEF DInv, BInv, TypeOK
  <2> USE <1>1, <1>3, <2>1
  <2>2. CASE Writers
    <3>1. ASSUME NEW k \in Keys, NEW dead \in BOOLEAN, Write(k, dead)
          PROVE  DInv'
      BY <3>1, WriteKeepsDInv
    <3> QED
      BY <2>2, <3>1, WriteLogsKeepDInv DEF Writers
  <2>3. CASE SyncLog
    BY <2>3, WriteLogsKeepDInv
  <2>4. CASE Flushes
    BY <2>4, SwitchMemtableKeepsDInv, WriteLogsKeepDInv, WriteSegmentKeepsDInv,
       DropLogKeepsDInv, AddSegmentKeepsDInv, FlushFailsKeepsDInv DEF Flushes
  <2>5. CASE Cursors
    BY <2>5, CursorsKeepDInv
  <2>6. CASE Compacts
    <3>1. ASSUME NEW i \in 1..Len(segs), StartCompaction(i)
          PROVE  DInv'
      BY <3>1, StartCompactionKeepsDInv
    <3>2. ASSUME NEW i \in 1..Len(segs), NEW from \in 1..Len(segs) + 1, StartCleanup(i, from)
          PROVE  DInv'
      BY <3>2, StartCleanupKeepsDInv
    <3> QED
      BY <2>6, <3>1, <3>2, WriteCompactedKeepsDInv, MarkLeftKeepsDInv, MarkRightKeepsDInv,
         InstallCompactedKeepsDInv, WriteCleanedKeepsDInv, MarkCleanedKeepsDInv,
         InstallCleanedKeepsDInv DEF Compacts
  <2>7. CASE Restarts
    <3>1. ASSUME NEW reuse \in BOOLEAN, Shutdown(reuse)
          PROVE  DInv'
      BY <3>1, ShutdownKeepsDInv
    <3>2. ASSUME NEW m \in Memtables, FlushRecoveredLog(m)
          PROVE  DInv'
      BY <3>2, FlushRecoveredLogKeepsDInv
    <3>3. ASSUME NEW m \in Memtables, FinishRecovery(m)
          PROVE  DInv'
      BY <3>3, FinishRecoveryKeepsDInv
    <3> QED
      BY <2>7, <3>1, <3>2, <3>3, CrashKeepsDInv, LoadSegmentsKeepsDInv DEF Restarts
  <2>8. CASE UNCHANGED vars
    <3>1. /\ SameFiles /\ fpc' = fpc
          /\ UNCHANGED <<active, flushing, mem, segs, written, logged, cpc, target>>
      BY <2>8 DEF vars, memory, disk, bounds, history, SameFiles
    <3> QED
      BY <3>1, CyclesKeepDInv
  <2> QED
    BY <2>2, <2>3, <2>4, <2>5, <2>6, <2>7, <2>8 DEF Next
<1> QED
  BY <1>2, <1>3

\* What the files hold is true in every state of the specification.
LEMMA AlwaysDInv == Spec => []DInv
<1> QED
  BY InitDInv, NextKeepsDInv, PTL DEF Spec

\* NewBucket never finds files it refuses to start from, wherever a crash
\* interrupts a flush, a compaction, a cleanup or a recovery before it, but
\* for the ways to lose data that "mishap" names.
THEOREM BucketRecoveryIsPossible == Spec => []RecoveryIsPossible
<1>1. DInv => RecoveryIsPossible
  BY DEF DInv, Loadable, RecoveryIsPossible
<1> QED
  BY <1>1, AlwaysDInv, PTL

\* After a crash or a shutdown at any point, a get finds the newest write that
\* had reached a file: none is lost, and no write that was deleted or replaced
\* comes back, but for the ways to lose data that "mishap" names.
THEOREM BucketRecoveryKeepsLogged == Spec => RecoveryKeepsLogged
<1>1. DInv /\ DInv' /\ [Next]_vars =>
        [phase = "recovering" /\ phase' = "up" /\ ~mishap' =>
           \A k \in Keys : Value(last'[k]) = Value(logged[k])]_vars
  <2> SUFFICES ASSUME DInv, DInv', [Next]_vars,
                      phase = "recovering", phase' = "up", ~mishap', NEW k \in Keys
               PROVE  Value(last'[k]) = Value(logged[k])
    OBVIOUS
  <2>1. PICK m \in Memtables : FinishRecovery(m)
    <3>1. ~Writers /\ ~SyncLog
      BY DEF Writers, Write, WriteWAL, SyncLog
    <3>2. ~Flushes /\ ~Cursors
      BY DEF Flushes, SwitchMemtable, CloseLog, WriteSegment, DropLog, AddSegment, FlushFails,
             Cursors, OpenCursor, CloseCursor, FileEnqueued
    <3>3. ~Compacts
      BY DEF Compacts, StartCompaction, WriteCompacted, MarkLeft, MarkRight, InstallCompacted,
             StartCleanup, WriteCleaned, MarkCleaned, InstallCleaned
    <3>4. ASSUME Restarts
          PROVE  \E m \in Memtables : FinishRecovery(m)
      BY <3>4 DEF Restarts, Crash, Shutdown, LoadSegments, FlushRecoveredLog
    <3>5. ~UNCHANGED vars
      BY DEF vars
    <3> QED
      BY <3>1, <3>2, <3>3, <3>4, <3>5 DEF Next
  <2> QED
    BY <2>1, RecoveryFindsLogged DEF DInv
<1> QED
  BY <1>1, AlwaysDInv, PTL DEF Spec, RecoveryKeepsLogged
=============================================================================
