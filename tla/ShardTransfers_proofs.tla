------------------------ MODULE ShardTransfers_proofs ------------------------
(***************************************************************************)
(* Proofs about transfers: their types, that a backup which reports        *)
(* success is complete, and that the files a transfer reads are those it   *)
(* listed, for any classes, copiers, numbers of backups, copies and        *)
(* compactions, and lost or failing calls.                                 *)
(***************************************************************************)
EXTENDS ShardTransfers, FiniteSetTheorems, TLAPS

----------------------------------------------------------------------------
(* Types *)

ShardTypes ==
  /\ haltCount \in [Classes -> Nat]
  /\ timer \in [Classes -> {"none", "running", "off"}]
  /\ monitor \in [Classes -> {"none", "watching", "cancelled", "expired", "ending"}]
  /\ lockedUp \in SUBSET Classes
  /\ generation \in [Classes -> Generations]
  /\ lastBackup \in [Classes -> Backups \cup {None}]
DescriberTypes ==
  /\ describer \in [Backups -> [left : Seq(Classes), at : {"init", "halt", "list"}]]
  /\ descriptors \in [Backups -> Seq(Descriptor)]
UploaderTypes ==
  /\ ctxDone \in SUBSET Backups
  /\ uploader \in [pc : {"idle", "receive", "upload", "metadata"}, backup : Backups \cup {None},
                   class : Classes, listed : Generations]
  /\ uploader.pc # "idle" => uploader.backup \in Backups
  /\ uploaded \in [Backups -> SUBSET Classes]
  /\ outcome \in [Backups -> {"none", "success", "failed"}]
ReleaseTypes ==
  /\ resets \in [Backups -> [Classes -> Nat]]
  /\ resumes \in [Backups -> [Classes -> Nat]]
CopyTypes ==
  /\ copier \in [Copiers -> [pc : {"idle", "paused", "listed", "returning"}, copy : Copies \cup {None},
                             listed : Generations]]
  /\ \A c \in Copiers : copier[c].pc # "idle" => copier[c].copy \in 1..copies
  /\ copies \in 0..MaxCopies
  /\ faults \in 0..MaxFaults
HistoryTypes ==
  /\ holders \in [Classes -> SUBSET Transfers]
  /\ robbed \in SUBSET Classes
  /\ unwatched \in SUBSET Classes
  /\ leaked \in SUBSET Classes

Types == ShardTypes /\ DescriberTypes /\ UploaderTypes /\ ReleaseTypes /\ CopyTypes /\ HistoryTypes

LEMMA TypesCorrect == Types => TransfersTypeOK
BY DEF Types, ShardTypes, DescriberTypes, UploaderTypes, ReleaseTypes, CopyTypes, HistoryTypes, TransfersTypeOK

LEMMA Constants ==
  /\ Requested[1] \in Classes /\ Requested \in Seq(Classes) /\ CopyOf \in [Copiers -> Classes]
  /\ MaxBackups \in Nat /\ MaxCopies \in Nat /\ MaxCompactions \in Nat /\ MaxFaults \in Nat
  /\ 0 \in Generations
BY TransfersAssumption DEF Classes, Generations

LEMMA TypesInit == Init => Types
<1> SUFFICES ASSUME Init PROVE Types
    OBVIOUS
<1> USE Constants DEF Init
<1>1. ShardTypes
      BY DEF ShardTypes, None
<1>2. DescriberTypes
      BY DEF DescriberTypes
<1>3. UploaderTypes
      BY DEF UploaderTypes, Idle, None
<1>4. ReleaseTypes
      BY DEF ReleaseTypes
<1>5. CopyTypes
      BY DEF CopyTypes, NoCopy, None
<1>6. HistoryTypes
      BY DEF HistoryTypes
<1> QED
    BY <1>1, <1>2, <1>3, <1>4, <1>5, <1>6 DEF Types

(* A state that leaves the variables of a group alone keeps its types. *)
LEMMA TypesKept ==
  /\ ShardTypes /\ UNCHANGED shardVars => ShardTypes'
  /\ DescriberTypes /\ UNCHANGED <<describer, descriptors>> => DescriberTypes'
  /\ UploaderTypes /\ UNCHANGED <<ctxDone, uploader, uploaded, outcome>> => UploaderTypes'
  /\ ReleaseTypes /\ UNCHANGED releaseVars => ReleaseTypes'
  /\ CopyTypes /\ UNCHANGED copyVars /\ UNCHANGED faults => CopyTypes'
  /\ HistoryTypes /\ UNCHANGED history => HistoryTypes'
BY DEF ShardTypes, DescriberTypes, UploaderTypes, ReleaseTypes, CopyTypes, HistoryTypes,
       shardVars, releaseVars, copyVars, history

(* What the operators that actions share do to the types. *)
LEMMA HaltTypes ==
  ASSUME ShardTypes, HistoryTypes, NEW k \in Classes, NEW x \in Transfers, NEW timed \in BOOLEAN,
         HaltForTransfer(k, x, timed), UNCHANGED <<lockedUp, generation, lastBackup, robbed, leaked>>
  PROVE  ShardTypes' /\ HistoryTypes'
<1>1. ShardTypes'
      BY DEF ShardTypes, HaltForTransfer
<1>2. HistoryTypes'
      BY DEF HistoryTypes, HaltForTransfer
<1> QED
    BY <1>1, <1>2

LEMMA ResumeTypes ==
  ASSUME ShardTypes, HistoryTypes, NEW k \in Classes, NEW x \in Transfers,
         \/ ResumeMaintenanceCycles(k, x)
         \/ UNCHANGED <<haltCount, monitor, holders, robbed>>,
         UNCHANGED <<timer, lockedUp, generation, lastBackup, unwatched, leaked>>
  PROVE  ShardTypes' /\ HistoryTypes'
<1>1. ShardTypes'
      BY DEF ShardTypes, ResumeMaintenanceCycles
<1>2. HistoryTypes'
      BY DEF HistoryTypes, ResumeMaintenanceCycles
<1> QED
    BY <1>1, <1>2

LEMMA ResetTimerTypes ==
  ASSUME ShardTypes, NEW k \in Classes, MayResetInactivityTimer(k) \/ UNCHANGED lockedUp,
         UNCHANGED <<haltCount, timer, monitor, generation, lastBackup>>
  PROVE  ShardTypes'
BY DEF ShardTypes, MayResetInactivityTimer

LEMMA DescribeTypes ==
  ASSUME ShardTypes, DescriberTypes, NEW b \in Backups, NEW k \in Classes, describer[b].left # <<>>,
         NEW error \in {"none", "failed"}, Describe(b, k, error)
  PROVE  DescriberTypes'
<1>1. describer' \in [Backups -> [left : Seq(Classes), at : {"init", "halt", "list"}]]
      BY DEF DescriberTypes, Describe
<1>2. [class |-> k, error |-> error, listed |-> generation[k]] \in Descriptor
      BY DEF ShardTypes, Descriptor
<1>3. descriptors' \in [Backups -> Seq(Descriptor)]
      BY <1>2 DEF DescriberTypes, Describe
<1> QED
    BY <1>1, <1>3 DEF DescriberTypes

LEMMA ResetsTypes ==
  ASSUME ReleaseTypes, resumes' = resumes, NEW b \in Backups, NEW k \in Classes,
         \/ resets' = resets
         \/ resets' = [resets EXCEPT ![b][k] = @ + 1]
         \/ resets' = [resets EXCEPT ![b] = [j \in Classes |-> @[j] + (IF j = k THEN 2 ELSE 1)]]
  PROVE  ReleaseTypes'
<1> USE DEF ReleaseTypes
<1>1. CASE resets' = resets
      BY <1>1
<1>2. CASE resets' = [resets EXCEPT ![b][k] = @ + 1]
      BY <1>2
<1>3. CASE resets' = [resets EXCEPT ![b] = [j \in Classes |-> @[j] + (IF j = k THEN 2 ELSE 1)]]
  <2>1. [j \in Classes |-> resets[b][j] + (IF j = k THEN 2 ELSE 1)] \in [Classes -> Nat]
        OBVIOUS
  <2> QED
        BY <1>3, <2>1
<1> QED
    BY <1>1, <1>2, <1>3

LEMMA ConcludeTypes ==
  ASSUME UploaderTypes, ReleaseTypes, uploader.pc # "idle", NEW how \in {"success", "failed"},
         NEW n \in Nat, Conclude(how, n), UNCHANGED <<ctxDone, uploaded, resumes>>
  PROVE  UploaderTypes' /\ ReleaseTypes'
<1> USE DEF UploaderTypes, Conclude
<1>1. uploader.backup \in Backups
      OBVIOUS
<1>2. uploader' \in [pc : {"idle", "receive", "upload", "metadata"}, backup : Backups \cup {None},
                     class : Classes, listed : Generations]
      BY <1>1, Constants DEF Idle
<1>3. uploader'.pc # "idle" => uploader'.backup \in Backups
      BY <1>1 DEF Idle
<1>4. outcome' \in [Backups -> {"none", "success", "failed"}]
      OBVIOUS
<1>5. ReleaseTypes'
      BY <1>1 DEF ReleaseTypes, ReleaseIndexes
<1> QED
    BY <1>2, <1>3, <1>4, <1>5

LEMMA MonitorTypes ==
  ASSUME Types, NEW k \in Classes, Monitor(k) \/ Compact(k)
  PROVE  Types'
<1> USE DEF Types
<1>1. CASE MonitorTimesOut(k)
  <2>1. ShardTypes'
        BY <1>1 DEF MonitorTimesOut, ShardTypes
  <2> QED
        BY <1>1, <2>1, TypesKept DEF MonitorTimesOut, backupVars
<1>2. CASE MonitorResumes(k)
  <2>1. ShardTypes'
        BY <1>2 DEF MonitorResumes, ShardTypes
  <2>2. HistoryTypes'
        BY <1>2 DEF MonitorResumes, HistoryTypes
  <2> QED
        BY <1>2, <2>1, <2>2, TypesKept DEF MonitorResumes, backupVars
<1>3. CASE MonitorEnds(k)
  <2>1. ShardTypes'
        BY <1>3 DEF MonitorEnds, ShardTypes
  <2> QED
        BY <1>3, <2>1, TypesKept DEF MonitorEnds, backupVars
<1>4. CASE Compact(k)
  <2>1. ShardTypes'
        BY <1>4, Constants DEF Compact, ShardTypes, Generations
  <2> QED
        BY <1>4, <2>1, TypesKept DEF Compact, backupVars
<1> QED
    BY <1>1, <1>2, <1>3, <1>4 DEF Monitor

LEMMA DescriberStep ==
  ASSUME Types, NEW b \in Backups, DescribeClasses(b)
  PROVE  Types'
<1> USE DEF Types
<1> DEFINE k == Head(describer[b].left)
<1>1. describer[b].left # <<>> /\ k \in Classes
  <2>1. describer[b].left # <<>>
        BY DEF DescribeClasses, InitBackup, HaltForBackup, HaltForBackupFails, ListForBackup, Describing
  <2>2. describer[b].left \in Seq(Classes)
        BY DEF DescriberTypes
  <2> QED
      BY <2>1, <2>2
<1> HIDE DEF k
<1>2. OfBackup(b) \in Transfers
      BY DEF Transfers
<1>3. CASE InitBackup(b)
  <2>1. CASE lastBackup[k] = None
    <3>1. ShardTypes'
          BY <1>3, <2>1, <1>1 DEF InitBackup, ShardTypes, k
    <3>2. DescriberTypes'
          BY <1>3, <2>1 DEF InitBackup, DescriberTypes, k
    <3> QED
          BY <1>3, <3>1, <3>2, TypesKept DEF InitBackup
  <2>2. CASE lastBackup[k] # None
    <3>1. DescriberTypes'
          BY <1>3, <2>2, <1>1, DescribeTypes DEF InitBackup, k
    <3> QED
          BY <1>3, <2>2, <3>1, TypesKept DEF InitBackup, k, shardVars
  <2> QED
      BY <2>1, <2>2
<1>4. CASE HaltForBackup(b)
  <2>1. ShardTypes' /\ HistoryTypes'
        BY <1>4, <1>1, <1>2, HaltTypes DEF HaltForBackup, k
  <2>2. DescriberTypes'
        BY <1>4 DEF HaltForBackup, DescriberTypes
  <2> QED
        BY <1>4, <2>1, <2>2, TypesKept DEF HaltForBackup
<1>5. CASE HaltForBackupFails(b)
  <2>1. DescriberTypes'
        BY <1>5, <1>1, DescribeTypes DEF HaltForBackupFails, k
  <2>2. ReleaseTypes'
        BY <1>5, <1>1 DEF HaltForBackupFails, ReleaseTypes, k
  <2>3. CopyTypes'
        BY <1>5, Constants DEF HaltForBackupFails, CopyTypes, Fault, copyVars
  <2> QED
        BY <1>5, <2>1, <2>2, <2>3, TypesKept DEF HaltForBackupFails
<1>6. CASE ListForBackup(b)
  <2>1. ShardTypes'
        BY <1>6, <1>1, ResetTimerTypes DEF ListForBackup, k
  <2>2. DescriberTypes'
        BY <1>6, <1>1, DescribeTypes, TypesKept DEF ListForBackup, k
  <2>3. ReleaseTypes'
    <3>1. resets' = resets \/ resets' = [resets EXCEPT ![b][k] = @ + 1]
          BY <1>6 DEF ListForBackup, k
    <3>2. resumes' = resumes
          BY <1>6 DEF ListForBackup
    <3> QED
        BY <1>1, <3>1, <3>2, ResetsTypes
  <2>4. HistoryTypes'
        BY <1>6, <1>1 DEF ListForBackup, HistoryTypes, k
  <2> QED
        BY <1>6, <2>1, <2>2, <2>3, <2>4, TypesKept DEF ListForBackup
<1> QED
    BY <1>3, <1>4, <1>5, <1>6 DEF DescribeClasses

LEMMA UploaderStep ==
  ASSUME Types, \/ \E b \in Backups : StartBackup(b)
                \/ AbortBackup
                \/ UploadAll
  PROVE  Types'
<1> USE DEF Types
<1>1. ASSUME NEW b \in Backups, StartBackup(b)
      PROVE  Types'
  <2>1. UploaderTypes'
        BY <1>1, Constants DEF StartBackup, UploaderTypes, Idle
  <2>2. DescriberTypes'
        BY <1>1, Constants DEF StartBackup, DescriberTypes
  <2> QED
        BY <1>1, <2>1, <2>2, TypesKept DEF StartBackup
<1>2. CASE AbortBackup
  <2>1. UploaderTypes'
        BY <1>2 DEF AbortBackup, UploaderTypes
  <2> QED
        BY <1>2, <2>1, TypesKept DEF AbortBackup
<1>3. CASE ReceiveDescriptor
  <2> DEFINE b == uploader.backup
             d == Head(descriptors[b])
  <2>1. b \in Backups /\ d \in Descriptor /\ descriptors[b] # <<>>
        BY <1>3 DEF ReceiveDescriptor, UploaderTypes, DescriberTypes
  <2>2. DescriberTypes'
        BY <1>3, <2>1 DEF ReceiveDescriptor, DescriberTypes
  <2>3. CASE d.error = "none"
    <3>1. UploaderTypes'
          BY <1>3, <2>1, <2>3 DEF ReceiveDescriptor, UploaderTypes, Descriptor
    <3> QED
          BY <1>3, <2>2, <2>3, <3>1, TypesKept DEF ReceiveDescriptor, releaseVars
  <2>4. CASE d.error # "none"
    <3>1. UploaderTypes' /\ ReleaseTypes'
          BY <1>3, <2>4, ConcludeTypes DEF ReceiveDescriptor
    <3> QED
          BY <1>3, <2>2, <3>1, TypesKept DEF ReceiveDescriptor
  <2> QED
        BY <2>3, <2>4
<1>4. CASE AllReceived
  <2>1. UploaderTypes' /\ ReleaseTypes'
        BY <1>4, ConcludeTypes DEF AllReceived
  <2>2. CopyTypes'
        BY <1>4, Constants DEF AllReceived, CopyTypes, copyVars, Fault
  <2> QED
        BY <1>4, <2>1, <2>2, TypesKept DEF AllReceived
<1>5. CASE SeeAbort
  <2>1. UploaderTypes' /\ ReleaseTypes'
        BY <1>5, ConcludeTypes DEF SeeAbort
  <2> QED
        BY <1>5, <2>1, TypesKept DEF SeeAbort
<1>6. CASE UploadClass
  <2>1. uploader.backup \in Backups /\ uploader.class \in Classes
        BY <1>6 DEF UploadClass, UploaderTypes
  <2>2. uploader' \in [pc : {"idle", "receive", "upload", "metadata"}, backup : Backups \cup {None},
                       class : Classes, listed : Generations] /\ uploader'.backup \in Backups
        BY <1>6, <2>1, Constants DEF UploadClass, Idle
  <2>3. UploaderTypes'
        BY <1>6, <2>1, <2>2 DEF UploadClass, UploaderTypes
  <2>4. ReleaseTypes'
    <3>1. \/ resets' = [resets EXCEPT ![uploader.backup][uploader.class] = @ + 1]
          \/ resets' = [resets EXCEPT ![uploader.backup] =
                                  [j \in Classes |-> @[j] + (IF j = uploader.class THEN 2 ELSE 1)]]
          BY <1>6 DEF UploadClass
    <3>2. resumes' = resumes
          BY <1>6 DEF UploadClass
    <3> QED
        BY <2>1, <3>1, <3>2, ResetsTypes
  <2>5. CopyTypes'
        BY <1>6, Constants DEF UploadClass, CopyTypes, copyVars, Fault
  <2> QED
        BY <1>6, <2>3, <2>4, <2>5, TypesKept DEF UploadClass
<1>7. CASE FinishBackup
  <2>1. UploaderTypes'
        BY <1>7, Constants DEF FinishBackup, UploaderTypes, Idle, None
  <2> QED
        BY <1>7, <2>1, TypesKept DEF FinishBackup
<1> QED
    BY <1>1, <1>2, <1>3, <1>4, <1>5, <1>6, <1>7 DEF UploadAll

LEMMA ReleaseStep ==
  ASSUME Types, NEW b \in Backups, NEW k \in Classes, ReleaseBackup(b, k)
  PROVE  Types'
<1> USE DEF Types
<1>1. CASE ResetBackupState(b, k)
  <2>1. ShardTypes'
        BY <1>1 DEF ResetBackupState, ShardTypes
  <2>2. ReleaseTypes'
        BY <1>1 DEF ResetBackupState, ReleaseTypes
  <2> QED
        BY <1>1, <2>1, <2>2, TypesKept DEF ResetBackupState, backupVars
<1>2. CASE ResumeAfterBackup(b, k)
  <2>1. OfBackup(b) \in Transfers
        BY DEF Transfers
  <2>2. ShardTypes' /\ HistoryTypes'
        BY <1>2, <2>1, ResumeTypes DEF ResumeAfterBackup
  <2>3. ReleaseTypes'
        BY <1>2 DEF ResumeAfterBackup, ReleaseTypes
  <2> QED
        BY <1>2, <2>2, <2>3, TypesKept DEF ResumeAfterBackup, backupVars
<1> QED
    BY <1>1, <1>2 DEF ReleaseBackup

LEMMA CopierStep ==
  ASSUME Types, NEW c \in Copiers, PauseFileActivity(c) \/ CopyReplicaFiles(c) \/ GetFile(c)
  PROVE  Types'
<1> USE DEF Types
<1>1. CopyOf[c] \in Classes
      BY Constants
<1>2. CASE PauseFileActivity(c)
  <2>1. copies + 1 \in Copies /\ copies \in Nat
        BY <1>2, Constants DEF PauseFileActivity, CopyTypes, Copies
  <2>2. OfCopy(copies + 1) \in Transfers
        BY <2>1 DEF Transfers
  <2>3. ShardTypes' /\ HistoryTypes'
        BY <1>1, <1>2, <2>2, HaltTypes DEF PauseFileActivity
  <2>4. copier' \in [Copiers -> [pc : {"idle", "paused", "listed", "returning"}, copy : Copies \cup {None},
                                 listed : Generations]]
        BY <1>2, <2>1, Constants DEF PauseFileActivity, CopyTypes
  <2>5. \A i \in Copiers : copier'[i].pc # "idle" => copier'[i].copy \in 1..copies'
        BY <1>2, <2>1 DEF PauseFileActivity, CopyTypes
  <2>6. copies' \in 0..MaxCopies /\ faults' \in 0..MaxFaults
        BY <1>2, Constants DEF PauseFileActivity, CopyTypes, Fault
  <2>7. CopyTypes'
        BY <2>4, <2>5, <2>6 DEF CopyTypes
  <2> QED
        BY <1>2, <2>3, <2>7, TypesKept DEF PauseFileActivity, backupVars
<1>3. CASE ListFiles(c)
  <2>1. ShardTypes'
        BY <1>1, <1>3, ResetTimerTypes DEF ListFiles
  <2>2. generation[CopyOf[c]] \in Generations
        BY <1>1 DEF ShardTypes
  <2>3. CopyTypes'
        BY <1>3, <2>2 DEF ListFiles, CopyTypes
  <2> QED
        BY <1>3, <2>1, <2>3, TypesKept DEF ListFiles, backupVars
<1>4. CASE GetFile(c)
  <2>1. ShardTypes'
        BY <1>1, <1>4, ResetTimerTypes DEF GetFile
  <2> QED
        BY <1>4, <2>1, TypesKept DEF GetFile, backupVars
<1>5. CASE AllRead(c)
  <2>1. CopyTypes'
        BY <1>5, Constants DEF AllRead, CopyTypes
  <2> QED
        BY <1>5, <2>1, TypesKept DEF AllRead, backupVars
<1>6. CASE ResumeFileActivity(c)
  <2>1. copier[c].copy \in Copies
        BY <1>6, Constants DEF ResumeFileActivity, CopyTypes, Copies
  <2>2. OfCopy(copier[c].copy) \in Transfers
        BY <2>1 DEF Transfers
  <2>3. ShardTypes' /\ HistoryTypes'
        BY <1>1, <1>6, <2>2, ResumeTypes DEF ResumeFileActivity
  <2>4. CopyTypes'
        BY <1>6, Constants DEF ResumeFileActivity, CopyTypes, NoCopy, Fault
  <2> QED
        BY <1>6, <2>3, <2>4, TypesKept DEF ResumeFileActivity, backupVars
<1> QED
    BY <1>2, <1>3, <1>4, <1>5, <1>6 DEF CopyReplicaFiles

LEMMA TypesStep == Types /\ [Next]_vars => Types'
<1> SUFFICES ASSUME Types, [Next]_vars PROVE Types'
    OBVIOUS
<1>1. CASE UNCHANGED vars
      BY <1>1, TypesKept DEF Types, vars, backupVars
<1>2. CASE Next
      BY <1>2, MonitorTypes, DescriberStep, UploaderStep, ReleaseStep, CopierStep
      DEF Next, Monitor, DescribeClasses, UploadAll, ReleaseBackup, CopyReplicaFiles
<1> QED
    BY <1>1, <1>2

(* The state of shards, uploader, releases and copiers keeps its types, as *)
(* shard_backup.go and backend.go keep them; a count of halts in           *)
(* particular never goes below zero.                                       *)
THEOREM TransfersTypeCorrect == TransfersSpec => []TransfersTypeOK
<1>1. TransfersSpec => []Types
      BY TypesInit, TypesStep, PTL DEF TransfersSpec
<1> QED
    BY <1>1, TypesCorrect, PTL

----------------------------------------------------------------------------
(* The way of a class through a backup: it is left to be described, its    *)
(* descriptor is in the channel, it is being uploaded, or uploaded.        *)

Active(b) == uploader.pc \in {"receive", "upload"} /\ uploader.backup = b
Uploading == IF uploader.pc = "upload" THEN {uploader.class} ELSE {}

Left(left) == {left[i] : i \in DOMAIN left}
Good(ds) == {i \in DOMAIN ds : ds[i].error = "none"}
InHand(left, ds, ups) == Left(left) \cup {ds[i].class : i \in Good(ds)} \cup ups

(* A class is in one place only. *)
Placed(left, ds, ups, done) ==
  /\ \A i, j \in DOMAIN left : left[i] = left[j] => i = j
  /\ \A i, j \in DOMAIN ds : ds[i].class = ds[j].class => i = j
  /\ \A i \in DOMAIN left, j \in DOMAIN ds : left[i] # ds[j].class
  /\ \A i \in DOMAIN left : left[i] \notin ups \cup done
  /\ \A j \in DOMAIN ds : ds[j].class \notin ups \cup done
  /\ ups \cap done = {}

(* Every class is in one, unless an error is on its way to the uploader. *)
Covers(left, ds, ups, done) ==
  \/ \E i \in DOMAIN ds : ds[i].error # "none"
  \/ \A k \in Classes :
       \/ k \in ups \cup done
       \/ \E i \in DOMAIN left : left[i] = k
       \/ \E i \in DOMAIN ds : ds[i].class = k

LEMMA HeadTail ==
  ASSUME NEW S, NEW s \in Seq(S), s # <<>>
  PROVE  /\ 1 \in DOMAIN s /\ Head(s) = s[1]
         /\ \A i \in DOMAIN Tail(s) : i + 1 \in DOMAIN s /\ Tail(s)[i] = s[i + 1] /\ i \in Nat /\ i # 0
         /\ \A i \in DOMAIN s : i # 1 => i - 1 \in DOMAIN Tail(s) /\ Tail(s)[i - 1] = s[i]
         /\ \A i \in DOMAIN s : i \in Int
OBVIOUS

LEMMA Appended ==
  ASSUME NEW S, NEW s \in Seq(S), NEW e \in S
  PROVE  /\ Len(s) + 1 \in DOMAIN Append(s, e) /\ Append(s, e)[Len(s) + 1] = e
         /\ \A i \in DOMAIN s : i \in DOMAIN Append(s, e) /\ Append(s, e)[i] = s[i]
         /\ \A i \in DOMAIN Append(s, e) : i \in DOMAIN s \/ i = Len(s) + 1
         /\ Len(s) + 1 \notin DOMAIN s
OBVIOUS

LEMMA EmptySeq == DOMAIN <<>> = {}
OBVIOUS

(* The head of what is left is described well ... *)
LEMMA Described ==
  ASSUME NEW left \in Seq(Classes), NEW ds \in Seq(Descriptor), NEW ups, NEW done, left # <<>>,
         NEW d \in Descriptor, d.class = Head(left), d.error = "none"
  PROVE  /\ Placed(left, ds, ups, done) => Placed(Tail(left), Append(ds, d), ups, done)
         /\ Covers(left, ds, ups, done) => Covers(Tail(left), Append(ds, d), ups, done)
         /\ InHand(Tail(left), Append(ds, d), ups) \subseteq InHand(left, ds, ups)
<1>1. ASSUME Placed(left, ds, ups, done) PROVE Placed(Tail(left), Append(ds, d), ups, done)
      BY <1>1, HeadTail, Appended DEF Placed
<1>2. ASSUME Covers(left, ds, ups, done) PROVE Covers(Tail(left), Append(ds, d), ups, done)
  <2>1. ASSUME NEW i \in DOMAIN ds, ds[i].error # "none" PROVE \E j \in DOMAIN Append(ds, d) : Append(ds, d)[j].error # "none"
        BY <2>1, Appended
  <2>2. ASSUME NEW k \in Classes, \/ k \in ups \cup done
                                 \/ \E i \in DOMAIN left : left[i] = k
                                 \/ \E j \in DOMAIN ds : ds[j].class = k
        PROVE  \/ k \in ups \cup done
               \/ \E i \in DOMAIN Tail(left) : Tail(left)[i] = k
               \/ \E j \in DOMAIN Append(ds, d) : Append(ds, d)[j].class = k
    <3>1. ASSUME NEW i \in DOMAIN left, left[i] = k, i # 1 PROVE \E j \in DOMAIN Tail(left) : Tail(left)[j] = k
          BY <3>1, HeadTail
    <3>2. ASSUME left[1] = k PROVE \E j \in DOMAIN Append(ds, d) : Append(ds, d)[j].class = k
          BY <3>2, HeadTail, Appended
    <3>3. ASSUME NEW i \in DOMAIN ds, ds[i].class = k PROVE \E j \in DOMAIN Append(ds, d) : Append(ds, d)[j].class = k
          BY <3>3, Appended
    <3> QED
        BY <2>2, <3>1, <3>2, <3>3
  <2> QED
      BY <1>2, <2>1, <2>2 DEF Covers
<1>3. InHand(Tail(left), Append(ds, d), ups) \subseteq InHand(left, ds, ups)
      BY HeadTail, Appended DEF InHand, Left, Good
<1> QED
    BY <1>1, <1>2, <1>3

(* ... or badly, after which nothing is left. *)
LEMMA DescribedBadly ==
  ASSUME NEW left \in Seq(Classes), NEW ds \in Seq(Descriptor), NEW ups, NEW done, left # <<>>,
         NEW d \in Descriptor, d.class = Head(left), d.error # "none"
  PROVE  /\ Placed(left, ds, ups, done) =>
              /\ Placed(<<>>, Append(ds, d), ups, done)
              /\ InHand(<<>>, Append(ds, d), ups) \subseteq InHand(left, ds, ups) \ {d.class}
         /\ Covers(<<>>, Append(ds, d), ups, done)
<1>1. ASSUME Placed(left, ds, ups, done) PROVE Placed(<<>>, Append(ds, d), ups, done)
      BY <1>1, HeadTail, Appended, EmptySeq DEF Placed
<1>2. ASSUME Placed(left, ds, ups, done), NEW k \in InHand(<<>>, Append(ds, d), ups)
      PROVE  k \in InHand(left, ds, ups) \ {d.class}
  <2>1. CASE k \in ups
        BY <1>2, <2>1, HeadTail DEF Placed, InHand
  <2>2. CASE k \notin ups
    <3>1. PICK i \in DOMAIN Append(ds, d) : Append(ds, d)[i].error = "none" /\ Append(ds, d)[i].class = k
          BY <1>2, <2>2, EmptySeq DEF InHand, Left, Good
    <3>2. i \in DOMAIN ds /\ ds[i].error = "none" /\ ds[i].class = k
          BY <3>1, Appended
    <3> QED
        BY <1>2, <3>2, HeadTail DEF Placed, InHand, Good
  <2> QED
      BY <2>1, <2>2
<1>3. Covers(<<>>, Append(ds, d), ups, done)
      BY Appended DEF Covers
<1> QED
    BY <1>1, <1>2, <1>3

(* The uploader takes a descriptor that is good. *)
LEMMA Received ==
  ASSUME NEW left \in Seq(Classes), NEW ds \in Seq(Descriptor), NEW done, ds # <<>>, Head(ds).error = "none"
  PROVE  /\ Placed(left, ds, {}, done) => Placed(left, Tail(ds), {Head(ds).class}, done)
         /\ Covers(left, ds, {}, done) => Covers(left, Tail(ds), {Head(ds).class}, done)
         /\ InHand(left, Tail(ds), {Head(ds).class}) \subseteq InHand(left, ds, {})
<1>1. ASSUME Placed(left, ds, {}, done) PROVE Placed(left, Tail(ds), {Head(ds).class}, done)
      BY <1>1, HeadTail DEF Placed
<1>2. ASSUME Covers(left, ds, {}, done) PROVE Covers(left, Tail(ds), {Head(ds).class}, done)
  <2>1. ASSUME NEW i \in DOMAIN ds, ds[i].error # "none" PROVE \E j \in DOMAIN Tail(ds) : Tail(ds)[j].error # "none"
    <3>1. i # 1
          BY <2>1, HeadTail
    <3>2. i - 1 \in DOMAIN Tail(ds) /\ Tail(ds)[i - 1] = ds[i]
          BY <3>1, HeadTail
    <3> QED
        BY <2>1, <3>2
  <2>2. ASSUME NEW k, NEW i \in DOMAIN ds, ds[i].class = k
        PROVE  k = Head(ds).class \/ \E j \in DOMAIN Tail(ds) : Tail(ds)[j].class = k
        BY <2>2, HeadTail
  <2> QED
      BY <1>2, <2>1, <2>2 DEF Covers
<1>3. InHand(left, Tail(ds), {Head(ds).class}) \subseteq InHand(left, ds, {})
      BY HeadTail DEF InHand, Left, Good
<1> QED
    BY <1>1, <1>2, <1>3

(* It has uploaded a class. *)
LEMMA Uploaded ==
  ASSUME NEW left, NEW ds, NEW done, NEW k
  PROVE  /\ Placed(left, ds, {k}, done) =>
              /\ Placed(left, ds, {}, done \cup {k})
              /\ InHand(left, ds, {}) \subseteq InHand(left, ds, {k}) \ {k}
         /\ Covers(left, ds, {k}, done) => Covers(left, ds, {}, done \cup {k})
<1>1. ASSUME Placed(left, ds, {k}, done)
      PROVE  Placed(left, ds, {}, done \cup {k})
      BY <1>1 DEF Placed
<1>2. ASSUME Placed(left, ds, {k}, done)
      PROVE  InHand(left, ds, {}) \subseteq InHand(left, ds, {k}) \ {k}
      BY <1>2 DEF Placed, InHand, Left, Good
<1>3. ASSUME Covers(left, ds, {k}, done)
      PROVE  Covers(left, ds, {}, done \cup {k})
      BY <1>3 DEF Covers
<1> QED
    BY <1>1, <1>2, <1>3

(* The invariant of the queue, by backup: one that has not begun has left  *)
(* no trace and one under way has no outcome; the classes of a backup      *)
(* under way are each in one place, all are somewhere, and those in hand   *)
(* are not being released; and a backup that succeeded is complete.        *)
Fresh(b) ==
  /\ Active(b) => outcome[b] = "none"
  /\ outcome[b] = "none" /\ ~Active(b) =>
       /\ describer[b] = [left |-> <<>>, at |-> "init"]
       /\ descriptors[b] = <<>> /\ uploaded[b] = {}
       /\ \A k \in Classes : resets[b][k] = 0 /\ resumes[b][k] = 0
QueueAt(b) ==
  /\ Fresh(b)
  /\ Active(b) =>
       /\ Placed(describer[b].left, descriptors[b], Uploading, uploaded[b])
       /\ Covers(describer[b].left, descriptors[b], Uploading, uploaded[b])
       /\ \A k \in InHand(describer[b].left, descriptors[b], Uploading) : resets[b][k] = 0 /\ resumes[b][k] = 0
  /\ outcome[b] = "success" => uploaded[b] = Classes

Queue == \A b \in Backups : QueueAt(b)

LEMMA QueueInit == Init => Queue
BY DEF Init, Queue, QueueAt, Fresh, Active, Idle

(* Steps of shards and copiers leave the queue alone. *)
LEMMA QueueKept ==
  ASSUME Queue, UNCHANGED <<describer, descriptors, uploader, uploaded, outcome, resets, resumes>>
  PROVE  Queue'
BY DEF Queue, QueueAt, Fresh, Active, Uploading

(* The other backups are where they were. *)
LEMMA OthersStay ==
  ASSUME NEW b \in Backups, NEW a \in Backups, a # b, QueueAt(a),
         Active(a)' => Active(a), Active(a) => Active(a)' /\ Uploading' = Uploading,
         describer'[a] = describer[a], descriptors'[a] = descriptors[a], uploaded'[a] = uploaded[a],
         outcome'[a] = outcome[a], resets'[a] = resets[a], resumes'[a] = resumes[a]
  PROVE  QueueAt(a)'
BY DEF QueueAt, Fresh

(* A description of the class in turn; when it fails the class may be      *)
(* released.                                                               *)
LEMMA DescribeQueue ==
  ASSUME Types, Queue, NEW b \in Backups, NEW error \in {"none", "failed"}, describer[b].left # <<>>,
         Describe(b, Head(describer[b].left), error),
         UNCHANGED <<uploader, uploaded, outcome, resumes>>,
         \/ resets' = resets
         \/ error = "failed" /\ resets' = [resets EXCEPT ![b][Head(describer[b].left)] = @ + 1]
  PROVE  Queue'
<1> DEFINE left == describer[b].left
           ds == descriptors[b]
           d == [class |-> Head(left), error |-> error, listed |-> generation[Head(left)]]
           left2 == IF error = "none" THEN Tail(left) ELSE <<>>
<1>1. left \in Seq(Classes) /\ ds \in Seq(Descriptor) /\ Head(left) \in Classes
      BY DEF Types, DescriberTypes
<1>2. d \in Descriptor
      BY <1>1 DEF Types, ShardTypes, Descriptor
<1>3. /\ describer' = [describer EXCEPT ![b] = [left |-> left2, at |-> "init"]]
      /\ descriptors' = [descriptors EXCEPT ![b] = Append(ds, d)]
      BY DEF Describe
<1>4. describer'[b].left = left2 /\ descriptors'[b] = Append(ds, d)
      BY <1>3 DEF Types, DescriberTypes
<1>5. ASSUME NEW k \in Classes, resets'[b][k] # resets[b][k] PROVE k = Head(left) /\ error = "failed"
      BY <1>1, <1>5 DEF Types, ReleaseTypes
<1> HIDE DEF left, ds, d, left2
<1>6. ASSUME NEW a \in Backups, a # b PROVE QueueAt(a)'
  <2>1. describer'[a] = describer[a] /\ descriptors'[a] = descriptors[a] /\ resets'[a] = resets[a]
        BY <1>3, <1>6 DEF Types, DescriberTypes, ReleaseTypes
  <2> QED
      BY <1>6, <2>1, OthersStay DEF Queue, Active, Uploading
<1>7. QueueAt(b)'
  <2>1. Uploading' = Uploading /\ (Active(b)' <=> Active(b)) /\ uploaded' = uploaded
        BY DEF Active, Uploading
  <2>2. QueueAt(b) /\ left = describer[b].left /\ ds = descriptors[b] /\ left # <<>>
        BY DEF Queue, left, ds
  <2>3. Fresh(b)'
        BY <2>1, <2>2 DEF QueueAt, Fresh
  <2>4. ASSUME Active(b)
        PROVE  /\ Placed(left2, Append(ds, d), Uploading, uploaded[b])
               /\ Covers(left2, Append(ds, d), Uploading, uploaded[b])
               /\ InHand(left2, Append(ds, d), Uploading) \subseteq InHand(left, ds, Uploading)
               /\ error = "failed" => Head(left) \notin InHand(left2, Append(ds, d), Uploading)
    <3>1. Placed(left, ds, Uploading, uploaded[b]) /\ Covers(left, ds, Uploading, uploaded[b])
          BY <2>2, <2>4 DEF QueueAt
    <3>2. d.class = Head(left) /\ d.error = error
          BY DEF d
    <3>3. CASE error = "none"
          BY <1>1, <1>2, <2>2, <3>1, <3>2, <3>3, Described DEF left2
    <3>4. CASE error = "failed"
          BY <1>1, <1>2, <2>2, <3>1, <3>2, <3>4, DescribedBadly DEF left2
    <3> QED
        BY <3>3, <3>4
  <2>5. ASSUME Active(b), NEW k \in InHand(left2, Append(ds, d), Uploading)
        PROVE  resets'[b][k] = 0 /\ resumes'[b][k] = 0
    <3>1. resets[b][k] = 0 /\ resumes[b][k] = 0
          BY <2>2, <2>4, <2>5 DEF QueueAt
    <3>2. CASE resets' = resets
          BY <3>1, <3>2
    <3>3. CASE error = "failed" /\ resets' = [resets EXCEPT ![b][Head(left)] = @ + 1]
      <4>1. k # Head(left)
            BY <2>4, <2>5, <3>3
      <4> QED
          BY <3>1, <3>3, <4>1, <1>1 DEF Types, ReleaseTypes
    <3> QED
        BY <3>2, <3>3 DEF left
  <2>6. outcome'[b] = "success" => uploaded'[b] = Classes
        BY <2>2 DEF QueueAt
  <2> QED
      BY <1>4, <2>1, <2>3, <2>4, <2>5, <2>6 DEF QueueAt
<1> QED
    BY <1>6, <1>7 DEF Queue

(* The other steps of the goroutine of BackupDescriptors. *)
LEMMA DescriberQueue ==
  ASSUME Types, Queue, NEW b \in Backups, DescribeClasses(b)
  PROVE  Queue'
<1>1. ASSUME NEW at, describer' = [describer EXCEPT ![b].at = at], describer[b].left # <<>>,
             UNCHANGED <<descriptors, uploader, uploaded, outcome, resets, resumes>>
      PROVE  Queue'
  <2>1. \A a \in Backups : describer'[a].left = describer[a].left /\ (a # b => describer'[a] = describer[a])
        BY <1>1 DEF Types, DescriberTypes
  <2>2. outcome[b] # "none" \/ Active(b)
        BY <1>1 DEF Queue, QueueAt, Fresh
  <2>3. \A a \in Backups : Fresh(a)'
        BY <1>1, <2>1, <2>2 DEF Queue, QueueAt, Fresh, Active
  <2>4. Uploading' = Uploading /\ \A a \in Backups : Active(a)' <=> Active(a)
        BY <1>1 DEF Active, Uploading
  <2>5. ASSUME NEW a \in Backups PROVE QueueAt(a)'
    <3>1. QueueAt(a) /\ describer'[a].left = describer[a].left
          BY <2>1 DEF Queue
    <3> QED
        BY <1>1, <2>3, <2>4, <3>1 DEF QueueAt
  <2> QED
      BY <2>5 DEF Queue
<1>2. CASE InitBackup(b)
      BY <1>1, <1>2, DescribeQueue DEF InitBackup, Describing, releaseVars
<1>3. CASE HaltForBackup(b)
      BY <1>1, <1>3 DEF HaltForBackup, Describing, releaseVars
<1>4. CASE HaltForBackupFails(b)
      BY <1>4, DescribeQueue DEF HaltForBackupFails, Describing
<1>5. CASE ListForBackup(b)
  <2>1. CASE UNCHANGED <<describer, descriptors, resets>>
        BY <1>5, <2>1, QueueKept DEF ListForBackup
  <2>2. CASE Describe(b, Head(describer[b].left), "none") /\ UNCHANGED resets
        BY <1>5, <2>2, DescribeQueue DEF ListForBackup, Describing
  <2>3. CASE /\ Describe(b, Head(describer[b].left), "failed")
             /\ resets' = [resets EXCEPT ![b][Head(describer[b].left)] = @ + 1]
        BY <1>5, <2>3, DescribeQueue DEF ListForBackup, Describing
  <2> QED
      BY <1>5, <2>1, <2>2, <2>3 DEF ListForBackup
<1> QED
    BY <1>2, <1>3, <1>4, <1>5 DEF DescribeClasses

(* A backup that ends releases its classes, and has an outcome. *)
LEMMA ConcludeQueue ==
  ASSUME Types, Queue, uploader.pc = "receive", NEW how \in {"success", "failed"}, NEW n \in Nat,
         Conclude(how, n), how = "success" => uploaded[uploader.backup] = Classes,
         \A a \in Backups : a # uploader.backup => descriptors'[a] = descriptors[a],
         UNCHANGED <<describer, uploaded, resumes>>
  PROVE  Queue'
<1>1. uploader.backup \in Backups
      BY DEF Types, UploaderTypes
<1>2. \A a \in Backups : ~Active(a)'
      BY DEF Conclude, Active, Idle
<1>3. outcome'[uploader.backup] = how
      BY <1>1 DEF Conclude, Types, UploaderTypes
<1>4. \A a \in Backups : a # uploader.backup =>
         ~Active(a) /\ outcome'[a] = outcome[a] /\ resets'[a] = resets[a]
      BY DEF Conclude, ReleaseIndexes, Active, Types, UploaderTypes, ReleaseTypes
<1> QED
    BY <1>2, <1>3, <1>4 DEF Queue, QueueAt, Fresh

LEMMA InHandClasses ==
  ASSUME NEW left \in Seq(Classes), NEW ds \in Seq(Descriptor), NEW ups \in SUBSET Classes
  PROVE  InHand(left, ds, ups) \subseteq Classes
<1>1. \A i \in DOMAIN ds : ds[i] \in Descriptor
      OBVIOUS
<1>2. \A i \in DOMAIN ds : ds[i].class \in Classes
      BY <1>1 DEF Descriptor
<1>3. \A i \in DOMAIN left : left[i] \in Classes
      OBVIOUS
<1> QED
    BY <1>2, <1>3 DEF InHand, Left, Good

LEMMA StartQueue ==
  ASSUME Types, Queue, NEW b \in Backups, StartBackup(b)
  PROVE  Queue'
<1>1. \A a \in Backups : ~Active(a)
      BY DEF StartBackup, Active
<1>2. outcome[b] = "none" /\ QueueAt(b)
      BY DEF StartBackup, Queue
<1>3. /\ descriptors[b] = <<>> /\ uploaded[b] = {}
      /\ \A k \in Classes : resets[b][k] = 0 /\ resumes[b][k] = 0
      BY <1>1, <1>2 DEF QueueAt, Fresh
<1>4. \A a \in Backups : (a # b => describer'[a] = describer[a] /\ ~Active(a)')
      BY DEF StartBackup, Active, Idle, Types, DescriberTypes
<1>5. describer'[b].left = Requested /\ Active(b)' /\ Uploading' = {}
      BY Constants DEF StartBackup, Active, Uploading, Idle, Types, DescriberTypes
<1>6. Placed(Requested, <<>>, {}, {})
      BY TransfersAssumption, EmptySeq DEF Placed
<1>7. Covers(Requested, <<>>, {}, {})
      BY DEF Covers, Classes
<1>8. InHand(Requested, <<>>, {}) \subseteq Classes
      BY EmptySeq DEF InHand, Left, Good, Classes
<1>9. UNCHANGED <<descriptors, uploaded, outcome, resets, resumes>>
      BY DEF StartBackup, releaseVars
<1>10. QueueAt(b)'
      BY <1>2, <1>3, <1>5, <1>6, <1>7, <1>8, <1>9 DEF QueueAt, Fresh
<1>11. \A a \in Backups : a # b => QueueAt(a)'
      BY <1>1, <1>4, <1>9 DEF Queue, QueueAt, Fresh
<1> QED
    BY <1>10, <1>11 DEF Queue

LEMMA UploaderQueue ==
  ASSUME Types, Queue, UploadAll, NEW b \in Backups, b = uploader.backup
  PROVE  Queue'
<1>1. describer[b].left \in Seq(Classes) /\ descriptors[b] \in Seq(Descriptor)
      BY DEF Types, DescriberTypes
<1>2. CASE ReceiveDescriptor
  <2> DEFINE d == Head(descriptors[b])
  <2>1. /\ uploader.pc = "receive" /\ descriptors[b] # <<>> /\ Active(b) /\ Uploading = {}
        BY <1>2 DEF ReceiveDescriptor, Active, Uploading
  <2>2. /\ descriptors' = [descriptors EXCEPT ![b] = Tail(@)]
        /\ UNCHANGED <<describer, uploaded, resumes>>
        BY <1>2 DEF ReceiveDescriptor
  <2>3. /\ descriptors'[b] = Tail(descriptors[b])
        /\ \A a \in Backups : a # b => descriptors'[a] = descriptors[a]
        BY <1>1, <2>1, <2>2 DEF Types, DescriberTypes
  <2>4. CASE d.error = "none"
    <3>1. /\ uploader' = [uploader EXCEPT !.pc = "upload", !.class = d.class, !.listed = d.listed]
          /\ UNCHANGED <<outcome, resets>>
          BY <1>2, <2>4 DEF ReceiveDescriptor
    <3>2. Active(b)' /\ Uploading' = {d.class} /\ \A a \in Backups : a # b => ~Active(a) /\ ~Active(a)'
          BY <2>1, <3>1 DEF Active, Uploading, Types, UploaderTypes
    <3>3. QueueAt(b)
          BY <1>1, <2>1 DEF Queue
    <3>4. /\ Placed(describer[b].left, Tail(descriptors[b]), {d.class}, uploaded[b])
          /\ Covers(describer[b].left, Tail(descriptors[b]), {d.class}, uploaded[b])
          /\ InHand(describer[b].left, Tail(descriptors[b]), {d.class})
                 \subseteq InHand(describer[b].left, descriptors[b], {})
          BY <1>1, <2>1, <2>4, <3>3, Received DEF QueueAt
    <3>5. QueueAt(b)'
          BY <2>1, <2>2, <2>3, <3>1, <3>2, <3>3, <3>4 DEF QueueAt, Fresh
    <3>6. \A a \in Backups : a # b => QueueAt(a)'
          BY <2>2, <2>3, <3>1, <3>2 DEF Queue, QueueAt, Fresh
    <3> QED
        BY <3>5, <3>6 DEF Queue
  <2>5. CASE d.error # "none"
        BY <1>2, <2>1, <2>2, <2>3, <2>5, ConcludeQueue DEF ReceiveDescriptor
  <2> QED
      BY <2>4, <2>5
<1>3. CASE AllReceived
  <2>1. /\ uploader.pc = "receive" /\ Active(b) /\ Uploading = {}
        /\ descriptors[b] = <<>> /\ describer[b].left = <<>>
        BY <1>3 DEF AllReceived, Active, Uploading
  <2>2. Covers(<<>>, <<>>, {}, uploaded[b])
        BY <1>1, <2>1 DEF Queue, QueueAt
  <2>3. Classes \subseteq uploaded[b]
        BY <2>2, EmptySeq DEF Covers
  <2>4. uploaded[b] = Classes
        BY <1>1, <2>1, <2>3 DEF Types, UploaderTypes
  <2> QED
      BY <1>3, <2>1, <2>4, ConcludeQueue DEF AllReceived
<1>4. CASE SeeAbort
      BY <1>4, ConcludeQueue DEF SeeAbort
<1>5. CASE UploadClass
  <2> DEFINE k == uploader.class
  <2>1. uploader.pc = "upload" /\ Active(b) /\ Uploading = {k} /\ b \in Backups /\ k \in Classes
        BY <1>1, <1>5 DEF UploadClass, Active, Uploading, Types, UploaderTypes
  <2>2. QueueAt(b)
        BY <2>1 DEF Queue
  <2>3. UNCHANGED <<describer, descriptors, resumes>>
        BY <1>5 DEF UploadClass
  <2>4. CASE /\ uploaded' = [uploaded EXCEPT ![b] = @ \cup {k}]
             /\ resets' = [resets EXCEPT ![b][k] = @ + 1]
             /\ uploader' = [Idle EXCEPT !.pc = "receive", !.backup = b]
             /\ UNCHANGED outcome
    <3>1. Active(b)' /\ Uploading' = {} /\ \A a \in Backups : a # b => ~Active(a) /\ ~Active(a)'
          BY <2>1, <2>4 DEF Active, Uploading, Idle
    <3>2. /\ uploaded'[b] = uploaded[b] \cup {k}
          /\ \A j \in Classes : j # k => resets'[b][j] = resets[b][j]
          /\ \A a \in Backups : a # b => uploaded'[a] = uploaded[a] /\ resets'[a] = resets[a]
          BY <2>1, <2>4 DEF Types, UploaderTypes, ReleaseTypes
    <3>3. /\ Placed(describer[b].left, descriptors[b], {}, uploaded[b] \cup {k})
          /\ Covers(describer[b].left, descriptors[b], {}, uploaded[b] \cup {k})
          /\ InHand(describer[b].left, descriptors[b], {})
                 \subseteq InHand(describer[b].left, descriptors[b], {k}) \ {k}
          BY <2>1, <2>2, Uploaded DEF QueueAt
    <3>4. InHand(describer[b].left, descriptors[b], {}) \subseteq Classes
          BY <1>1, InHandClasses
    <3>5. QueueAt(b)'
      <4>1. outcome[b] = "none" /\ Fresh(b)'
            BY <2>1, <2>2, <2>4, <3>1 DEF QueueAt, Fresh
      <4>2. ASSUME NEW j \in InHand(describer[b].left, descriptors[b], {}) PROVE resets'[b][j] = 0 /\ resumes'[b][j] = 0
        <5>1. j # k /\ j \in Classes /\ j \in InHand(describer[b].left, descriptors[b], {k})
              BY <3>3, <3>4, <4>2
        <5>2. resets[b][j] = 0 /\ resumes[b][j] = 0
              BY <2>1, <2>2, <5>1 DEF QueueAt
        <5> QED
            BY <2>3, <3>2, <5>1, <5>2
      <4> QED
          BY <2>3, <2>4, <3>1, <3>2, <3>3, <4>1, <4>2 DEF QueueAt
    <3>6. \A a \in Backups : a # b => QueueAt(a)'
          BY <2>3, <2>4, <3>1, <3>2 DEF Queue, QueueAt, Fresh
    <3> QED
        BY <3>5, <3>6 DEF Queue
  <2>5. CASE /\ outcome' = [outcome EXCEPT ![b] = "failed"]
             /\ resets' = [resets EXCEPT ![b] = [j \in Classes |-> @[j] + (IF j = k THEN 2 ELSE 1)]]
             /\ uploader' = [Idle EXCEPT !.pc = "metadata", !.backup = b]
             /\ UNCHANGED uploaded
    <3>1. \A a \in Backups : ~Active(a)'
          BY <2>5 DEF Active, Idle
    <3>2. outcome'[b] = "failed"
          BY <2>1, <2>5 DEF Types, UploaderTypes
    <3>3. \A a \in Backups : a # b => ~Active(a) /\ outcome'[a] = outcome[a] /\ resets'[a] = resets[a]
          BY <2>1, <2>5 DEF Active, Types, UploaderTypes, ReleaseTypes
    <3> QED
        BY <2>3, <2>5, <3>1, <3>2, <3>3 DEF Queue, QueueAt, Fresh
  <2> QED
      BY <1>5, <2>4, <2>5 DEF UploadClass
<1>6. CASE FinishBackup
  <2>1. \A a \in Backups : ~Active(a) /\ ~Active(a)'
        BY <1>6 DEF FinishBackup, Active, Idle
  <2>2. UNCHANGED <<describer, descriptors, uploaded, outcome, resets, resumes>>
        BY <1>6 DEF FinishBackup, releaseVars
  <2> QED
      BY <2>1, <2>2 DEF Queue, QueueAt, Fresh
<1> QED
    BY <1>2, <1>3, <1>4, <1>5, <1>6 DEF UploadAll

(* Releases concern classes that are not in hand. *)
LEMMA ReleaseQueue ==
  ASSUME Types, Queue, NEW b \in Backups, NEW k \in Classes, ReleaseBackup(b, k)
  PROVE  Queue'
<1>1. /\ UNCHANGED <<describer, descriptors, uploader, uploaded, outcome>>
      /\ resets[b][k] # 0 \/ resumes[b][k] # 0
      /\ \A a \in Backups, j \in Classes : a # b \/ j # k =>
           resets'[a][j] = resets[a][j] /\ resumes'[a][j] = resumes[a][j]
  <2>1. CASE ResetBackupState(b, k)
        BY <2>1 DEF ResetBackupState, backupVars, Types, ReleaseTypes
  <2>2. CASE ResumeAfterBackup(b, k)
        BY <2>2 DEF ResumeAfterBackup, backupVars, Types, ReleaseTypes
  <2> QED
      BY <2>1, <2>2 DEF ReleaseBackup
<1>2. ASSUME NEW a \in Backups PROVE InHand(describer[a].left, descriptors[a], Uploading) \subseteq Classes
  <2>1. describer[a].left \in Seq(Classes) /\ descriptors[a] \in Seq(Descriptor) /\ Uploading \subseteq Classes
        BY DEF Types, DescriberTypes, UploaderTypes, Uploading
  <2> QED
      BY <2>1, InHandClasses
<1>3. Active(b) => k \notin InHand(describer[b].left, descriptors[b], Uploading)
      BY <1>1 DEF Queue, QueueAt
<1>4. ~(outcome[b] = "none" /\ ~Active(b))
      BY <1>1 DEF Queue, QueueAt, Fresh
<1>5. ASSUME NEW a \in Backups PROVE QueueAt(a)'
  <2>1. QueueAt(a)
        BY DEF Queue
  <2>2. Uploading' = Uploading /\ (Active(a)' <=> Active(a))
        BY <1>1 DEF Uploading, Active
  <2>3. Fresh(a)'
    <3>1. CASE a = b
          BY <1>1, <1>4, <2>1, <2>2, <3>1 DEF QueueAt, Fresh
    <3>2. CASE a # b
          BY <1>1, <2>1, <2>2, <3>2 DEF QueueAt, Fresh
    <3> QED
        BY <3>1, <3>2
  <2>4. ASSUME Active(a), NEW j \in InHand(describer[a].left, descriptors[a], Uploading)
        PROVE  resets'[a][j] = 0 /\ resumes'[a][j] = 0
    <3>1. j \in Classes /\ (a # b \/ j # k)
          BY <1>2, <1>3, <2>4
    <3>2. resets[a][j] = 0 /\ resumes[a][j] = 0
          BY <2>1, <2>4 DEF QueueAt
    <3> QED
        BY <1>1, <3>1, <3>2
  <2> QED
      BY <1>1, <2>1, <2>2, <2>3, <2>4 DEF QueueAt
<1> QED
    BY <1>5 DEF Queue

LEMMA QueueStep == Types /\ Queue /\ [Next]_vars => Queue'
<1> SUFFICES ASSUME Types, Queue, [Next]_vars PROVE Queue'
    OBVIOUS
<1>1. CASE UNCHANGED vars
      BY <1>1, QueueKept DEF vars, backupVars, releaseVars
<1>2. ASSUME NEW k \in Classes, Monitor(k) \/ Compact(k) PROVE Queue'
      BY <1>2, QueueKept DEF Monitor, MonitorTimesOut, MonitorResumes, MonitorEnds, Compact, backupVars, releaseVars
<1>3. CASE AbortBackup
      BY <1>3, QueueKept DEF AbortBackup, releaseVars
<1>4. CASE UploadAll
  <2>1. uploader.backup \in Backups
        BY <1>4 DEF UploadAll, ReceiveDescriptor, AllReceived, SeeAbort, UploadClass, FinishBackup, Types, UploaderTypes
  <2> QED
      BY <1>4, <2>1, UploaderQueue
<1>5. ASSUME NEW c \in Copiers, PauseFileActivity(c) \/ CopyReplicaFiles(c) \/ GetFile(c) PROVE Queue'
      BY <1>5, QueueKept DEF PauseFileActivity, CopyReplicaFiles, ListFiles, GetFile, AllRead, ResumeFileActivity,
         backupVars, releaseVars
<1>6. CASE Next
      BY <1>2, <1>3, <1>4, <1>5, <1>6, DescriberQueue, StartQueue, ReleaseQueue
      DEF Next, Monitor, DescribeClasses, UploadAll, ReleaseBackup, CopyReplicaFiles
<1> QED
    BY <1>1, <1>6

LEMMA QueueHolds == TransfersSpec => [](Types /\ Queue)
BY TypesInit, QueueInit, TypesStep, QueueStep, PTL DEF TransfersSpec

(* A backup that reports success uploaded every class of the request:      *)
(* uploader.all (backend.go) sees neither the channel closed nor a last    *)
(* descriptor without error while a class is on its way.                   *)
THEOREM SuccessIsComplete == TransfersSpec => []BackupIsComplete
<1>1. Queue => BackupIsComplete
      BY DEF Queue, QueueAt, BackupIsComplete
<1> QED
    BY <1>1, QueueHolds, PTL

----------------------------------------------------------------------------
(* Halts: who needs a shard to be halted is among those whose halts are    *)
(* counted, but for shards that were robbed of one.                        *)

Halted(b) ==
  {k \in Classes : describer[b].left # <<>> /\ describer[b].at = "list" /\ k = Head(describer[b].left)}
    \cup {descriptors[b][i].class : i \in Good(descriptors[b])} \cup Uploading
Holds(k, x) ==
  \/ \E b \in Backups : Active(b) /\ k \in Halted(b) /\ x = OfBackup(b)
  \/ \E c \in Copiers : copier[c].pc # "idle" /\ CopyOf[c] = k /\ x = OfCopy(copier[c].copy)
ListedAs(k, n) ==
  \/ \E b \in Backups : Active(b) /\ \E i \in Good(descriptors[b]) :
       descriptors[b][i].class = k /\ descriptors[b][i].listed = n
  \/ uploader.pc = "upload" /\ uploader.class = k /\ uploader.listed = n
  \/ \E c \in Copiers : copier[c].pc = "listed" /\ CopyOf[c] = k /\ copier[c].listed = n

Counted ==
  \A k \in Classes :
    /\ IsFiniteSet(holders[k])
    /\ k \notin robbed => Cardinality(holders[k]) <= haltCount[k]
HoldersKnown == \A k \in Classes \ robbed : \A x : Holds(k, x) => x \in holders[k]
ListsTrue == \A k \in Classes \ robbed : \A n : ListedAs(k, n) => n = generation[k]
CopiesDiffer ==
  \A c, i \in Copiers :
    copier[c].pc # "idle" /\ copier[i].pc # "idle" /\ copier[c].copy = copier[i].copy => c = i

Halts == Counted /\ HoldersKnown /\ ListsTrue /\ CopiesDiffer

LEMMA TransfersDiffer ==
  /\ \A a, b : OfBackup(a) = OfBackup(b) => a = b
  /\ \A a, b : OfCopy(a) = OfCopy(b) => a = b
  /\ \A a, b : OfBackup(a) # OfCopy(b)
BY DEF OfBackup, OfCopy

LEMMA HaltsInit == Init => Halts
<1> SUFFICES ASSUME Init PROVE Halts
    OBVIOUS
<1>1. Counted
      BY FS_EmptySet DEF Init, Counted
<1>2. \A b : ~Active(b)
      BY DEF Init, Active, Idle
<1>3. \A c \in Copiers : copier[c].pc = "idle"
      BY DEF Init, NoCopy
<1>4. uploader.pc = "idle"
      BY DEF Init, Idle
<1> QED
    BY <1>1, <1>2, <1>3, <1>4 DEF Halts, HoldersKnown, ListsTrue, CopiesDiffer, Holds, ListedAs

(* What is listed is held, what is held is counted and under way. *)
LEMMA ListedIsHeld ==
  ASSUME Types, NEW k \in Classes, NEW n, ListedAs(k, n)
  PROVE  \E x : Holds(k, x)
<1>1. CASE \E b \in Backups : Active(b) /\ \E i \in Good(descriptors[b]) : descriptors[b][i].class = k
      BY <1>1 DEF Holds, Halted
<1>2. CASE uploader.pc = "upload" /\ uploader.class = k
  <2>1. uploader.backup \in Backups /\ Active(uploader.backup) /\ k \in Halted(uploader.backup)
        BY <1>2 DEF Types, UploaderTypes, Active, Halted, Uploading
  <2> QED
      BY <2>1 DEF Holds
<1>3. CASE \E c \in Copiers : copier[c].pc = "listed" /\ CopyOf[c] = k
      BY <1>3 DEF Holds
<1> QED
    BY <1>1, <1>2, <1>3 DEF ListedAs

LEMMA HeldIsCounted ==
  ASSUME Types, Halts, NEW k \in Classes, k \notin robbed, haltCount[k] = 0
  PROVE  \A x : ~Holds(k, x)
<1>1. IsFiniteSet(holders[k]) /\ Cardinality(holders[k]) <= 0
      BY DEF Halts, Counted
<1>2. holders[k] = {}
      BY <1>1, FS_EmptySet, FS_CardinalityType
<1> QED
    BY <1>2 DEF Halts, HoldersKnown

LEMMA HaltedInHand ==
  ASSUME Types, NEW b \in Backups
  PROVE  Halted(b) \subseteq InHand(describer[b].left, descriptors[b], Uploading)
<1>1. describer[b].left \in Seq(Classes)
      BY DEF Types, DescriberTypes
<1> QED
    BY <1>1, HeadTail DEF Halted, InHand, Left

LEMMA HeldIsUnderWay ==
  ASSUME Types, Queue, NEW k \in Classes, NEW x, Holds(k, x)
  PROVE  x \in UnderWay(k)
<1>1. ASSUME NEW b \in Backups, Active(b), k \in Halted(b), x = OfBackup(b)
      PROVE  x \in UnderWay(k)
  <2>1. QueueAt(b)
        BY DEF Queue
  <2>2. outcome[b] = "none" /\ uploader.backup = b /\ Placed(describer[b].left, descriptors[b], Uploading, uploaded[b])
        BY <1>1, <2>1 DEF QueueAt, Fresh, Active
  <2>3. k \in InHand(describer[b].left, descriptors[b], Uploading)
        BY <1>1, HaltedInHand
  <2>4. k \notin uploaded[b]
        BY <2>2, <2>3 DEF Placed, InHand, Left, Good
  <2> QED
      BY <1>1, <2>2, <2>4 DEF UnderWay
<1>2. ASSUME NEW c \in Copiers, copier[c].pc # "idle", CopyOf[c] = k, x = OfCopy(copier[c].copy)
      PROVE  x \in UnderWay(k)
      BY <1>2 DEF UnderWay
<1> QED
    BY <1>1, <1>2 DEF Holds

(* A step that takes no halt and no file away: what is held was held, and  *)
(* what is listed was listed, or is listed now.                            *)
LEMMA HaltsKept ==
  ASSUME Halts, UNCHANGED <<haltCount, holders, robbed, generation>>, CopiesDiffer',
         \A k \in Classes : \A x : Holds(k, x)' => Holds(k, x),
         \A k \in Classes : \A n : ListedAs(k, n)' => ListedAs(k, n) \/ n = generation[k]
  PROVE  Halts'
BY DEF Halts, Counted, HoldersKnown, ListsTrue

(* A backup whose classes are halted no more than before. *)
LEMMA QueueHalts ==
  ASSUME Halts, UNCHANGED <<haltCount, holders, robbed, generation, copier>>,
         \A b \in Backups : Active(b)' =>
           /\ (Halted(b)' = {} \/ (Active(b) /\ Halted(b)' \subseteq Halted(b)))
           /\ \A i \in Good(descriptors'[b]) :
                LET d == descriptors'[b][i] IN
                  ListedAs(d.class, d.listed) \/ d.listed = generation[d.class],
         uploader'.pc = "upload" => ListedAs(uploader'.class, uploader'.listed)
  PROVE  Halts'
<1>1. CopiesDiffer'
      BY DEF Halts, CopiesDiffer
<1>2. \A k \in Classes : \A x : Holds(k, x)' => Holds(k, x)
      BY DEF Holds
<1>3. \A k \in Classes : \A n : ListedAs(k, n)' => ListedAs(k, n) \/ n = generation[k]
      BY DEF ListedAs
<1> QED
    BY <1>1, <1>2, <1>3, HaltsKept

LEMMA MonitorHalts ==
  ASSUME Types, Queue, Halts, NEW k \in Classes, Monitor(k) \/ Compact(k)
  PROVE  Halts'
<1>1. UNCHANGED <<describer, descriptors, uploader, copier>>
      BY DEF Monitor, MonitorTimesOut, MonitorResumes, MonitorEnds, Compact, backupVars, copyVars
<1>2. /\ CopiesDiffer'
      /\ \A j, x : Holds(j, x)' <=> Holds(j, x)
      /\ \A j, n : ListedAs(j, n)' <=> ListedAs(j, n)
      BY <1>1 DEF Halts, CopiesDiffer, Holds, ListedAs, Active, Halted, Uploading
<1>3. CASE MonitorTimesOut(k) \/ MonitorEnds(k)
      BY <1>2, <1>3, HaltsKept DEF MonitorTimesOut, MonitorEnds, history
<1>4. CASE MonitorResumes(k)
  <2>1. generation' = generation /\ robbed \subseteq robbed'
        BY <1>4 DEF MonitorResumes
  <2>2. ASSUME NEW j \in Classes, j # k
        PROVE  haltCount'[j] = haltCount[j] /\ holders'[j] = holders[j]
        BY <1>4, <2>2 DEF MonitorResumes, Types, ShardTypes, HistoryTypes
  <2>3. haltCount'[k] = 0 /\ holders'[k] = {} /\ IsFiniteSet(holders'[k]) /\ Cardinality(holders'[k]) = 0
        BY <1>4, FS_EmptySet DEF MonitorResumes, Types, ShardTypes, HistoryTypes
  <2>4. Counted'
        BY <2>1, <2>2, <2>3 DEF Halts, Counted
  <2>5. ASSUME k \notin robbed', NEW x, Holds(k, x) PROVE FALSE
        BY <1>4, <2>1, <2>5, HeldIsUnderWay DEF MonitorResumes, Halts, HoldersKnown
  <2>6. HoldersKnown'
        BY <1>2, <2>1, <2>2, <2>5 DEF Halts, HoldersKnown
  <2>7. ListsTrue'
        BY <1>2, <2>1 DEF Halts, ListsTrue
  <2> QED
      BY <1>2, <2>4, <2>6, <2>7 DEF Halts
<1>5. CASE Compact(k)
  <2>1. UNCHANGED <<haltCount, holders, robbed>> /\ haltCount[k] = 0
        BY <1>5 DEF Compact, history
  <2>2. \A j \in Classes : j # k => generation'[j] = generation[j]
        BY <1>5 DEF Compact, Types, ShardTypes
  <2>3. ASSUME k \notin robbed, NEW n, ListedAs(k, n) PROVE FALSE
        BY <2>1, <2>3, ListedIsHeld, HeldIsCounted
  <2>4. ListsTrue'
        BY <1>2, <2>1, <2>2, <2>3 DEF Halts, ListsTrue
  <2> QED
      BY <1>2, <2>1, <2>4 DEF Halts, Counted, HoldersKnown
<1> QED
    BY <1>3, <1>4, <1>5 DEF Monitor

(* A halt by x, who alone needs a halt it did not need before. *)
LEMMA NewHalt ==
  ASSUME Types, Halts, NEW k \in Classes, NEW x, NEW timed, HaltForTransfer(k, x, timed),
         UNCHANGED <<robbed, generation>>, CopiesDiffer',
         \A j \in Classes : \A y : Holds(j, y)' => Holds(j, y) \/ (j = k /\ y = x),
         \A j \in Classes : \A n : ListedAs(j, n)' => ListedAs(j, n)
  PROVE  Halts'
<1>1. /\ haltCount' = [haltCount EXCEPT ![k] = @ + 1]
      /\ holders' = [holders EXCEPT ![k] = @ \cup {x}]
      BY DEF HaltForTransfer
<1>2. /\ haltCount'[k] = haltCount[k] + 1 /\ holders'[k] = holders[k] \cup {x} /\ haltCount[k] \in Nat
      /\ \A j \in Classes : j # k => haltCount'[j] = haltCount[j] /\ holders'[j] = holders[j]
      BY <1>1 DEF Types, ShardTypes, HistoryTypes
<1>3. IsFiniteSet(holders[k]) /\ Cardinality(holders[k]) \in Nat
      BY FS_CardinalityType DEF Halts, Counted
<1>4. IsFiniteSet(holders'[k]) /\ Cardinality(holders'[k]) <= Cardinality(holders[k]) + 1
  <2>1. /\ IsFiniteSet(holders[k] \cup {x})
        /\ Cardinality(holders[k] \cup {x}) = IF x \in holders[k] THEN Cardinality(holders[k]) ELSE Cardinality(holders[k]) + 1
        BY <1>3, FS_AddElement
  <2> QED
      BY <1>2, <1>3, <2>1
<1>5. k \notin robbed => Cardinality(holders'[k]) <= haltCount'[k]
  <2>1. k \notin robbed => Cardinality(holders[k]) <= haltCount[k]
        BY DEF Halts, Counted
  <2>2. Cardinality(holders'[k]) \in Nat
        BY <1>4, FS_CardinalityType
  <2> QED
      BY <1>2, <1>3, <1>4, <2>1, <2>2
<1>6. Counted'
      BY <1>2, <1>4, <1>5 DEF Halts, Counted
<1>7. HoldersKnown'
      BY <1>2 DEF Halts, HoldersKnown
<1>8. ListsTrue'
      BY DEF Halts, ListsTrue
<1> QED
    BY <1>6, <1>7, <1>8 DEF Halts

(* A resume on behalf of x, who does not need its halt any more. *)
LEMMA HaltEnds ==
  ASSUME Types, Halts, NEW k \in Classes, NEW x, ResumeMaintenanceCycles(k, x), generation' = generation,
         CopiesDiffer', \A j \in Classes : \A y : Holds(j, y)' => Holds(j, y) /\ (j = k => y # x),
         \A j \in Classes : \A n : ListedAs(j, n)' => ListedAs(j, n)
  PROVE  Halts'
<1>1. CASE haltCount[k] = 0
  <2>1. UNCHANGED <<haltCount, holders, robbed>>
        BY <1>1 DEF ResumeMaintenanceCycles
  <2> QED
      BY <2>1, HaltsKept
<1>2. CASE haltCount[k] # 0
  <2>1. /\ haltCount' = [haltCount EXCEPT ![k] = @ - 1]
        /\ holders' = [holders EXCEPT ![k] = @ \ {x}]
        /\ robbed' = IF x \in holders[k] THEN robbed ELSE robbed \cup {k}
        BY <1>2 DEF ResumeMaintenanceCycles
  <2>2. /\ haltCount'[k] = haltCount[k] - 1 /\ holders'[k] = holders[k] \ {x} /\ haltCount[k] \in Nat
        /\ \A j \in Classes : j # k => haltCount'[j] = haltCount[j] /\ holders'[j] = holders[j]
        BY <2>1 DEF Types, ShardTypes, HistoryTypes
  <2>3. IsFiniteSet(holders[k]) /\ Cardinality(holders[k]) \in Nat
        BY FS_CardinalityType DEF Halts, Counted
  <2>4. IsFiniteSet(holders'[k])
        BY <2>2, <2>3, FS_RemoveElement
  <2>5. ASSUME k \notin robbed' PROVE Cardinality(holders'[k]) <= haltCount'[k]
    <3>1. x \in holders[k] /\ k \notin robbed
          BY <2>1, <2>5
    <3>2. Cardinality(holders'[k]) = Cardinality(holders[k]) - 1
          BY <2>2, <2>3, <3>1, FS_RemoveElement
    <3>3. Cardinality(holders[k]) <= haltCount[k]
          BY <3>1 DEF Halts, Counted
    <3> QED
        BY <2>2, <2>3, <3>2, <3>3
  <2>6. Counted'
        BY <2>1, <2>2, <2>4, <2>5 DEF Halts, Counted
  <2>7. HoldersKnown'
        BY <2>1, <2>2 DEF Halts, HoldersKnown
  <2>8. ListsTrue'
        BY <2>1 DEF Halts, ListsTrue
  <2> QED
      BY <2>6, <2>7, <2>8 DEF Halts
<1> QED
    BY <1>1, <1>2

LEMMA DescribedHalts ==
  ASSUME Types, Halts, NEW b \in Backups, NEW error \in {"none", "failed"}, describer[b].left # <<>>,
         Describe(b, Head(describer[b].left), error),
         error = "none" => describer[b].at = "list",
         UNCHANGED <<haltCount, holders, robbed, generation, uploader, copier>>
  PROVE  Halts'
<1> DEFINE left == describer[b].left
           ds == descriptors[b]
           d == [class |-> Head(left), error |-> error, listed |-> generation[Head(left)]]
<1>1. left \in Seq(Classes) /\ ds \in Seq(Descriptor) /\ Head(left) \in Classes
      BY DEF Types, DescriberTypes
<1>2. d \in Descriptor
      BY <1>1 DEF Types, ShardTypes, Descriptor
<1>3. /\ describer'[b].at = "init" /\ descriptors'[b] = Append(ds, d)
      /\ \A a \in Backups : a # b => describer'[a] = describer[a] /\ descriptors'[a] = descriptors[a]
      BY DEF Describe, Types, DescriberTypes
<1>4. Uploading' = Uploading /\ \A a \in Backups : Active(a)' <=> Active(a)
      BY DEF Active, Uploading
<1>5. d.error = error /\ d.class = Head(left) /\ d.listed = generation[Head(left)]
      OBVIOUS
<1> HIDE DEF ds, d
<1>6. \A i \in Good(descriptors'[b]) :
        (i \in Good(ds) /\ descriptors'[b][i] = ds[i]) \/ (descriptors'[b][i] = d /\ error = "none")
  <2> SUFFICES ASSUME NEW i \in Good(descriptors'[b])
               PROVE  (i \in Good(ds) /\ descriptors'[b][i] = ds[i]) \/ (descriptors'[b][i] = d /\ error = "none")
      OBVIOUS
  <2>1. i \in DOMAIN Append(ds, d) /\ Append(ds, d)[i].error = "none"
        BY <1>3 DEF Good
  <2>2. CASE i \in DOMAIN ds
        BY <1>1, <1>2, <1>3, <2>1, <2>2, Appended DEF Good
  <2>3. CASE i = Len(ds) + 1
        BY <1>1, <1>2, <1>3, <1>5, <2>1, <2>3, Appended
  <2> QED
      BY <1>1, <1>2, <2>1, <2>2, <2>3, Appended
<1>7. Halted(b)' \subseteq Halted(b)
      BY <1>1, <1>3, <1>4, <1>5, <1>6 DEF Halted, ds
<1>8. ASSUME Active(b), NEW i \in Good(descriptors'[b])
      PROVE  LET e == descriptors'[b][i] IN ListedAs(e.class, e.listed) \/ e.listed = generation[e.class]
      BY <1>5, <1>6, <1>8 DEF ListedAs, ds
<1>9. ASSUME NEW a \in Backups, a # b, Active(a)
      PROVE  /\ Halted(a)' \subseteq Halted(a)
             /\ \A i \in Good(descriptors'[a]) :
                  ListedAs(descriptors'[a][i].class, descriptors'[a][i].listed)
      BY <1>3, <1>4, <1>9 DEF Halted, ListedAs
<1>10. uploader'.pc = "upload" => ListedAs(uploader'.class, uploader'.listed)
      BY DEF ListedAs
<1> QED
    BY <1>4, <1>7, <1>8, <1>9, <1>10, QueueHalts

LEMMA DescriberHalts ==
  ASSUME Types, Halts, NEW b \in Backups, DescribeClasses(b)
  PROVE  Halts'
<1>1. ASSUME UNCHANGED <<haltCount, holders, robbed, generation, uploader, copier, descriptors>>,
             \A a \in Backups : Halted(a)' \subseteq Halted(a)
      PROVE  Halts'
      BY <1>1, QueueHalts DEF Active, ListedAs
<1>2. CASE InitBackup(b)
  <2>1. CASE lastBackup[Head(describer[b].left)] = None
    <3>1. describer' = [describer EXCEPT ![b].at = "halt"] /\ UNCHANGED <<descriptors, uploader>>
          BY <1>2, <2>1 DEF InitBackup
    <3>2. \A a \in Backups : Halted(a)' \subseteq Halted(a)
          BY <3>1 DEF Halted, Uploading, Types, DescriberTypes
    <3> QED
        BY <1>1, <1>2, <3>1, <3>2 DEF InitBackup, copyVars, history
  <2>2. CASE lastBackup[Head(describer[b].left)] # None
        BY <1>2, <2>2, DescribedHalts DEF InitBackup, Describing, copyVars, history
  <2> QED
      BY <2>1, <2>2
<1>3. CASE HaltForBackup(b)
  <2> DEFINE k == Head(describer[b].left)
  <2>1. /\ describer' = [describer EXCEPT ![b].at = "list"] /\ describer[b].left # <<>>
        /\ HaltForTransfer(k, OfBackup(b), FALSE)
        /\ UNCHANGED <<descriptors, uploader, copier, robbed, generation>>
        BY <1>3 DEF HaltForBackup, Describing, copyVars
  <2>2. k \in Classes
        BY <2>1 DEF Types, DescriberTypes
  <2>3. \A a \in Backups : (Active(a)' <=> Active(a)) /\ (a # b => Halted(a)' = Halted(a))
        BY <2>1 DEF Active, Halted, Uploading, Types, DescriberTypes
  <2>4. Halted(b)' \subseteq Halted(b) \cup {k}
    <3>1. describer'[b].left = describer[b].left
          BY <2>1 DEF Types, DescriberTypes
    <3> QED
        BY <2>1, <3>1 DEF Halted, Uploading
  <2>5. CopiesDiffer'
        BY <2>1 DEF Halts, CopiesDiffer
  <2>6. \A j \in Classes : \A y : Holds(j, y)' => Holds(j, y) \/ (j = k /\ y = OfBackup(b))
    <3> SUFFICES ASSUME NEW j \in Classes, NEW y, Holds(j, y)' PROVE Holds(j, y) \/ (j = k /\ y = OfBackup(b))
        OBVIOUS
    <3>1. CASE \E a \in Backups : Active(a)' /\ j \in Halted(a)' /\ y = OfBackup(a)
          BY <2>3, <2>4, <3>1 DEF Holds
    <3>2. CASE \E c \in Copiers : copier'[c].pc # "idle" /\ CopyOf[c] = j /\ y = OfCopy(copier'[c].copy)
          BY <2>1, <3>2 DEF Holds
    <3> QED
        BY <3>1, <3>2 DEF Holds
  <2>7. \A j \in Classes : \A n : ListedAs(j, n)' => ListedAs(j, n)
        BY <2>1, <2>3 DEF ListedAs
  <2> HIDE DEF k
  <2> QED
      BY <2>1, <2>2, <2>5, <2>6, <2>7, NewHalt
<1>4. CASE HaltForBackupFails(b)
      BY <1>4, DescribedHalts DEF HaltForBackupFails, Describing, shardVars, copyVars, history
<1>5. CASE ListForBackup(b)
  <2>1. CASE UNCHANGED <<describer, descriptors>>
    <3>1. \A a \in Backups : Halted(a)' \subseteq Halted(a)
          BY <1>5, <2>1 DEF ListForBackup, Halted, Uploading
    <3> QED
        BY <1>1, <1>5, <2>1, <3>1 DEF ListForBackup, copyVars
  <2>2. CASE Describe(b, Head(describer[b].left), "none")
        BY <1>5, <2>2, DescribedHalts DEF ListForBackup, Describing, copyVars
  <2>3. CASE Describe(b, Head(describer[b].left), "failed")
        BY <1>5, <2>3, DescribedHalts DEF ListForBackup, Describing, copyVars
  <2> QED
      BY <1>5, <2>1, <2>2, <2>3 DEF ListForBackup
<1> QED
    BY <1>2, <1>3, <1>4, <1>5 DEF DescribeClasses

LEMMA UploaderHalts ==
  ASSUME Types, Queue, Halts, \/ \E b \in Backups : StartBackup(b)
                              \/ AbortBackup
                              \/ UploadAll
  PROVE  Halts'
<1>1. UNCHANGED <<haltCount, holders, robbed, generation, copier>>
      BY DEF StartBackup, AbortBackup, UploadAll, ReceiveDescriptor, AllReceived, SeeAbort, UploadClass, FinishBackup,
             shardVars, copyVars, history
<1>2. ASSUME \A a \in Backups : ~Active(a)', uploader'.pc # "upload"
      PROVE  Halts'
      BY <1>1, <1>2, QueueHalts
<1>3. ASSUME NEW b \in Backups, StartBackup(b)
      PROVE  Halts'
  <2>1. \A a \in Backups : ~Active(a)
        BY <1>3 DEF StartBackup, Active
  <2>2. QueueAt(b) /\ outcome[b] = "none"
        BY <1>3 DEF Queue, StartBackup
  <2>3. describer[b] = [left |-> <<>>, at |-> "init"] /\ descriptors[b] = <<>>
        BY <2>1, <2>2 DEF QueueAt, Fresh
  <2>4. describer[b].at = "init"
        BY <2>3
  <2>5. describer'[b].at = "init" /\ descriptors'[b] = <<>>
        BY <1>3, <2>3, <2>4 DEF StartBackup, Types, DescriberTypes
  <2>6. uploader'.pc = "receive" /\ Uploading' = {} /\ \A a \in Backups : a # b => ~Active(a)'
        BY <1>3 DEF StartBackup, Active, Idle, Uploading
  <2>7. Good(descriptors'[b]) = {} /\ Halted(b)' = {}
        BY <2>5, <2>6, EmptySeq DEF Halted, Good
  <2> QED
      BY <1>1, <2>6, <2>7, QueueHalts
<1>4. ASSUME UNCHANGED <<describer, descriptors, uploader>>
      PROVE  Halts'
      BY <1>1, <1>4, QueueHalts DEF Active, Halted, Uploading, ListedAs
<1>5. CASE AbortBackup
      BY <1>4, <1>5 DEF AbortBackup
<1>6. CASE ReceiveDescriptor
  <2> DEFINE d == Head(descriptors[uploader.backup])
  <2>1. CASE d.error # "none"
    <3>1. uploader'.pc = "metadata"
          BY <1>6, <2>1 DEF ReceiveDescriptor, Conclude, Idle
    <3> QED
        BY <1>2, <3>1 DEF Active
  <2>2. CASE d.error = "none"
    <3>1. PICK b \in Backups : b = uploader.backup
          BY <1>6 DEF ReceiveDescriptor, Types, UploaderTypes
    <3>2. /\ uploader.pc = "receive" /\ descriptors[b] # <<>> /\ Active(b) /\ Uploading = {}
          /\ uploader' = [uploader EXCEPT !.pc = "upload", !.class = d.class, !.listed = d.listed]
          /\ descriptors' = [descriptors EXCEPT ![b] = Tail(@)] /\ describer' = describer
          BY <1>6, <2>2, <3>1 DEF ReceiveDescriptor, Active, Uploading
    <3>3. /\ uploader'.pc = "upload" /\ uploader'.class = d.class /\ uploader'.listed = d.listed
          /\ uploader'.backup = b
          BY <3>1, <3>2 DEF Types, UploaderTypes
    <3>4. descriptors'[b] = Tail(descriptors[b]) /\ descriptors[b] \in Seq(Descriptor)
          BY <3>2 DEF Types, DescriberTypes
    <3>5. 1 \in Good(descriptors[b]) /\ d = descriptors[b][1]
          BY <2>2, <3>1, <3>2, <3>4, HeadTail DEF Good
    <3>6. \A i \in Good(descriptors'[b]) : \E j \in Good(descriptors[b]) : descriptors'[b][i] = descriptors[b][j]
          BY <3>2, <3>4, HeadTail DEF Good
    <3>7. Halted(b)' \subseteq Halted(b)
      <4>1. Uploading' = {descriptors[b][1].class}
            BY <3>3, <3>5 DEF Uploading
      <4>2. \A i \in Good(descriptors'[b]) : descriptors'[b][i].class \in Halted(b)
            BY <3>6 DEF Halted
      <4>3. descriptors[b][1].class \in Halted(b)
            BY <3>5 DEF Halted
      <4> QED
          BY <3>2, <4>1, <4>2, <4>3 DEF Halted
    <3>8. ListedAs(d.class, d.listed) /\ \A i \in Good(descriptors'[b]) :
            ListedAs(descriptors'[b][i].class, descriptors'[b][i].listed)
          BY <3>2, <3>5, <3>6 DEF ListedAs
    <3>9. \A a \in Backups : Active(a)' => a = b
          BY <3>3 DEF Active
    <3> QED
        BY <1>1, <3>2, <3>3, <3>7, <3>8, <3>9, QueueHalts
  <2> QED
      BY <2>1, <2>2
<1>7. CASE AllReceived \/ SeeAbort
  <2>1. uploader'.pc = "metadata"
        BY <1>7 DEF AllReceived, SeeAbort, Conclude, Idle
  <2> QED
      BY <1>2, <2>1 DEF Active
<1>8. CASE UploadClass
  <2>1. UNCHANGED <<describer, descriptors>> /\ uploader.pc = "upload"
        BY <1>8 DEF UploadClass
  <2>2. CASE uploader' = [Idle EXCEPT !.pc = "receive", !.backup = uploader.backup]
    <3>1. Uploading' = {} /\ uploader'.pc = "receive" /\ \A a \in Backups : Active(a)' <=> Active(a)
          BY <2>1, <2>2 DEF Uploading, Active, Idle
    <3>2. \A a \in Backups : Halted(a)' \subseteq Halted(a)
          BY <2>1, <3>1 DEF Halted
    <3> QED
        BY <1>1, <2>1, <3>1, <3>2, QueueHalts DEF ListedAs
  <2>3. CASE uploader' = [Idle EXCEPT !.pc = "metadata", !.backup = uploader.backup]
        BY <1>2, <2>3 DEF Active, Idle
  <2> QED
      BY <1>8, <2>2, <2>3 DEF UploadClass
<1>9. CASE FinishBackup
      BY <1>2, <1>9 DEF FinishBackup, Active, Idle
<1> QED
    BY <1>3, <1>5, <1>6, <1>7, <1>8, <1>9 DEF UploadAll

LEMMA ReleaseHalts ==
  ASSUME Types, Queue, Halts, NEW b \in Backups, NEW k \in Classes, ReleaseBackup(b, k)
  PROVE  Halts'
<1>1. UNCHANGED <<describer, descriptors, uploader, copier, generation>>
      BY DEF ReleaseBackup, ResetBackupState, ResumeAfterBackup, backupVars, copyVars
<1>2. /\ CopiesDiffer'
      /\ \A j, y : Holds(j, y)' <=> Holds(j, y)
      /\ \A j, n : ListedAs(j, n)' <=> ListedAs(j, n)
      BY <1>1 DEF Halts, CopiesDiffer, Holds, ListedAs, Active, Halted, Uploading
<1>3. CASE ResetBackupState(b, k)
      BY <1>1, <1>2, <1>3, HaltsKept DEF ResetBackupState, history
<1>4. CASE ResumeAfterBackup(b, k)
  <2>1. ResumeMaintenanceCycles(k, OfBackup(b)) /\ resumes[b][k] # 0
        BY <1>4 DEF ResumeAfterBackup
  <2>2. Active(b) => k \notin Halted(b)
        BY <2>1, HaltedInHand DEF Queue, QueueAt
  <2>3. ~Holds(k, OfBackup(b))
        BY <2>2, TransfersDiffer DEF Holds
  <2> QED
      BY <1>1, <1>2, <2>1, <2>3, HaltEnds
<1> QED
    BY <1>3, <1>4 DEF ReleaseBackup

LEMMA CopierHalts ==
  ASSUME Types, Halts, NEW c \in Copiers, PauseFileActivity(c) \/ CopyReplicaFiles(c) \/ GetFile(c)
  PROVE  Halts'
<1> DEFINE k == CopyOf[c]
<1>1. /\ k \in Classes /\ k' = k
      /\ UNCHANGED <<describer, descriptors, uploader, generation>>
      /\ \A i \in Copiers : i # c => copier'[i] = copier[i]
  <2>1. \A i \in Copiers : i # c => copier'[i] = copier[i]
        BY DEF PauseFileActivity, CopyReplicaFiles, ListFiles, GetFile, AllRead, ResumeFileActivity, copyVars, Types,
               CopyTypes
  <2> QED
      BY <2>1, Constants DEF PauseFileActivity, CopyReplicaFiles, ListFiles, GetFile, AllRead, ResumeFileActivity,
                  backupVars, shardVars
<1> HIDE DEF k
<1>2. Uploading' = Uploading /\ \A b : (Active(b)' <=> Active(b)) /\ (b \in Backups => Halted(b)' = Halted(b))
      BY <1>1 DEF Active, Halted, Uploading
<1>3. ASSUME copier'[c].pc # "idle" => copier[c].pc # "idle" /\ copier'[c].copy = copier[c].copy
      PROVE  CopiesDiffer' /\ \A j, y : Holds(j, y)' => Holds(j, y)
  <2>1. CopiesDiffer'
        BY <1>1, <1>3 DEF Halts, CopiesDiffer
  <2>2. \A j, y : Holds(j, y)' => Holds(j, y)
        BY <1>1, <1>2, <1>3 DEF Holds
  <2> QED
      BY <2>1, <2>2
<1>4. ASSUME copier'[c].pc = "listed" => \/ copier[c].pc = "listed" /\ copier'[c].listed = copier[c].listed
                                         \/ copier'[c].listed = generation[k]
      PROVE  \A j, n : ListedAs(j, n)' => ListedAs(j, n) \/ n = generation[j]
      BY <1>1, <1>2, <1>4 DEF ListedAs, k
<1>5. CASE PauseFileActivity(c)
  <2>1. /\ HaltForTransfer(k, OfCopy(copies + 1), TRUE) /\ UNCHANGED robbed
        /\ copier[c].pc = "idle"
        BY <1>5 DEF PauseFileActivity, k
  <2>2. copier'[c] = [pc |-> "paused", copy |-> copies + 1, listed |-> 0] \/ copier'[c] = copier[c]
        BY <1>5 DEF PauseFileActivity, Types, CopyTypes
  <2>3. copier'[c].pc # "listed" /\ (copier'[c].pc # "idle" => copier'[c].copy = copies + 1)
        BY <2>1, <2>2
  <2>4. \A i \in Copiers : copier[i].pc # "idle" => copier[i].copy # copies + 1
        BY <1>5, Constants DEF Types, CopyTypes
  <2>5. CopiesDiffer'
        BY <1>1, <2>3, <2>4 DEF Halts, CopiesDiffer
  <2>6. \A j \in Classes : \A y : Holds(j, y)' => Holds(j, y) \/ (j = k /\ y = OfCopy(copies + 1))
    <3> SUFFICES ASSUME NEW j \in Classes, NEW y, Holds(j, y)'
                 PROVE  Holds(j, y) \/ (j = k /\ y = OfCopy(copies + 1))
        OBVIOUS
    <3>1. CASE \E a \in Backups : Active(a)' /\ j \in Halted(a)' /\ y = OfBackup(a)
          BY <1>2, <3>1 DEF Holds
    <3>2. ASSUME NEW i \in Copiers, copier'[i].pc # "idle", CopyOf[i] = j, y = OfCopy(copier'[i].copy)
          PROVE  Holds(j, y) \/ (j = k /\ y = OfCopy(copies + 1))
          BY <1>1, <2>3, <3>2 DEF Holds, k
    <3> QED
        BY <3>1, <3>2 DEF Holds
  <2>7. \A j \in Classes : \A n : ListedAs(j, n)' => ListedAs(j, n)
        BY <1>1, <1>2, <2>3 DEF ListedAs
  <2> QED
      BY <1>1, <2>1, <2>5, <2>6, <2>7, NewHalt
<1>6. ASSUME \/ copier' = copier
             \/ copier' = [copier EXCEPT ![c].pc = "listed", ![c].listed = generation[k]] /\ copier[c].pc = "paused"
             \/ copier' = [copier EXCEPT ![c].pc = "returning"] /\ copier[c].pc = "paused"
             \/ copier' = [copier EXCEPT ![c].pc = "returning", ![c].listed = 0] /\ copier[c].pc = "listed",
             UNCHANGED <<haltCount, holders, robbed>>
      PROVE  Halts'
  <2>1. /\ copier'[c].pc # "idle" => copier[c].pc # "idle" /\ copier'[c].copy = copier[c].copy
        /\ copier'[c].pc = "listed" => \/ copier[c].pc = "listed" /\ copier'[c].listed = copier[c].listed
                                       \/ copier'[c].listed = generation[k]
        BY <1>6 DEF Types, CopyTypes
  <2> QED
      BY <1>1, <1>3, <1>4, <1>6, <2>1, HaltsKept
<1>7. CASE ListFiles(c)
      BY <1>6, <1>7 DEF ListFiles, history, k
<1>8. CASE GetFile(c)
      BY <1>6, <1>8 DEF GetFile, history, copyVars
<1>9. CASE AllRead(c)
      BY <1>6, <1>9 DEF AllRead, history, shardVars
<1>10. CASE ResumeFileActivity(c)
  <2>1. copier[c].pc = "returning" /\ copier'[c].pc = "idle"
        BY <1>10 DEF ResumeFileActivity, NoCopy, Types, CopyTypes
  <2>2. /\ CopiesDiffer' /\ \A j, y : Holds(j, y)' => Holds(j, y)
        /\ \A j, n : ListedAs(j, n)' => ListedAs(j, n)
        BY <1>1, <1>2, <1>3, <2>1 DEF ListedAs
  <2>3. CASE UNCHANGED <<haltCount, holders, robbed>>
        BY <1>1, <2>2, <2>3, HaltsKept
  <2>4. CASE ResumeMaintenanceCycles(k, OfCopy(copier[c].copy))
    <3>1. \A i \in Copiers : copier'[i].pc # "idle" => copier'[i].copy # copier[c].copy
          BY <1>1, <2>1 DEF Halts, CopiesDiffer
    <3>2. PICK x : x = OfCopy(copier[c].copy)
          OBVIOUS
    <3>3. ~Holds(k, x)'
          BY <3>1, <3>2, TransfersDiffer DEF Holds
    <3> QED
        BY <1>1, <2>2, <2>4, <3>2, <3>3, HaltEnds
  <2> QED
      BY <1>10, <2>3, <2>4 DEF ResumeFileActivity, k
<1> QED
    BY <1>5, <1>7, <1>8, <1>9, <1>10 DEF CopyReplicaFiles

LEMMA HaltsStep == Types /\ Queue /\ Halts /\ [Next]_vars => Halts'
<1> SUFFICES ASSUME Types, Queue, Halts, [Next]_vars PROVE Halts'
    OBVIOUS
<1>1. CASE UNCHANGED vars
  <2>1. UNCHANGED <<haltCount, generation, describer, descriptors, uploader, copier, holders, robbed>>
        BY <1>1 DEF vars, shardVars, backupVars, copyVars, history
  <2> QED
      BY <2>1 DEF Halts, Counted, HoldersKnown, ListsTrue, CopiesDiffer, Holds, ListedAs, Active, Halted, Uploading
<1>2. CASE Next
      BY <1>2, MonitorHalts, DescriberHalts, UploaderHalts, ReleaseHalts, CopierHalts
      DEF Next, Monitor, DescribeClasses, UploadAll, ReleaseBackup, CopyReplicaFiles
<1> QED
    BY <1>1, <1>2

(* The files a backup uploads and a copier reads are those it listed: the  *)
(* count of halts (shard_backup.go) keeps the maintenance from replacing   *)
(* them until the last transfer is done, whatever the order in which       *)
(* transfers begin, fail, are aborted and are released, unless a monitor   *)
(* or a release takes the halt of a transfer under way.                    *)
THEOREM FilesStayWhileTransferring == TransfersSpec => []HaltedWhileTransferring
<1>1. Types /\ Halts => HaltedWhileTransferring
  <2> SUFFICES ASSUME Types, Halts PROVE HaltedWhileTransferring
      OBVIOUS
  <2>1. ASSUME uploader.pc = "upload", uploader.class \notin robbed
        PROVE  generation[uploader.class] = uploader.listed
        BY <2>1 DEF Types, UploaderTypes, Halts, ListsTrue, ListedAs
  <2>2. ASSUME NEW c \in Copiers, copier[c].pc = "listed", CopyOf[c] \notin robbed
        PROVE  generation[CopyOf[c]] = copier[c].listed
        BY <2>2, Constants DEF Halts, ListsTrue, ListedAs
  <2> QED
      BY <2>1, <2>2 DEF HaltedWhileTransferring
<1> QED
    BY <1>1, TypesInit, QueueInit, HaltsInit, TypesStep, QueueStep, HaltsStep, PTL DEF TransfersSpec
=============================================================================
