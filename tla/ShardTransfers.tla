--------------------------- MODULE ShardTransfers ---------------------------
(***************************************************************************)
(* The files of a node's shards while others read them: a backup of this   *)
(* node uploads the shards of the requested classes one class after the    *)
(* other, and workers of the replication engine on other nodes copy them.  *)
(* Both halt the maintenance of the shard first, list its files, read      *)
(* them, and resume the maintenance.  The halts of a shard are counted     *)
(* (adapters/repos/db/shard_backup.go); those of copies are watched by a   *)
(* goroutine that resumes the maintenance when nothing was read for some   *)
(* time; those of backups are released by class                            *)
(* (adapters/repos/db/backup.go, usecases/backup/backend.go).              *)
(*                                                                         *)
(* A class has one shard here, so a class also names its index and its     *)
(* shard.  The files of a shard are a generation: maintenance replaces     *)
(* them by the next one.  haltForTransferMux makes the operations of a     *)
(* shard atomic.                                                           *)
(***************************************************************************)
EXTENDS Integers, Sequences, FiniteSets

CONSTANTS
  Requested,       \* the classes of a backup, in the order of the request
  Copiers,         \* workers of other nodes that copy a shard
  CopyOf,          \* the class whose shard a copier copies
  MaxBackups,      \* bound on backups
  MaxCopies,       \* bound on copies
  MaxCompactions,  \* bound on the generations of a shard's files
  MaxFaults        \* bound on lost calls and failing uploads

Classes == {Requested[i] : i \in DOMAIN Requested}

ASSUME TransfersAssumption ==
  /\ Requested \in Seq(Classes) /\ Requested # <<>>
  /\ \A i, j \in DOMAIN Requested : Requested[i] = Requested[j] => i = j
  /\ CopyOf \in [Copiers -> Classes]
  /\ {MaxBackups, MaxCopies, MaxCompactions, MaxFaults} \subseteq Nat

Backups == 1..MaxBackups
Copies == 1..MaxCopies
Generations == 0..MaxCompactions
None == 0

VARIABLES
  haltCount,    \* haltForTransferCount of every shard
  timer,        \* haltForTransferInactivityTimer: none yet, running, or stopped or received from
  monitor,      \* the goroutine that waits for that timer
  lockedUp,     \* shards whose haltForTransferMux is held by a goroutine that waits for ever
  generation,   \* the files of every shard
  lastBackup,   \* the backup in progress of every index, None for nil
  describer,    \* per backup, the classes BackupDescriptors has yet to do and where it is
  descriptors,  \* per backup, the channel it fills
  ctxDone,      \* the backups whose context is cancelled
  uploader,     \* what the node's uploader is doing
  uploaded,     \* per backup, the classes uploaded
  outcome,      \* per backup, how it ended; a cancelled one failed
  resets, resumes,  \* per backup and class, the two steps of ReleaseBackup still to run
  copier,       \* what every copier is doing
  copies, faults,   \* counters of the bounds
  holders,      \* history: the transfers whose halt of a shard was not taken back
  robbed,       \* history: shards a halt of which was taken back for a transfer under way
  unwatched,    \* history: shards halted by a copy while their monitor was on its way out
  leaked        \* history: classes described after their backup had released them

shardVars == <<haltCount, timer, monitor, lockedUp, generation, lastBackup>>
backupVars == <<describer, descriptors, ctxDone, uploader, uploaded, outcome>>
releaseVars == <<resets, resumes>>
copyVars == <<copier, copies>>
history == <<holders, robbed, unwatched, leaked>>
vars == <<shardVars, backupVars, releaseVars, copyVars, faults, history>>

Idle == [pc |-> "idle", backup |-> None, class |-> Requested[1], listed |-> 0]
NoCopy == [pc |-> "idle", copy |-> None, listed |-> 0]
Descriptor == [class : Classes, error : {"none", "failed"}, listed : Generations]

(* The transfers: a backup, or a copy. *)
OfBackup(b) == <<"backup", b>>
OfCopy(n) == <<"copy", n>>
Transfers == {OfBackup(b) : b \in Backups} \cup {OfCopy(n) : n \in Copies}

TransfersTypeOK ==
  /\ haltCount \in [Classes -> Nat]
  /\ timer \in [Classes -> {"none", "running", "off"}]
  /\ monitor \in [Classes -> {"none", "watching", "cancelled", "expired", "ending"}]
  /\ lockedUp \in SUBSET Classes
  /\ generation \in [Classes -> Generations]
  /\ lastBackup \in [Classes -> Backups \cup {None}]
  /\ describer \in [Backups -> [left : Seq(Classes), at : {"init", "halt", "list"}]]
  /\ descriptors \in [Backups -> Seq(Descriptor)]
  /\ ctxDone \in SUBSET Backups
  /\ uploader \in [pc : {"idle", "receive", "upload", "metadata"}, backup : Backups \cup {None},
                   class : Classes, listed : Generations]
  /\ uploaded \in [Backups -> SUBSET Classes]
  /\ outcome \in [Backups -> {"none", "success", "failed"}]
  /\ resets \in [Backups -> [Classes -> Nat]]
  /\ resumes \in [Backups -> [Classes -> Nat]]
  /\ copier \in [Copiers -> [pc : {"idle", "paused", "listed", "returning"}, copy : Copies \cup {None},
                             listed : Generations]]
  /\ copies \in 0..MaxCopies
  /\ faults \in 0..MaxFaults
  /\ holders \in [Classes -> SUBSET Transfers]
  /\ robbed \in SUBSET Classes
  /\ unwatched \in SUBSET Classes
  /\ leaked \in SUBSET Classes

Init ==
  /\ haltCount = [k \in Classes |-> 0]
  /\ timer = [k \in Classes |-> "none"]
  /\ monitor = [k \in Classes |-> "none"]
  /\ lockedUp = {}
  /\ generation = [k \in Classes |-> 0]
  /\ lastBackup = [k \in Classes |-> None]
  /\ describer = [b \in Backups |-> [left |-> <<>>, at |-> "init"]]
  /\ descriptors = [b \in Backups |-> <<>>]
  /\ ctxDone = {}
  /\ uploader = Idle
  /\ uploaded = [b \in Backups |-> {}]
  /\ outcome = [b \in Backups |-> "none"]
  /\ resets = [b \in Backups |-> [k \in Classes |-> 0]]
  /\ resumes = [b \in Backups |-> [k \in Classes |-> 0]]
  /\ copier = [c \in Copiers |-> NoCopy]
  /\ copies = 0
  /\ faults = 0
  /\ holders = [k \in Classes |-> {}]
  /\ robbed = {}
  /\ unwatched = {}
  /\ leaked = {}

-----------------------------------------------------------------------------
(* The shard.                                                              *)

(* A call that fails, or whose answer is lost. *)
Fault == faults < MaxFaults /\ faults' = faults + 1

(* Seeded bug: a halt without a monitor. *)
HaltForTransfer_Unmonitored(k, x, timed) ==
  /\ k \notin lockedUp
  /\ haltCount' = [haltCount EXCEPT ![k] = @ + 1]
  /\ holders' = [holders EXCEPT ![k] = @ \cup {x}]
  /\ UNCHANGED <<timer, monitor, unwatched>>

(* A halt by transfer x.  A halt with a timeout starts a monitor, unless   *)
(* there is one: haltForTransferCancel is set until the monitor is gone.   *)
(* The timeout is the same at every halt, so mayUpdateInactivityTimeout    *)
(* has nothing to do but the first time, when there is no timer yet.       *)
HaltForTransfer(k, x, timed) ==
  LET starts == timed /\ monitor[k] = "none" IN
    /\ k \notin lockedUp
    /\ haltCount' = [haltCount EXCEPT ![k] = @ + 1]
    /\ timer' = [timer EXCEPT ![k] = IF starts THEN "running" ELSE @]
    /\ monitor' = [monitor EXCEPT ![k] = IF starts THEN "watching" ELSE @]
    /\ holders' = [holders EXCEPT ![k] = @ \cup {x}]
    /\ unwatched' = IF timed /\ monitor[k] \notin {"none", "watching"} THEN unwatched \cup {k} ELSE unwatched

(* Activity puts the timer off.  Stop says FALSE of a timer that was       *)
(* stopped or received from, and the receive that follows then waits for a *)
(* value that never comes, with the mutex held.                            *)
MayResetInactivityTimer(k) ==
  lockedUp' = IF timer[k] = "off" THEN lockedUp \cup {k} ELSE lockedUp

(* Seeded bug: a resume does not look whether others still halt the shard. *)
ResumeMaintenanceCycles_Uncounted(k, x) ==
  /\ k \notin lockedUp
  /\ haltCount' = [haltCount EXCEPT ![k] = 0]
  /\ monitor' = [monitor EXCEPT ![k] = IF @ = "watching" THEN "cancelled" ELSE @]
  /\ holders' = [holders EXCEPT ![k] = @ \ {x}]
  /\ robbed' = IF x \in holders[k] THEN robbed ELSE robbed \cup {k}

(* Seeded bug: nor whether any does. *)
ResumeMaintenanceCycles_Unchecked(k, x) ==
  /\ k \notin lockedUp
  /\ haltCount' = [haltCount EXCEPT ![k] = @ - 1]
  /\ monitor' = [monitor EXCEPT ![k] = IF haltCount[k] = 1 /\ @ = "watching" THEN "cancelled" ELSE @]
  /\ holders' = [holders EXCEPT ![k] = @ \ {x}]
  /\ robbed' = IF x \in holders[k] THEN robbed ELSE robbed \cup {k}

(* One resume on behalf of transfer x. *)
ResumeMaintenanceCycles(k, x) ==
  /\ k \notin lockedUp
  /\ IF haltCount[k] = 0
     THEN UNCHANGED <<haltCount, monitor, holders, robbed>>
     ELSE /\ haltCount' = [haltCount EXCEPT ![k] = @ - 1]
          /\ monitor' = [monitor EXCEPT ![k] = IF haltCount[k] = 1 /\ @ = "watching" THEN "cancelled" ELSE @]
          /\ holders' = [holders EXCEPT ![k] = @ \ {x}]
          /\ robbed' = IF x \in holders[k] THEN robbed ELSE robbed \cup {k}

(* The transfers that still need their halt of a shard. *)
UnderWay(k) ==
  {OfBackup(b) : b \in {i \in Backups : uploader.backup = i /\ outcome[i] = "none" /\ k \notin uploaded[i]}}
    \cup {OfCopy(copier[c].copy) : c \in {i \in Copiers : CopyOf[i] = k /\ copier[i].pc # "idle"}}

(* The monitor receives from the timer ... *)
MonitorTimesOut(k) ==
  /\ monitor[k] \in {"watching", "cancelled"}
  /\ timer[k] = "running"
  /\ monitor' = [monitor EXCEPT ![k] = "expired"]
  /\ timer' = [timer EXCEPT ![k] = "off"]
  /\ UNCHANGED <<haltCount, lockedUp, generation, lastBackup, backupVars, releaseVars, copyVars, faults, history>>

(* ... and resumes the maintenance whatever halts there are. *)
MonitorResumes(k) ==
  /\ monitor[k] = "expired"
  /\ k \notin lockedUp
  /\ haltCount' = [haltCount EXCEPT ![k] = 0]
  /\ monitor' = [monitor EXCEPT ![k] = "ending"]
  /\ holders' = [holders EXCEPT ![k] = {}]
  /\ robbed' = IF holders[k] \cap UnderWay(k) = {} THEN robbed ELSE robbed \cup {k}
  /\ UNCHANGED <<timer, lockedUp, generation, lastBackup, backupVars, releaseVars, copyVars, faults,
                 unwatched, leaked>>

(* Its deferred function, after that or when it was cancelled. *)
MonitorEnds(k) ==
  /\ monitor[k] \in {"cancelled", "ending"}
  /\ k \notin lockedUp
  /\ timer' = [timer EXCEPT ![k] = "off"]
  /\ monitor' = [monitor EXCEPT ![k] = "none"]
  /\ UNCHANGED <<haltCount, lockedUp, generation, lastBackup, backupVars, releaseVars, copyVars, faults, history>>

(* The maintenance cycles run only while nothing halts them. *)
Compact(k) ==
  /\ haltCount[k] = 0
  /\ generation[k] < MaxCompactions
  /\ generation' = [generation EXCEPT ![k] = @ + 1]
  /\ UNCHANGED <<haltCount, timer, monitor, lockedUp, lastBackup, backupVars, releaseVars, copyVars, faults, history>>

-----------------------------------------------------------------------------
(* A backup: the goroutine of BackupDescriptors.                           *)

StartBackup(b) ==
  /\ uploader.pc = "idle"
  /\ outcome[b] = "none" /\ \A a \in Backups : a < b => outcome[a] # "none"
  /\ uploader' = [Idle EXCEPT !.pc = "receive", !.backup = b]
  /\ describer' = [describer EXCEPT ![b].left = Requested]
  /\ UNCHANGED <<shardVars, descriptors, ctxDone, uploaded, outcome, releaseVars, copyVars, faults, history>>

(* An abort of the coordinator cancels the context. *)
AbortBackup ==
  /\ uploader.pc \in {"receive", "upload"}
  /\ uploader.backup \notin ctxDone
  /\ ctxDone' = ctxDone \cup {uploader.backup}
  /\ UNCHANGED <<shardVars, describer, descriptors, uploader, uploaded, outcome, releaseVars, copyVars, faults, history>>

(* A descriptor with an error is the last; the channel is closed when      *)
(* nothing is left.                                                        *)
Describe(b, k, error) ==
  /\ descriptors' = [descriptors EXCEPT ![b] = Append(@, [class |-> k, error |-> error, listed |-> generation[k]])]
  /\ describer' = [describer EXCEPT ![b] = [left |-> IF error = "none" THEN Tail(@.left) ELSE <<>>, at |-> "init"]]

Describing(b, at) == describer[b].left # <<>> /\ describer[b].at = at

InitBackup(b) ==
  LET k == Head(describer[b].left) IN
    /\ Describing(b, "init")
    /\ IF lastBackup[k] = None
       THEN /\ lastBackup' = [lastBackup EXCEPT ![k] = b]
            /\ describer' = [describer EXCEPT ![b].at = "halt"]
            /\ UNCHANGED descriptors
       ELSE Describe(b, k, "failed") /\ UNCHANGED lastBackup
    /\ UNCHANGED <<haltCount, timer, monitor, lockedUp, generation, ctxDone, uploader, uploaded, outcome,
                   releaseVars, copyVars, faults, history>>

HaltForBackup(b) ==
  LET k == Head(describer[b].left) IN
    /\ Describing(b, "halt")
    /\ HaltForTransfer(k, OfBackup(b), FALSE)
    /\ describer' = [describer EXCEPT ![b].at = "list"]
    /\ UNCHANGED <<lockedUp, generation, lastBackup, descriptors, ctxDone, uploader, uploaded, outcome,
                   releaseVars, copyVars, faults, robbed, leaked>>

(* The first halt of a shard may not get hold of a running cycle before    *)
(* the context is cancelled, or fail; it takes its count back.  What fails *)
(* after initBackup releases the class in a goroutine of its own.          *)
HaltForBackupFails(b) ==
  LET k == Head(describer[b].left) IN
    /\ Describing(b, "halt")
    /\ k \notin lockedUp /\ haltCount[k] = 0
    /\ IF b \in ctxDone THEN UNCHANGED faults ELSE Fault
    /\ Describe(b, k, "failed")
    /\ resets' = [resets EXCEPT ![b][k] = @ + 1]
    /\ UNCHANGED <<shardVars, ctxDone, uploader, uploaded, outcome, resumes, copyVars, history>>

(* The files are listed if the shard is still halted, and the descriptor   *)
(* is good if the context is.                                              *)
ListForBackup(b) ==
  LET k == Head(describer[b].left) IN
    /\ Describing(b, "list")
    /\ k \notin lockedUp
    /\ IF haltCount[k] > 0 THEN MayResetInactivityTimer(k) ELSE UNCHANGED lockedUp
    /\ IF k \in lockedUp'
       THEN UNCHANGED <<describer, descriptors, resets, leaked>>
       ELSE IF haltCount[k] > 0 /\ b \notin ctxDone
       THEN /\ Describe(b, k, "none")
            /\ leaked' = IF outcome[b] = "none" THEN leaked ELSE leaked \cup {k}
            /\ UNCHANGED resets
       ELSE /\ Describe(b, k, "failed")
            /\ resets' = [resets EXCEPT ![b][k] = @ + 1]
            /\ UNCHANGED leaked
    /\ UNCHANGED <<haltCount, timer, monitor, generation, lastBackup, ctxDone, uploader, uploaded, outcome,
                   resumes, copyVars, faults, holders, robbed, unwatched>>

-----------------------------------------------------------------------------
(* The uploader, and the release of what it uploaded.                      *)

(* n releases of every requested class, each in a goroutine. *)
ReleaseIndexes(b, n) ==
  resets' = [resets EXCEPT ![b] = [k \in Classes |-> @[k] + n]]

(* The end of uploader.all: its deferred function releases the classes and *)
(* puts the metadata file, during which the rest of the node goes on.      *)
Conclude(how, n) ==
  /\ outcome' = [outcome EXCEPT ![uploader.backup] = how]
  /\ ReleaseIndexes(uploader.backup, n)
  /\ uploader' = [Idle EXCEPT !.pc = "metadata", !.backup = uploader.backup]

(* Seeded bug: a descriptor with an error is passed over. *)
ReceiveDescriptor_SkipsErrors ==
  LET b == uploader.backup
      d == Head(descriptors[b])
  IN
    /\ uploader.pc = "receive"
    /\ descriptors[b] # <<>>
    /\ descriptors' = [descriptors EXCEPT ![b] = Tail(@)]
    /\ uploader' = IF d.error = "none" THEN [uploader EXCEPT !.pc = "upload", !.class = d.class, !.listed = d.listed]
                   ELSE uploader
    /\ UNCHANGED <<shardVars, describer, ctxDone, uploaded, outcome, releaseVars, copyVars, faults, history>>

ReceiveDescriptor ==
  LET b == uploader.backup
      d == Head(descriptors[b])
  IN
    /\ uploader.pc = "receive"
    /\ descriptors[b] # <<>>
    /\ descriptors' = [descriptors EXCEPT ![b] = Tail(@)]
    /\ IF d.error = "none"
       THEN /\ uploader' = [uploader EXCEPT !.pc = "upload", !.class = d.class, !.listed = d.listed]
            /\ UNCHANGED <<outcome, resets>>
       ELSE Conclude("failed", 1)
    /\ UNCHANGED <<shardVars, describer, ctxDone, uploaded, resumes, copyVars, faults, history>>

(* The channel is closed and empty; the context is looked at once more,    *)
(* and the snapshot of roles or users may fail.                            *)
AllReceived ==
  LET b == uploader.backup IN
    /\ uploader.pc = "receive"
    /\ descriptors[b] = <<>> /\ describer[b].left = <<>>
    /\ \/ b \in ctxDone /\ Conclude("failed", 3) /\ UNCHANGED faults
       \/ b \notin ctxDone /\ Conclude("success", 2) /\ UNCHANGED faults
       \/ b \notin ctxDone /\ Conclude("failed", 2) /\ Fault
    /\ UNCHANGED <<shardVars, describer, descriptors, ctxDone, uploaded, resumes, copyVars, history>>

SeeAbort ==
  /\ uploader.pc = "receive"
  /\ uploader.backup \in ctxDone
  /\ Conclude("failed", 2)
  /\ UNCHANGED <<shardVars, describer, descriptors, ctxDone, uploaded, resumes, copyVars, faults, history>>

(* Every listed file is opened by its name.  The class is released when    *)
(* its upload ends, in whatever way.                                       *)
UploadClass ==
  LET b == uploader.backup
      k == uploader.class
  IN
    /\ uploader.pc = "upload"
    /\ \/ /\ generation[k] = uploader.listed
          /\ uploaded' = [uploaded EXCEPT ![b] = @ \cup {k}]
          /\ resets' = [resets EXCEPT ![b][k] = @ + 1]
          /\ uploader' = [Idle EXCEPT !.pc = "receive", !.backup = b]
          /\ UNCHANGED <<outcome, faults>>
       \/ /\ IF generation[k] # uploader.listed \/ b \in ctxDone THEN UNCHANGED faults ELSE Fault
          /\ outcome' = [outcome EXCEPT ![b] = "failed"]
          /\ resets' = [resets EXCEPT ![b] = [j \in Classes |-> @[j] + (IF j = k THEN 2 ELSE 1)]]
          /\ uploader' = [Idle EXCEPT !.pc = "metadata", !.backup = uploader.backup]
          /\ UNCHANGED uploaded
    /\ UNCHANGED <<shardVars, describer, descriptors, ctxDone, resumes, copyVars, history>>

FinishBackup ==
  /\ uploader.pc = "metadata"
  /\ ctxDone' = ctxDone \cup {uploader.backup}
  /\ uploader' = Idle
  /\ UNCHANGED <<shardVars, describer, descriptors, uploaded, outcome, releaseVars, copyVars, faults, history>>

(* ReleaseBackup: the index is marked free, then its shards are resumed.   *)
(* It does not look whose backup the index is marked with.                 *)
ResetBackupState(b, k) ==
  /\ resets[b][k] > 0
  /\ resets' = [resets EXCEPT ![b][k] = @ - 1]
  /\ resumes' = [resumes EXCEPT ![b][k] = @ + 1]
  /\ lastBackup' = [lastBackup EXCEPT ![k] = None]
  /\ UNCHANGED <<haltCount, timer, monitor, lockedUp, generation, backupVars, copyVars, faults, history>>

ResumeAfterBackup(b, k) ==
  /\ resumes[b][k] > 0
  /\ resumes' = [resumes EXCEPT ![b][k] = @ - 1]
  /\ ResumeMaintenanceCycles(k, OfBackup(b))
  /\ UNCHANGED <<timer, lockedUp, generation, lastBackup, backupVars, resets, copyVars, faults, unwatched, leaked>>

-----------------------------------------------------------------------------
(* A copy by a worker of another node.                                     *)

(* PauseFileActivity; when its answer is lost the copier gives up, and     *)
(* nobody will resume.                                                     *)
PauseFileActivity(c) ==
  /\ copier[c].pc = "idle"
  /\ copies < MaxCopies
  /\ copies' = copies + 1
  /\ HaltForTransfer(CopyOf[c], OfCopy(copies + 1), TRUE)
  /\ \/ copier' = [copier EXCEPT ![c] = [pc |-> "paused", copy |-> copies + 1, listed |-> 0]] /\ UNCHANGED faults
     \/ Fault /\ UNCHANGED copier
  /\ UNCHANGED <<lockedUp, generation, lastBackup, backupVars, releaseVars, robbed, leaked>>

(* ListFiles; the copier returns when it fails. *)
ListFiles(c) ==
  LET k == CopyOf[c] IN
    /\ copier[c].pc = "paused"
    /\ k \notin lockedUp
    /\ IF haltCount[k] > 0 THEN MayResetInactivityTimer(k) ELSE UNCHANGED lockedUp
    /\ IF k \in lockedUp' THEN UNCHANGED copier
       ELSE IF haltCount[k] > 0
            THEN copier' = [copier EXCEPT ![c].pc = "listed", ![c].listed = generation[k]]
            ELSE copier' = [copier EXCEPT ![c].pc = "returning"]
    /\ UNCHANGED <<haltCount, timer, monitor, generation, lastBackup, backupVars, releaseVars, copies, faults, history>>

(* GetFileMetadata and GetFile of some file; an error ends a worker of the *)
(* copier, not the copy.                                                   *)
GetFile(c) ==
  LET k == CopyOf[c] IN
    /\ copier[c].pc = "listed"
    /\ k \notin lockedUp
    /\ haltCount[k] > 0
    /\ MayResetInactivityTimer(k)
    /\ UNCHANGED <<haltCount, timer, monitor, generation, lastBackup, backupVars, releaseVars, copyVars, faults, history>>

AllRead(c) ==
  /\ copier[c].pc = "listed"
  /\ CopyOf[c] \notin lockedUp
  /\ copier' = [copier EXCEPT ![c].pc = "returning", ![c].listed = 0]
  /\ UNCHANGED <<shardVars, backupVars, releaseVars, copies, faults, history>>

(* The deferred ResumeFileActivity, which a cancelled worker does not get  *)
(* through.                                                                *)
ResumeFileActivity(c) ==
  /\ copier[c].pc = "returning"
  /\ copier' = [copier EXCEPT ![c] = NoCopy]
  /\ \/ /\ ResumeMaintenanceCycles(CopyOf[c], OfCopy(copier[c].copy))
        /\ UNCHANGED faults
     \/ /\ Fault
        /\ UNCHANGED <<haltCount, monitor, holders, robbed>>
  /\ UNCHANGED <<timer, lockedUp, generation, lastBackup, backupVars, releaseVars, copies, unwatched, leaked>>

-----------------------------------------------------------------------------
Next ==
  \/ \E k \in Classes : MonitorTimesOut(k) \/ MonitorResumes(k) \/ MonitorEnds(k) \/ Compact(k)
  \/ \E b \in Backups : StartBackup(b) \/ InitBackup(b) \/ HaltForBackup(b) \/ HaltForBackupFails(b) \/ ListForBackup(b)
  \/ AbortBackup \/ ReceiveDescriptor \/ AllReceived \/ SeeAbort \/ UploadClass \/ FinishBackup
  \/ \E b \in Backups, k \in Classes : ResetBackupState(b, k) \/ ResumeAfterBackup(b, k)
  \/ \E c \in Copiers : PauseFileActivity(c) \/ ListFiles(c) \/ GetFile(c) \/ AllRead(c) \/ ResumeFileActivity(c)

TransfersSpec == Init /\ [][Next]_vars

(* Every goroutine goes on while it can: timers fire, calls end.  Nobody   *)
(* has to start a backup, abort one or copy a shard, and nothing has to    *)
(* fail.                                                                   *)
Monitor(k) == MonitorTimesOut(k) \/ MonitorResumes(k) \/ MonitorEnds(k)
DescribeClasses(b) == InitBackup(b) \/ HaltForBackup(b) \/ HaltForBackupFails(b) \/ ListForBackup(b)
UploadAll == ReceiveDescriptor \/ AllReceived \/ SeeAbort \/ UploadClass \/ FinishBackup
ReleaseBackup(b, k) == ResetBackupState(b, k) \/ ResumeAfterBackup(b, k)
CopyReplicaFiles(c) == ListFiles(c) \/ AllRead(c) \/ ResumeFileActivity(c)

FairTransfers ==
  /\ TransfersSpec
  /\ \A k \in Classes : WF_vars(Monitor(k))
  /\ \A b \in Backups : WF_vars(DescribeClasses(b))
  /\ WF_vars(UploadAll)
  /\ \A b \in Backups, k \in Classes : WF_vars(ReleaseBackup(b, k))
  /\ \A c \in Copiers : WF_vars(CopyReplicaFiles(c))

-----------------------------------------------------------------------------
(* The files a transfer reads are those it listed: the halts are counted,  *)
(* so the first transfer that ends does not resume the maintenance under   *)
(* the others (shard_backup.go:197).  Two things do: the monitor, by       *)
(* design, and a release that takes the halt of somebody else.             *)
HaltedWhileTransferring ==
  /\ uploader.pc = "upload" =>
       uploader.class \in robbed \/ generation[uploader.class] = uploader.listed
  /\ \A c \in Copiers :
       copier[c].pc = "listed" => CopyOf[c] \in robbed \/ generation[CopyOf[c]] = copier[c].listed

(* A backup that reports success uploaded every class of the request.      *)
BackupIsComplete ==
  \A b \in Backups : outcome[b] = "success" => uploaded[b] = Classes

(* In the end nothing is halted and no index is taken, whatever calls were *)
(* lost, aborted or failed, but for three ways out of which nothing leads: *)
(* a goroutine that waits for a timer with the mutex held, a class that    *)
(* was described after its backup had released it, and a lost resume of a  *)
(* copy that found the previous monitor on its way out.                    *)
MaintenanceResumes ==
  \A k \in Classes :
    <>[](\/ haltCount[k] = 0 /\ lastBackup[k] = None
         \/ k \in lockedUp \cup leaked \cup unwatched)

(* What the comment at the receive of mayResetInactivityTimer promises, to *)
(* "drain the channel if necessary" (shard_backup.go:112): a timer whose   *)
(* goroutine has ended, and stopped it, is not waited for.                 *)
StoppedTimerIsNotWaitedFor ==
  \A k \in lockedUp : monitor[k] # "none"
=============================================================================
