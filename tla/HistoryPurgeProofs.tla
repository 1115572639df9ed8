-------------------------- MODULE HistoryPurgeProofs ------------------------
(***************************************************************************)
(* What is proved of purge-history for any number of kills, power failures *)
(* and maintenance runs.                                                   *)
(***************************************************************************)
EXTENDS HistoryPurge, TLAPS

-----------------------------------------------------------------------------
(* The inductive invariant.  A power failure may leave any directory of    *)
(* durable, so most of it speaks of all of them.                           *)

BeforeLink == {"checkpoint", "create", "validate", "fsync_new", "link_recovery"}
BeforeReplace == BeforeLink \cup {"link_backup", "link_wal", "replace"}
Anchored == {"unlink_wal", "fsync_first", "unlink_backup", "fsync_final", "unlink_recovery"}
AfterAnchor == {"unlink_saved", "fsync_last"}

AllHold(db) == \A d \in durable : d.db = db

(* The purge holds the lock while it runs; replaced, verified, gone and     *)
(* outcome are what its position says.                                     *)
ControlOK ==
    /\ lock = "purge" <=> pc # "idle"
    /\ pc \in BeforeReplace => ~replaced
    /\ pc \in {"fsync_dir"} \cup Anchored \cup AfterAnchor => replaced
    /\ pc \notin {"idle", "cleanup"} => ~verified
    /\ pc \in RestorePart => outcome = "failed"
    /\ pc \in BeforeReplace \cup {"fsync_dir"} \cup Anchored \cup RestorePart => ~gone
    /\ pc \in AfterAnchor => gone

(* Which database has the name, and which one has reached the disk. *)
NameOK ==
    /\ pc \in BeforeReplace \cup {"restore_check"} => AllHold("old")
    /\ pc \in Anchored \cup AfterAnchor => AllHold("new")
    /\ pc = "fsync_dir" => dir.db = "new"
    /\ pc \in RestorePart \ {"restore_db"} => dir.db = "old"
    /\ gone => AllHold("new")

SyncedOK ==
    /\ "old" \in synced
    /\ pc \in {"link_recovery", "link_backup", "link_wal", "replace"} => "new" \in synced
    /\ pc \in {"validate", "fsync_new", "link_recovery", "link_backup", "link_wal", "replace"}
           => dir.replacement = "new"
    /\ DatabaseDurable

(* The old database has its name or its anchor in every directory. *)
AnchorOK ==
    /\ pc \in {"link_backup", "link_wal", "replace", "fsync_dir", "restore_db"} \cup Anchored
           => dir.recovery = "old"
    /\ pc = "unlink_saved" => dir.recovery = None
    /\ \/ gone
       \/ "old" \in leftover
       \/ \A d \in durable : "old" \in {d.db, d.recovery}

(* What a report that was, or is about to be, given stands on. *)
ReportOK ==
    /\ pc = "cleanup" =>
          /\ outcome \in {"purged", "failed", "unverified"}
          /\ verified <=> outcome # "unverified"
    /\ pc \in {"cleanup", "idle"} =>
          /\ outcome = "purged" => gone
          /\ outcome = "failed" => gone \/ AllHold("old")

(* Without a maintenance inside the purge no WAL outlives its database. *)
WalOK ==
    \/ overlapped
    \/ /\ ~mixed
       /\ \A d \in durable : ~Mismatched(d)
       /\ maint # None => maint.db = dir.db
       /\ pc \notin {"idle", "checkpoint"} => maint = None /\ dir.wal = None
       /\ pc # "idle" => dir.wal_recovery = None

IInv == TypeOK /\ ControlOK /\ NameOK /\ SyncedOK /\ AnchorOK /\ ReportOK /\ WalOK

USE DEF Pcs, TryPart, RestorePart, BeforeLink, BeforeReplace, Anchored, AfterAnchor,
        Names, Temporary, Contents, Databases, Directories, AllHold, Goto, others,
        Write, Link, Rename, Unlink, FsyncDirectory

(* What earlier attempts left is swept while the old database has the name. *)
LEMMA PurgeStartInv == IInv /\ PurgeStart => IInv'
<1> SUFFICES ASSUME IInv, PurgeStart PROVE IInv'
  OBVIOUS
<1> USE NoneAssumption DEF IInv, PurgeStart
<1>1. TypeOK'
  BY FaultsAssumption, ZenonT(40) DEF TypeOK
<1>2. ControlOK'
  BY DEF TypeOK, ControlOK, NameOK
<1>3. NameOK'
  BY DEF TypeOK, NameOK
<1>4. SyncedOK'
  BY DEF SyncedOK, DatabaseDurable
<1>5. AnchorOK'
  BY DEF AnchorOK
<1>6. ReportOK'
  BY DEF ReportOK
<1>7. WalOK'
  BY DEF TypeOK, WalOK, Mismatched, Frames
<1> QED
  BY <1>1, <1>2, <1>3, <1>4, <1>5, <1>6, <1>7

(* The checkpoint takes the WAL along, and finds no connection open. *)
LEMMA PurgeCheckpointInv == IInv /\ PurgeCheckpoint => IInv'
<1> SUFFICES ASSUME IInv, PurgeCheckpoint PROVE IInv'
  OBVIOUS
<1> USE NoneAssumption DEF IInv, PurgeCheckpoint
<1>1. TypeOK'
  BY FaultsAssumption DEF TypeOK
<1>2. ControlOK'
  BY DEF ControlOK
<1>3. NameOK'
  BY DEF TypeOK, NameOK
<1>4. SyncedOK'
  BY DEF TypeOK, SyncedOK, DatabaseDurable
<1>5. AnchorOK'
  BY DEF TypeOK, AnchorOK
<1>6. ReportOK'
  BY DEF ReportOK
<1>7. WalOK'
  <2>1. CASE pc' = "idle"
    BY <2>1 DEF WalOK, Mismatched
  <2>2. CASE pc' = "create"
    <3>1. dir' = [dir EXCEPT !["wal"] = None] /\ durable' = durable \cup {dir'} /\ maint = None
      BY <2>2
    <3>2. dir'.wal = None /\ dir'.wal_recovery = dir.wal_recovery
      BY <3>1 DEF TypeOK
    <3>3. ~Mismatched(dir')
      BY <3>2 DEF Mismatched
    <3> QED
      BY <2>2, <3>1, <3>2, <3>3 DEF WalOK
  <2> QED
    BY <2>1, <2>2
<1> QED
  BY <1>1, <1>2, <1>3, <1>4, <1>5, <1>6, <1>7

(* The replacement is not fsynced, and no directory has it under the name. *)
LEMMA PurgeCreateInv == IInv /\ PurgeCreate => IInv'
<1> SUFFICES ASSUME IInv, PurgeCreate PROVE IInv'
  OBVIOUS
<1> USE NoneAssumption DEF IInv, PurgeCreate
<1>1. TypeOK'
  BY FaultsAssumption DEF TypeOK
<1>2. ControlOK'
  BY DEF ControlOK
<1>3. NameOK'
  BY DEF TypeOK, NameOK
<1>4. SyncedOK'
  BY DEF TypeOK, ControlOK, NameOK, SyncedOK, DatabaseDurable
<1>5. AnchorOK'
  BY DEF TypeOK, AnchorOK
<1>6. ReportOK'
  BY DEF ReportOK
<1>7. WalOK'
  BY DEF TypeOK, WalOK, Mismatched, Frames
<1> QED
  BY <1>1, <1>2, <1>3, <1>4, <1>5, <1>6, <1>7

(* The replacement is only read. *)
LEMMA PurgeValidateInv == IInv /\ PurgeValidate => IInv'
<1> SUFFICES ASSUME IInv, PurgeValidate PROVE IInv'
  OBVIOUS
<1> USE NoneAssumption DEF IInv, PurgeValidate
<1>1. TypeOK'
  BY FaultsAssumption DEF TypeOK
<1>2. ControlOK'
  BY DEF ControlOK
<1>3. NameOK'
  BY DEF NameOK
<1>4. SyncedOK'
  BY DEF SyncedOK, DatabaseDurable
<1>5. AnchorOK'
  BY DEF AnchorOK
<1>6. ReportOK'
  BY DEF ReportOK
<1>7. WalOK'
  BY DEF WalOK, Mismatched, Frames
<1> QED
  BY <1>1, <1>2, <1>3, <1>4, <1>5, <1>6, <1>7

(* From here on the replacement may take the name. *)
LEMMA PurgeFsyncReplacementInv == IInv /\ PurgeFsyncReplacement => IInv'
<1> SUFFICES ASSUME IInv, PurgeFsyncReplacement PROVE IInv'
  OBVIOUS
<1> USE NoneAssumption DEF IInv, PurgeFsyncReplacement
<1>1. TypeOK'
  BY FaultsAssumption DEF TypeOK
<1>2. ControlOK'
  BY DEF ControlOK
<1>3. NameOK'
  BY DEF NameOK
<1>4. SyncedOK'
  BY DEF SyncedOK, DatabaseDurable
<1>5. AnchorOK'
  BY DEF AnchorOK
<1>6. ReportOK'
  BY DEF ReportOK
<1>7. WalOK'
  BY DEF WalOK, Mismatched, Frames
<1> QED
  BY <1>1, <1>2, <1>3, <1>4, <1>5, <1>6, <1>7

(* The anchors are made while the old database has the name. *)
LEMMA PurgeLinkInv == IInv /\ PurgeLink => IInv'
<1> SUFFICES ASSUME IInv, PurgeLink PROVE IInv'
  OBVIOUS
<1> USE NoneAssumption DEF IInv, PurgeLink
<1>1. TypeOK'
  BY FaultsAssumption DEF TypeOK
<1>2. ControlOK'
  BY DEF ControlOK
<1>3. NameOK'
  BY DEF TypeOK, NameOK
<1>4. SyncedOK'
  BY DEF TypeOK, SyncedOK, DatabaseDurable
<1>5. AnchorOK'
  BY DEF TypeOK, ControlOK, NameOK, AnchorOK
<1>6. ReportOK'
  BY DEF ReportOK
<1>7. WalOK'
  BY DEF TypeOK, WalOK, Mismatched, Frames
<1> QED
  BY <1>1, <1>2, <1>3, <1>4, <1>5, <1>6, <1>7

(* Both databases have been fsynced; the anchor holds the old one. *)
LEMMA PurgeReplaceInv == IInv /\ PurgeReplace => IInv'
<1> SUFFICES ASSUME IInv, PurgeReplace PROVE IInv'
  OBVIOUS
<1> USE NoneAssumption DEF IInv, PurgeReplace
<1>1. TypeOK'
  BY FaultsAssumption DEF TypeOK
<1>2. ControlOK'
  BY DEF ControlOK
<1>3. NameOK'
  BY DEF TypeOK, ControlOK, NameOK, SyncedOK, DatabaseDurable
<1>4. SyncedOK'
  BY DEF TypeOK, SyncedOK, DatabaseDurable
<1>5. AnchorOK'
  BY DEF TypeOK, AnchorOK
<1>6. ReportOK'
  BY DEF ReportOK
<1>7. WalOK'
  BY DEF TypeOK, WalOK, Mismatched, Frames
<1> QED
  BY <1>1, <1>2, <1>3, <1>4, <1>5, <1>6, <1>7

(* The directories before the fsync are no longer possible. *)
LEMMA PurgeFsyncDirectoryInv == IInv /\ PurgeFsyncDirectory => IInv'
<1> SUFFICES ASSUME IInv, PurgeFsyncDirectory PROVE IInv'
  OBVIOUS
<1> USE NoneAssumption DEF IInv, PurgeFsyncDirectory
<1>1. TypeOK'
  BY FaultsAssumption DEF TypeOK
<1>2. ControlOK'
  BY DEF ControlOK
<1>3. NameOK'
  BY DEF TypeOK, NameOK
<1>4. SyncedOK'
  BY DEF TypeOK, SyncedOK, DatabaseDurable
<1>5. AnchorOK'
  BY DEF AnchorOK
<1>6. ReportOK'
  BY DEF ReportOK
<1>7. WalOK'
  BY DEF WalOK, Mismatched, Frames
<1> QED
  BY <1>1, <1>2, <1>3, <1>4, <1>5, <1>6, <1>7

(* The WAL of the old database goes; the anchor stays. *)
LEMMA PurgeUnlinkWalInv == IInv /\ PurgeUnlinkWal => IInv'
<1> SUFFICES ASSUME IInv, PurgeUnlinkWal PROVE IInv'
  OBVIOUS
<1> USE NoneAssumption DEF IInv, PurgeUnlinkWal, Orphaned
<1>1. TypeOK'
  BY FaultsAssumption, ZenonT(40) DEF TypeOK
<1>2. ControlOK'
  BY DEF ControlOK
<1>3. NameOK'
  BY DEF TypeOK, NameOK
<1>4. SyncedOK'
  BY DEF TypeOK, SyncedOK, DatabaseDurable
<1>5. AnchorOK'
  BY DEF TypeOK, AnchorOK
<1>6. ReportOK'
  BY DEF ReportOK
<1>7. WalOK'
  BY DEF TypeOK, WalOK, Mismatched, Frames
<1> QED
  BY <1>1, <1>2, <1>3, <1>4, <1>5, <1>6, <1>7

(* The anchor goes when only the new database can have the name. *)
LEMMA PurgeUnlinkAnchorInv == IInv /\ PurgeUnlinkAnchor => IInv'
<1> SUFFICES ASSUME IInv, PurgeUnlinkAnchor PROVE IInv'
  OBVIOUS
<1> USE NoneAssumption DEF IInv, PurgeUnlinkAnchor
<1>1. TypeOK'
  <2>1. ASSUME NEW n \in Names PROVE [dir EXCEPT ![n] = None] \in Directories
    BY DEF TypeOK
  <2>2. dir' \in Directories /\ durable' = durable \cup {dir'}
    BY <2>1
  <2>3. pc' \in Pcs /\ gone' \in BOOLEAN
    BY DEF TypeOK
  <2>4. UNCHANGED <<synced, leftover, lock, replaced, verified, outcome, maint, overlapped,
                    mixed, faults>>
    OBVIOUS
  <2> QED
    BY <2>2, <2>3, <2>4 DEF TypeOK
<1>2. ControlOK'
  BY DEF ControlOK
<1>3. NameOK'
  BY DEF TypeOK, NameOK
<1>4. SyncedOK'
  BY DEF TypeOK, SyncedOK, DatabaseDurable
<1>5. AnchorOK'
  BY DEF TypeOK, AnchorOK
<1>6. ReportOK'
  BY DEF ReportOK
<1>7. WalOK'
  BY DEF TypeOK, WalOK, Mismatched, Frames
<1> QED
  BY <1>1, <1>2, <1>3, <1>4, <1>5, <1>6, <1>7

(* Success is reported with the anchor gone. *)
LEMMA PurgeDoneInv == IInv /\ PurgeDone => IInv'
<1> SUFFICES ASSUME IInv, PurgeDone PROVE IInv'
  OBVIOUS
<1> USE NoneAssumption DEF IInv, PurgeDone
<1>1. TypeOK'
  BY FaultsAssumption DEF TypeOK
<1>2. ControlOK'
  BY DEF ControlOK
<1>3. NameOK'
  BY DEF TypeOK, NameOK
<1>4. SyncedOK'
  BY DEF TypeOK, SyncedOK, DatabaseDurable
<1>5. AnchorOK'
  BY DEF TypeOK, AnchorOK
<1>6. ReportOK'
  BY DEF ControlOK, ReportOK
<1>7. WalOK'
  BY DEF WalOK, Mismatched, Frames
<1> QED
  BY <1>1, <1>2, <1>3, <1>4, <1>5, <1>6, <1>7

(* Nothing is put back only when the old database never lost the name, or is gone. *)
LEMMA PurgeRaiseInv == IInv /\ PurgeRaise => IInv'
<1> SUFFICES ASSUME IInv, PurgeRaise PROVE IInv'
  OBVIOUS
<1> USE NoneAssumption DEF IInv, PurgeRaise
<1>1. TypeOK'
  BY FaultsAssumption, ZenonT(40) DEF TypeOK
<1>2. ControlOK'
  BY DEF TypeOK, ControlOK, AnchorOK, NameOK
<1>3. NameOK'
  BY DEF NameOK
<1>4. SyncedOK'
  BY DEF SyncedOK, DatabaseDurable
<1>5. AnchorOK'
  BY DEF ControlOK, AnchorOK
<1>6. ReportOK'
  BY DEF TypeOK, ControlOK, AnchorOK, NameOK, ReportOK
<1>7. WalOK'
  BY DEF WalOK, Mismatched, Frames
<1> QED
  BY <1>1, <1>2, <1>3, <1>4, <1>5, <1>6, <1>7

(* The anchor takes the name back, and the fsync makes it lasting. *)
LEMMA PurgeRestoreInv == IInv /\ PurgeRestore => IInv'
<1> SUFFICES ASSUME IInv, PurgeRestore PROVE IInv'
  OBVIOUS
<1> USE NoneAssumption DEF IInv, PurgeRestore, Orphaned
<1>1. TypeOK'
  <2>1. dir' \in Directories /\ durable' \in {durable \cup {dir'}, {dir'}, durable}
    BY DEF TypeOK
  <2>2. maint' \in {None} \cup [db : Databases, linked : BOOLEAN]
    BY ZenonT(40) DEF TypeOK
  <2>3. durable' \subseteq Directories /\ dir' \in durable'
    BY <2>1 DEF TypeOK
  <2>4. pc' \in Pcs /\ verified' \in BOOLEAN
    BY DEF TypeOK
  <2>5. UNCHANGED <<synced, leftover, lock, replaced, outcome, overlapped, mixed, gone, faults>>
    OBVIOUS
  <2> QED
    BY <2>2, <2>3, <2>4, <2>5 DEF TypeOK
<1>2. ControlOK'
  BY DEF ControlOK
<1>3. NameOK'
  BY DEF TypeOK, ControlOK, AnchorOK, NameOK
<1>4. SyncedOK'
  BY DEF TypeOK, ControlOK, AnchorOK, NameOK, SyncedOK, DatabaseDurable
<1>5. AnchorOK'
  BY DEF TypeOK, AnchorOK
<1>6. ReportOK'
  BY DEF TypeOK, ControlOK, NameOK, ReportOK
<1>7. WalOK'
  BY DEF TypeOK, WalOK, Mismatched, Frames
<1> QED
  BY <1>1, <1>2, <1>3, <1>4, <1>5, <1>6, <1>7

(* A failing rollback leaves the anchor where it is. *)
LEMMA PurgeRestoreRaiseInv == IInv /\ PurgeRestoreRaise => IInv'
<1> SUFFICES ASSUME IInv, PurgeRestoreRaise PROVE IInv'
  OBVIOUS
<1> USE NoneAssumption DEF IInv, PurgeRestoreRaise
<1>1. TypeOK'
  BY FaultsAssumption DEF TypeOK
<1>2. ControlOK'
  BY DEF ControlOK
<1>3. NameOK'
  BY DEF NameOK
<1>4. SyncedOK'
  BY DEF SyncedOK, DatabaseDurable
<1>5. AnchorOK'
  BY DEF AnchorOK
<1>6. ReportOK'
  BY DEF ControlOK, ReportOK
<1>7. WalOK'
  BY DEF WalOK, Mismatched, Frames
<1> QED
  BY <1>1, <1>2, <1>3, <1>4, <1>5, <1>6, <1>7

(* An anchor is removed only when the old database has the name or is let go. *)
LEMMA PurgeCleanupInv == IInv /\ PurgeCleanup => IInv'
<1> SUFFICES ASSUME IInv, PurgeCleanup PROVE IInv'
  OBVIOUS
<1> USE NoneAssumption DEF IInv, PurgeCleanup, Removable
<1>1. TypeOK'
  BY FaultsAssumption DEF TypeOK
<1>2. ControlOK'
  BY DEF ControlOK
<1>3. NameOK'
  BY DEF TypeOK, NameOK
<1>4. SyncedOK'
  BY DEF TypeOK, SyncedOK, DatabaseDurable
<1>5. AnchorOK'
  BY DEF TypeOK, ControlOK, NameOK, SyncedOK, DatabaseDurable, AnchorOK, ReportOK, WalOK,
     Mismatched, Frames
<1>6. ReportOK'
  BY DEF TypeOK, ReportOK
<1>7. WalOK'
  BY DEF TypeOK, WalOK, Mismatched, Frames
<1> QED
  BY <1>1, <1>2, <1>3, <1>4, <1>5, <1>6, <1>7

(* The collector starts while no purge runs. *)
LEMMA CollectorStartInv == IInv /\ CollectorStart => IInv'
<1> SUFFICES ASSUME IInv, CollectorStart PROVE IInv'
  OBVIOUS
<1> USE NoneAssumption DEF IInv, CollectorStart, Opens, Mismatched, Frames
<1>1. TypeOK'
  BY FaultsAssumption DEF TypeOK
<1>2. ControlOK'
  BY DEF ControlOK
<1>3. NameOK'
  BY DEF TypeOK, NameOK
<1>4. SyncedOK'
  BY DEF TypeOK, SyncedOK, DatabaseDurable
<1>5. AnchorOK'
  BY DEF TypeOK, AnchorOK
<1>6. ReportOK'
  BY DEF TypeOK, ReportOK
<1>7. WalOK'
  BY DEF TypeOK, ControlOK, WalOK, Mismatched, Frames
<1> QED
  BY <1>1, <1>2, <1>3, <1>4, <1>5, <1>6, <1>7

(* The collector leaves the database and its own WAL, or none. *)
LEMMA CollectorStopInv == IInv /\ CollectorStop => IInv'
<1> SUFFICES ASSUME IInv, CollectorStop PROVE IInv'
  OBVIOUS
<1> USE NoneAssumption DEF IInv, CollectorStop
<1>1. TypeOK'
  BY FaultsAssumption DEF TypeOK
<1>2. ControlOK'
  BY DEF ControlOK
<1>3. NameOK'
  BY DEF TypeOK, NameOK
<1>4. SyncedOK'
  BY DEF TypeOK, SyncedOK, DatabaseDurable
<1>5. AnchorOK'
  BY DEF TypeOK, AnchorOK
<1>6. ReportOK'
  BY DEF TypeOK, ReportOK
<1>7. WalOK'
  BY DEF TypeOK, WalOK, Mismatched, Frames
<1> QED
  BY <1>1, <1>2, <1>3, <1>4, <1>5, <1>6, <1>7

(* A maintenance inside the purge is one that overlapped. *)
LEMMA MaintenanceStartInv == IInv /\ MaintenanceStart => IInv'
<1> SUFFICES ASSUME IInv, MaintenanceStart PROVE IInv'
  OBVIOUS
<1> USE NoneAssumption DEF IInv, MaintenanceStart, Opens, Mismatched
<1>1. TypeOK'
  <2>1. dir.db \in Databases
    BY DEF TypeOK, SyncedOK, DatabaseDurable
  <2> QED
    BY <2>1, FaultsAssumption DEF TypeOK
<1>2. ControlOK'
  BY DEF ControlOK
<1>3. NameOK'
  BY DEF NameOK
<1>4. SyncedOK'
  BY DEF SyncedOK, DatabaseDurable
<1>5. AnchorOK'
  BY DEF AnchorOK
<1>6. ReportOK'
  BY DEF ReportOK
<1>7. WalOK'
  BY DEF TypeOK, WalOK, Mismatched, Frames
<1> QED
  BY <1>1, <1>2, <1>3, <1>4, <1>5, <1>6, <1>7

(* A maintenance outside the purge writes the WAL of the database it finds. *)
LEMMA MaintenanceCommitInv == IInv /\ MaintenanceCommit => IInv'
<1> SUFFICES ASSUME IInv, MaintenanceCommit PROVE IInv'
  OBVIOUS
<1> USE NoneAssumption DEF IInv, MaintenanceCommit, Frames
<1>1. TypeOK'
  BY FaultsAssumption DEF TypeOK
<1>2. ControlOK'
  BY DEF ControlOK
<1>3. NameOK'
  BY DEF TypeOK, NameOK
<1>4. SyncedOK'
  BY DEF TypeOK, SyncedOK, DatabaseDurable
<1>5. AnchorOK'
  BY DEF TypeOK, AnchorOK
<1>6. ReportOK'
  BY DEF TypeOK, ReportOK
<1>7. WalOK'
  BY DEF TypeOK, WalOK, Mismatched, Frames
<1> QED
  BY <1>1, <1>2, <1>3, <1>4, <1>5, <1>6, <1>7

(* The directories stay what they are. *)
LEMMA KillInv == IInv /\ Kill => IInv'
<1> SUFFICES ASSUME IInv, Kill PROVE IInv'
  OBVIOUS
<1> USE NoneAssumption DEF IInv, Kill, Dead
<1>1. TypeOK'
  BY FaultsAssumption DEF TypeOK
<1>2. ControlOK'
  BY DEF ControlOK
<1>3. NameOK'
  BY DEF NameOK
<1>4. SyncedOK'
  BY DEF SyncedOK, DatabaseDurable
<1>5. AnchorOK'
  BY DEF AnchorOK
<1>6. ReportOK'
  BY DEF ReportOK
<1>7. WalOK'
  BY DEF WalOK, Mismatched, Frames
<1> QED
  BY <1>1, <1>2, <1>3, <1>4, <1>5, <1>6, <1>7

(* Any directory of durable has what the invariant asks of all. *)
LEMMA PowerLossInv == IInv /\ PowerLoss => IInv'
<1> SUFFICES ASSUME IInv, PowerLoss PROVE IInv'
  OBVIOUS
<1> USE NoneAssumption DEF IInv, PowerLoss, Dead
<1>1. TypeOK'
  BY FaultsAssumption DEF TypeOK
<1>2. ControlOK'
  BY DEF ControlOK
<1>3. NameOK'
  BY DEF NameOK
<1>4. SyncedOK'
  BY DEF SyncedOK, DatabaseDurable
<1>5. AnchorOK'
  BY DEF AnchorOK
<1>6. ReportOK'
  BY DEF ReportOK
<1>7. WalOK'
  BY DEF WalOK, Mismatched, Frames
<1> QED
  BY <1>1, <1>2, <1>3, <1>4, <1>5, <1>6, <1>7

(* The old database, fsynced, with no WAL beside it. *)
LEMMA InvInit == Init => IInv
<1> SUFFICES ASSUME Init PROVE IInv
  OBVIOUS
<1> USE NoneAssumption DEF Init
<1>1. TypeOK
  <2>1. dir \in Directories
    OBVIOUS
  <2>2. durable \subseteq Directories /\ dir \in durable
    BY <2>1
  <2>3. /\ replaced \in BOOLEAN /\ verified \in BOOLEAN /\ overlapped \in BOOLEAN
        /\ mixed \in BOOLEAN /\ gone \in BOOLEAN
    OBVIOUS
  <2> QED
    BY <2>1, <2>2, <2>3, FaultsAssumption DEF TypeOK
<1>2. dir.db = "old" /\ dir.wal = None /\ durable = {dir}
  OBVIOUS
<1>3. ControlOK /\ NameOK /\ SyncedOK /\ AnchorOK /\ ReportOK
  BY <1>2 DEF ControlOK, NameOK, SyncedOK, DatabaseDurable, AnchorOK, ReportOK
<1>4. WalOK
  BY <1>2 DEF WalOK, Mismatched
<1> QED
  BY <1>1, <1>3, <1>4 DEF IInv

(* No step of the purge, of another process or of the machine breaks it. *)
LEMMA InvStep == IInv /\ [Next]_vars => IInv'
<1> SUFFICES ASSUME IInv, [Next]_vars PROVE IInv'
  OBVIOUS
<1>1. CASE UNCHANGED vars
  BY <1>1 DEF vars, IInv, TypeOK, ControlOK, NameOK, SyncedOK, DatabaseDurable, AnchorOK, ReportOK,
              WalOK, Mismatched, Frames
<1>2. CASE Next
  BY <1>2, PurgeStartInv, PurgeCheckpointInv, PurgeCreateInv, PurgeValidateInv,
     PurgeFsyncReplacementInv, PurgeLinkInv, PurgeReplaceInv, PurgeFsyncDirectoryInv,
     PurgeUnlinkWalInv, PurgeUnlinkAnchorInv, PurgeDoneInv, PurgeRaiseInv, PurgeRestoreInv,
     PurgeRestoreRaiseInv, PurgeCleanupInv, CollectorStartInv, CollectorStopInv,
     MaintenanceStartInv, MaintenanceCommitInv, KillInv, PowerLossInv DEF Next, Purge
<1> QED
  BY <1>1, <1>2

-----------------------------------------------------------------------------
(* The theorems. *)

(* For any number of kills, power failures and unlocked maintenance runs,  *)
(* purge_history (admin_cli.py) leaves a database that was fsynced under   *)
(* the name, keeps the old history recoverable until it lets its anchor    *)
(* go, and no WAL is replayed into the other database unless a maintenance *)
(* ran inside the purge.                                                   *)
THEOREM HistoryAlwaysSafe == Spec => []HistorySafe
<1>1. IInv => HistorySafe
  BY DEF IInv, SyncedOK, NameOK, AnchorOK, WalOK, HistorySafe, OldRecoverable, NoMixedWal
<1> QED
  BY InvInit, InvStep, <1>1, PTL DEF Spec

(* What the purge reported is what it did, after any failures: "purged"    *)
(* left the empty database, "failed" the one it found unless the anchor    *)
(* was gone.                                                               *)
THEOREM ReportAlwaysTrue == Spec => []ReportIsTrue
<1>1. IInv => ReportIsTrue
  BY DEF IInv, TypeOK, NameOK, ReportOK, ReportIsTrue
<1> QED
  BY InvInit, InvStep, <1>1, PTL DEF Spec

=============================================================================
