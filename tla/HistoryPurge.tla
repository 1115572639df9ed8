---------------------------- MODULE HistoryPurge ----------------------------
(***************************************************************************)
(* gost-monitor-admin purge-history (monitoring/admin_cli.py): the history *)
(* database is replaced by an empty one through a hard-linked recovery     *)
(* anchor, under the lock it shares with the collector (runtime_lock.py)   *)
(* but not with gost-monitor-admin maintenance.                            *)
(*                                                                         *)
(* The state directory is a function from names to what the file holds.    *)
(* Every file operation is a step; it may raise, the process may be        *)
(* killed, and the power may fail.  A power failure leaves one of the      *)
(* directories that existed since the last fsync of the directory.         *)
(*                                                                         *)
(* "wal" stands for the -wal and -shm sidecars.  A WAL without frames      *)
(* holds nothing and is the same as none.  The WAL of the other database   *)
(* is replayed into whatever database it is found beside (SQLite).         *)
(***************************************************************************)
EXTENDS Naturals, FiniteSets

CONSTANTS None,        \* no file, no process
          MaxFaults    \* bound: kills, power failures and maintenance runs

ASSUME FaultsAssumption == MaxFaults \in Nat

ASSUME NoneAssumption ==
    None \notin {"old", "new", "old_frames", "new_frames", "collector", "purge",
                 "refused", "purged", "failed", "unverified"}

VARIABLES
    dir,         \* [Names -> content]: the state directory
    durable,     \* the directories a power failure may leave
    synced,      \* the database files whose content was fsynced
    leftover,    \* what the temporary files of earlier attempts hold
    lock,        \* the holder of collector.lock
    pc,          \* where the purge is
    replaced,    \* the local variable of purge_history
    verified,    \* rollback_verified
    outcome,     \* what the last purge reported
    maint,       \* an unlocked maintenance: [db |-> file it opened, linked |-> BOOLEAN]
    overlapped,  \* ghost: a maintenance ran inside the purge's critical part
    mixed,       \* ghost: a WAL was replayed into the other database
    gone,        \* ghost: the purge removed its recovery anchor
    faults

vars == <<dir, durable, synced, leftover, lock, pc, replaced, verified,
          outcome, maint, overlapped, mixed, gone, faults>>

Temporary == {"replacement", "recovery", "backup", "wal_recovery"}
Names == {"db", "wal"} \cup Temporary
Databases == {"old", "new"}
Frames(db) == IF db = "old" THEN "old_frames" ELSE "new_frames"
Contents == Databases \cup {"old_frames", "new_frames", None}
Directories == [Names -> Contents]

TryPart == {"create", "validate", "fsync_new", "link_recovery", "link_backup",
            "link_wal", "replace", "fsync_dir", "unlink_wal", "fsync_first",
            "unlink_backup", "fsync_final", "unlink_recovery", "unlink_saved"}
RestorePart == {"restore_db", "restore_unlink", "restore_wal", "restore_fsync", "restore_check"}
Pcs == {"idle", "checkpoint", "fsync_last", "cleanup"} \cup TryPart \cup RestorePart

TypeOK ==
    /\ dir \in Directories
    /\ durable \subseteq Directories /\ dir \in durable
    /\ synced \subseteq Databases
    /\ leftover \subseteq Contents
    /\ lock \in {None, "collector", "purge"}
    /\ pc \in Pcs
    /\ replaced \in BOOLEAN /\ verified \in BOOLEAN
    /\ outcome \in {None, "refused", "purged", "failed", "unverified"}
    /\ maint \in {None} \cup [db : Databases, linked : BOOLEAN]
    /\ overlapped \in BOOLEAN /\ mixed \in BOOLEAN /\ gone \in BOOLEAN
    /\ faults \in 0..MaxFaults

Init ==
    /\ dir = [n \in Names |-> IF n = "db" THEN "old" ELSE None]
    /\ durable = {dir}
    /\ synced = {"old"}
    /\ leftover = {}
    /\ lock = None /\ pc = "idle"
    /\ replaced = FALSE /\ verified = FALSE
    /\ outcome = None /\ maint = None
    /\ overlapped = FALSE /\ mixed = FALSE /\ gone = FALSE /\ faults = 0

-----------------------------------------------------------------------------
(* File operations *)

\* A change of the directory: visible at once, durable at the next fsync.
Write(d) == dir' = d /\ durable' = durable \cup {d}

Link(from, to) == Write([dir EXCEPT ![to] = dir[from]])
Rename(from, to) == Write([dir EXCEPT ![to] = dir[from], ![from] = None])
Unlink(name) == Write([dir EXCEPT ![name] = None])

\* _fsync_path(parent)
FsyncDirectory == durable' = {dir} /\ UNCHANGED dir

\* The WAL file was unlinked: who has it open writes into an orphan.
Orphaned(m) == IF m = None THEN None ELSE [m EXCEPT !.linked = FALSE]

Mismatched(d) == d.wal \notin {None, Frames(d.db)}

-----------------------------------------------------------------------------
(* The purge *)

Goto(from, to) == pc = from /\ pc' = to

Purging == lock = "purge"

others == <<leftover, lock, outcome, mixed, faults>>

\* _optional_lock and RuntimeLock.__enter__: LOCK_EX | LOCK_NB.  A second
\* purge, of the empty database, would go through the same steps.  What an
\* earlier attempt did to the directory has reached the disk by then.
PurgeStart ==
    /\ pc = "idle" /\ lock # "purge" /\ dir.db = "old"
    /\ IF lock = None
       THEN lock' = "purge" /\ pc' = "checkpoint" /\ outcome' = None
       ELSE UNCHANGED <<lock, pc>> /\ outcome' = "refused"
    /\ replaced' = FALSE /\ verified' = FALSE
    /\ leftover' = leftover \cup ({dir[n] : n \in Temporary} \ {None})
    /\ dir' = [n \in Names |-> IF n \in Temporary THEN None ELSE dir[n]]
    /\ durable' = {dir'}
    /\ UNCHANGED <<synced, maint, overlapped, mixed, gone, faults>>

\* _checkpoint_for_purge, TRUNCATE: busy while a transaction is open, and any
\* error ends the purge before it has changed anything.
PurgeCheckpoint ==
    /\ pc = "checkpoint"
    /\ \/ /\ pc' = "idle" /\ lock' = None /\ outcome' = "refused"
          /\ UNCHANGED <<dir, durable>>
       \/ /\ maint = None
          /\ pc' = "create"
          /\ Unlink("wal")
          /\ UNCHANGED <<lock, outcome>>
    /\ UNCHANGED <<synced, leftover, replaced, verified, maint, overlapped, mixed, gone, faults>>

\* _create_replacement: it removes what it made when it fails.
PurgeCreate ==
    /\ Goto("create", "validate")
    /\ Write([dir EXCEPT !["replacement"] = "new"])
    /\ synced' = synced \ {"new"}
    /\ UNCHANGED <<others, gone, replaced, verified, maint, overlapped>>

\* _validate_empty_database and _fsync_path of the replacement.
PurgeValidate ==
    /\ Goto("validate", "fsync_new")
    /\ UNCHANGED <<dir, durable, synced, replaced, verified, maint, overlapped, others, gone>>

PurgeFsyncReplacement ==
    /\ Goto("fsync_new", "link_recovery")
    /\ synced' = synced \cup {"new"}
    /\ UNCHANGED <<dir, durable, replaced, verified, maint, overlapped, others, gone>>

\* _hard_link: the two anchors, and the sidecars that exist.
PurgeLink ==
    /\ \/ Goto("link_recovery", "link_backup") /\ Link("db", "recovery")
       \/ Goto("link_backup", "link_wal") /\ Link("db", "backup")
       \/ Goto("link_wal", "replace") /\ Link("wal", "wal_recovery")
    /\ UNCHANGED <<synced, replaced, verified, maint, overlapped, others, gone>>

PurgeReplace ==
    /\ Goto("replace", "fsync_dir")
    /\ Rename("replacement", "db")
    /\ replaced' = TRUE
    /\ UNCHANGED <<synced, verified, maint, overlapped, others, gone>>

\* _fsync_path(parent), three times in the try part; after the first the
\* database is validated once more, which changes nothing and may raise.
PurgeFsyncDirectory ==
    /\ \/ Goto("fsync_dir", "unlink_wal")
       \/ Goto("fsync_first", "unlink_backup")
       \/ Goto("fsync_final", "unlink_recovery")
    /\ FsyncDirectory
    /\ UNCHANGED <<synced, replaced, verified, maint, overlapped, others, gone>>

PurgeUnlinkWal ==
    /\ Goto("unlink_wal", "fsync_first")
    /\ Unlink("wal")
    /\ maint' = Orphaned(maint)
    /\ UNCHANGED <<synced, replaced, verified, overlapped, others, gone>>

PurgeUnlinkAnchor ==
    /\ \/ Goto("unlink_backup", "fsync_final") /\ Unlink("backup") /\ UNCHANGED gone
       \/ Goto("unlink_recovery", "unlink_saved") /\ Unlink("recovery") /\ gone' = TRUE
       \/ Goto("unlink_saved", "fsync_last") /\ Unlink("wal_recovery") /\ UNCHANGED gone
    /\ UNCHANGED <<synced, replaced, verified, maint, overlapped, others>>

\* The last fsync may fail; the purge is reported as done either way.
PurgeDone ==
    /\ Goto("fsync_last", "cleanup")
    /\ FsyncDirectory \/ UNCHANGED <<dir, durable>>
    /\ verified' = TRUE /\ outcome' = "purged"
    /\ UNCHANGED <<synced, leftover, lock, replaced, maint, overlapped, mixed, gone, faults>>

\* Mutant of PurgeRaise: the anchor is kept, but nothing is put back.
PurgeRaiseKeeps ==
    /\ pc \in TryPart
    /\ outcome' = "failed"
    /\ pc' = "cleanup" /\ verified' = ~(replaced /\ dir.recovery # None)
    /\ UNCHANGED <<dir, durable, synced, leftover, lock, replaced, maint,
                   overlapped, mixed, gone, faults>>

\* An exception anywhere in the try part.
PurgeRaise ==
    /\ pc \in TryPart
    /\ outcome' = "failed"
    /\ IF replaced /\ dir.recovery # None
       THEN pc' = "restore_db" /\ UNCHANGED verified
       ELSE pc' = "cleanup" /\ verified' = TRUE
    /\ UNCHANGED <<dir, durable, synced, leftover, lock, replaced, maint,
                   overlapped, mixed, gone, faults>>

\* The except branch: the anchor goes back, then the sidecars.
PurgeRestore ==
    /\ \/ Goto("restore_db", "restore_unlink") /\ Rename("recovery", "db")
          /\ UNCHANGED <<verified, maint>>
       \/ Goto("restore_unlink", "restore_wal") /\ Unlink("wal")
          /\ maint' = Orphaned(maint) /\ UNCHANGED verified
       \/ Goto("restore_wal", "restore_fsync") /\ Rename("wal_recovery", "wal")
          /\ UNCHANGED <<verified, maint>>
       \/ Goto("restore_fsync", "restore_check") /\ FsyncDirectory
          /\ UNCHANGED <<verified, maint>>
       \/ Goto("restore_check", "cleanup") /\ verified' = TRUE
          /\ UNCHANGED <<dir, durable, maint>>
    /\ UNCHANGED <<synced, replaced, overlapped, others, gone>>

\* Mutant of PurgeRestoreRaise: the rollback counts as verified.
PurgeRestoreRaiseVerified ==
    /\ pc \in RestorePart
    /\ pc' = "cleanup" /\ outcome' = "unverified" /\ verified' = TRUE
    /\ UNCHANGED <<dir, durable, synced, leftover, lock, replaced,
                   maint, overlapped, mixed, gone, faults>>

\* An exception in the except branch: AdminDatabaseError, nothing is removed.
PurgeRestoreRaise ==
    /\ pc \in RestorePart
    /\ pc' = "cleanup" /\ outcome' = "unverified"
    /\ UNCHANGED <<dir, durable, synced, leftover, lock, replaced, verified,
                   maint, overlapped, mixed, gone, faults>>

\* The finally branch and the release of the lock.
Removable == {n \in IF verified THEN Temporary ELSE {"replacement"} : dir[n] # None}

\* Mutant of PurgeCleanup: the lock is never released.
PurgeCleanupStuck ==
    /\ pc = "cleanup"
    /\ \/ \E n \in Removable : Unlink(n)
       \/ Removable = {} /\ UNCHANGED <<dir, durable>>
    /\ UNCHANGED <<synced, leftover, lock, pc, replaced, verified, outcome, maint, overlapped, mixed, gone, faults>>

PurgeCleanup ==
    /\ pc = "cleanup"
    /\ \/ \E n \in Removable : Unlink(n) /\ UNCHANGED <<pc, lock>>
       \/ Removable = {} /\ pc' = "idle" /\ lock' = None /\ UNCHANGED <<dir, durable>>
    /\ UNCHANGED <<synced, leftover, replaced, verified, outcome, maint, overlapped, mixed, gone, faults>>

-----------------------------------------------------------------------------
(* The other processes, and what can happen to them *)

\* A connection replays the WAL it finds beside the database.
Opens == mixed' = (mixed \/ Mismatched(dir))

\* The collector runs under the lock and commits to the database it opened.
CollectorStart ==
    /\ lock = None
    /\ lock' = "collector"
    /\ Opens
    /\ Write([dir EXCEPT !["wal"] = Frames(dir.db)])
    /\ UNCHANGED <<synced, leftover, pc, replaced, verified, outcome, maint, overlapped, gone, faults>>

\* The last connection to close takes the WAL with it.
CollectorStop ==
    /\ lock = "collector"
    /\ lock' = None
    /\ IF maint = None THEN Unlink("wal") ELSE UNCHANGED <<dir, durable>>
    /\ UNCHANGED <<synced, leftover, pc, replaced, verified, outcome, maint, overlapped,
                   mixed, gone, faults>>

\* gost-monitor-admin maintenance: no lock is taken.
MaintenanceStart ==
    /\ maint = None /\ faults < MaxFaults
    /\ faults' = faults + 1
    /\ maint' = [db |-> dir.db, linked |-> TRUE]
    /\ overlapped' = (overlapped \/ pc \notin {"idle", "checkpoint"})
    /\ Opens
    /\ UNCHANGED <<dir, durable, synced, leftover, lock, pc, replaced, verified, outcome, gone>>

\* The commit; the frames are checkpointed when it is the last to close.
MaintenanceCommit ==
    /\ maint # None
    /\ maint' = None
    /\ \/ maint.linked /\ Write([dir EXCEPT !["wal"] = Frames(maint.db)])
       \/ lock # "collector" /\ maint.linked /\ maint.db = dir.db /\ Unlink("wal")
       \/ ~maint.linked /\ UNCHANGED <<dir, durable>>
    /\ UNCHANGED <<synced, leftover, lock, pc, replaced, verified, outcome, overlapped,
                   mixed, gone, faults>>

Dead == pc' = "idle" /\ lock' = None /\ outcome' = IF pc = "idle" THEN outcome ELSE None

\* SIGKILL: the kernel drops the flock, the files stay.
Kill ==
    /\ lock # None /\ faults < MaxFaults
    /\ faults' = faults + 1
    /\ Dead
    /\ UNCHANGED <<dir, durable, synced, leftover, replaced, verified, maint, overlapped,
                   mixed, gone>>

PowerLoss ==
    /\ faults < MaxFaults
    /\ faults' = faults + 1
    /\ Dead
    /\ \E d \in durable : dir' = d /\ durable' = {d}
    /\ maint' = None
    /\ UNCHANGED <<synced, leftover, replaced, verified, overlapped, mixed, gone>>

Purge == \/ PurgeStart \/ PurgeCheckpoint \/ PurgeCreate \/ PurgeValidate
         \/ PurgeFsyncReplacement \/ PurgeLink \/ PurgeReplace
         \/ PurgeFsyncDirectory \/ PurgeUnlinkWal \/ PurgeUnlinkAnchor
         \/ PurgeDone \/ PurgeRaise \/ PurgeRestore \/ PurgeRestoreRaise
         \/ PurgeCleanup

Next == \/ Purge \/ CollectorStart \/ CollectorStop
        \/ MaintenanceStart \/ MaintenanceCommit \/ Kill \/ PowerLoss

\* The purge is a program that runs on; nothing else need happen.
Spec == Init /\ [][Next]_vars /\ WF_vars(Purge)

-----------------------------------------------------------------------------
(* Properties *)

\* In every directory a power failure may leave, the database name is taken by
\* a file whose content was fsynced (admin_cli.py: _fsync_path before replace).
DatabaseDurable == \A d \in durable : d.db \in synced

\* Until the purge removes its recovery anchor, the old history is somewhere in
\* the directory, under its name or an anchor, whatever fails: exceptions, a
\* failing rollback, a kill, a power failure (docs/MONITORING-V0.2.md:268); and
\* when the anchor goes, no power failure can bring the old database back.
OldRecoverable ==
    IF gone THEN \A d \in durable : d.db = "new"
    ELSE "old" \in leftover \/ \A d \in durable : \E n \in Names : d[n] = "old"

\* What the purge reports is what it did, also after a power failure: success
\* left the empty database, a failure that was rolled back left the one it
\* found unless the anchor was already gone.
ReportIsTrue ==
    pc = "idle" =>
        /\ outcome = "purged" => dir.db = "new"
        /\ outcome = "failed" => dir.db = "old" \/ gone

\* No connection replays the WAL of one database into the other, unless a
\* maintenance, which takes no lock, ran inside the purge.
NoMixedWal == mixed => overlapped

\* No failure, kill or power failure costs a history: the database opens, the old
\* one can be put back until it is let go, and neither reads the other's WAL.
HistorySafe == TypeOK /\ DatabaseDurable /\ OldRecoverable /\ NoMixedWal

\* A purge always ends and gives the lock back.
PurgeEnds == Purging ~> ~Purging
=============================================================================
