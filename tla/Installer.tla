------------------------------ MODULE Installer -----------------------------
(***************************************************************************)
(* install.sh: the managed files are replaced one by one, the databases    *)
(* migrated and the two services enabled, started or restarted; a command  *)
(* that fails before the commit runs the ERR trap, which undoes the whole  *)
(* transaction from the backups and reports 1, or 70 when it cannot verify *)
(* what it restored.                                                       *)
(*                                                                         *)
(* Every file has one of three contents, the one found ("old"), the one of *)
(* the release ("new") and none ("absent"); modes and owners are left out. *)
(* There is one action for every group of commands between which the host  *)
(* changes, so that the installer may fail or be killed between any two.   *)
(*                                                                         *)
(* The script runs with set -E: a command that fails inside $( ) runs the  *)
(* trap in the subshell first and, when the subshell has ended with an     *)
(* error, in the script again.  The second run finds the variables of the  *)
(* script as they were, and the disk as the first one left it.             *)
(***************************************************************************)
EXTENDS Naturals, Sequences

CONSTANTS Hosts,        \* the hosts install.sh is run on
          MaxFaults     \* commands that fail while a transaction is undone

VARIABLES
    files,      \* content of every managed file
    dirs,       \* the managed directories that exist
    db,         \* schema of the database of each service
    unit,       \* what systemd knows of each service
    pc,         \* the next commands of install.sh
    at,         \* the file or service they are about
    tx,         \* the variables of the script: what it recorded and changed
    subshell,   \* the trap runs in a subshell
    failed,     \* rollback_files has met an error
    status,     \* exit status, or Running
    before,     \* history: the host before
    faults,     \* history: failures while undoing
    twice       \* history: the transaction was undone twice

host == <<files, dirs, db, unit>>
history == <<before, faults, twice>>
installerVars == <<host, pc, at, tx, subshell, failed, status, history>>

-----------------------------------------------------------------------------
(* The host.                                                               *)

(* install_files, in this order. *)
InstallOrder ==
    <<"gost-manager", "VERSION", "gost-run-iran.sh", "gost-run-kharej.sh",
      "monitoring", "gost-monitor", "gost-monitor-admin", "gost-monitor-collector",
      "gost_watchdog", "gost-upstream-watchdog", "gost-watchdog-admin",
      "monitoring.env", "gost-monitor-collector.service",
      "watchdog.conf", "gost-upstream-watchdog.service">>

Files == {InstallOrder[n] : n \in 1..Len(InstallOrder)}
Packages == {"monitoring", "gost_watchdog"}
Configs == {"monitoring.env", "watchdog.conf"}
Units == {"gost-monitor-collector.service", "gost-upstream-watchdog.service"}
WatchdogFiles ==
    {"gost_watchdog", "gost-upstream-watchdog", "gost-watchdog-admin",
     "watchdog.conf", "gost-upstream-watchdog.service"}

(* The collector is activated before the Watchdog. *)
Service == <<"monitor", "watchdog">>
Services == {"monitor", "watchdog"}

UnitFile(s) ==
    IF s = "monitor" THEN "gost-monitor-collector.service" ELSE "gost-upstream-watchdog.service"
Package(s) == IF s = "monitor" THEN "monitoring" ELSE "gost_watchdog"

(* What a process of the service is made of. *)
RuntimeOf(s) ==
    IF s = "monitor"
    THEN {"monitoring", "gost-monitor-collector", "gost-monitor-collector.service"}
    ELSE {"gost_watchdog", "gost-upstream-watchdog", "gost-upstream-watchdog.service"}

(* /usr/local/lib/gost-manager, /etc/gost and /etc/gost-manager, and       *)
(* /var/lib/gost-manager; the two system directories are always there.     *)
Directories == {"program", "config", "state"}

Contents == {"absent", "old", "new"}

(* systemd has its own copy of a unit (loaded) until a daemon-reload, and  *)
(* a process has the code it was started with until it is stopped.         *)
UnitStates == [loaded : Contents, enabled : BOOLEAN, active : BOOLEAN, code : Contents]

HostStates ==
    [files : [Files -> Contents], dirs : SUBSET Directories,
     db : [Services -> Contents], unit : [Services -> UnitStates]]

(* A host install.sh may be run on: systemd has read the units, a service  *)
(* without a unit is neither enabled nor active, a process runs the        *)
(* installed code, and a database is in the state directory.               *)
SettledHost(h) ==
    \A s \in Services :
        /\ h.unit[s].loaded = h.files[UnitFile(s)]
        /\ h.files[UnitFile(s)] = "absent" => ~h.unit[s].enabled /\ ~h.unit[s].active
        /\ h.unit[s].code = IF h.unit[s].active THEN h.files[Package(s)] ELSE "absent"
        /\ h.db[s] # "absent" => "state" \in h.dirs

ASSUME HostsAssumption == \A h \in Hosts : h \in HostStates /\ SettledHost(h)
ASSUME MaxFaultsAssumption == MaxFaults \in Nat

Running == 99
Statuses == {Running, 0, 1, 70}

(* systemctl: what a command that succeeds does.  Starting a service that  *)
(* is active does nothing.                                                 *)
Enabled(u) == [u EXCEPT !.enabled = TRUE]
Disabled(u) == [u EXCEPT !.enabled = FALSE]
Stopped(u) == [u EXCEPT !.active = FALSE, !.code = "absent"]
Restarted(u, s) == [u EXCEPT !.active = TRUE, !.code = files[Package(s)]]
Started(u, s) == IF u.active THEN u ELSE Restarted(u, s)
Reloaded == [s \in Services |-> [unit[s] EXCEPT !.loaded = files[UnitFile(s)]]]

-----------------------------------------------------------------------------
(* The transaction.                                                        *)

NoService == [unit |-> FALSE, enabled |-> FALSE, active |-> FALSE]

TxStates ==
    [recorded : BOOLEAN,
     prev : [Services -> [unit : BOOLEAN, enabled : BOOLEAN, active : BOOLEAN]],
     changed : Seq(Files),
     backup : [Files -> Contents],
     filesChanged : [Services -> BOOLEAN],
     unitChanged : BOOLEAN,
     dirsCreated : SUBSET Directories,
     dbCreated : [Services -> BOOLEAN],
     enableAttempted : [Services -> BOOLEAN],
     startAttempted : [Services -> BOOLEAN],
     committed : BOOLEAN]

(* The variables at the head of the script. *)
FreshTx ==
    [recorded |-> FALSE,
     prev |-> [s \in Services |-> NoService],
     changed |-> <<>>,
     backup |-> [f \in Files |-> "absent"],
     filesChanged |-> [s \in Services |-> FALSE],
     unitChanged |-> FALSE,
     dirsCreated |-> {},
     dbCreated |-> [s \in Services |-> FALSE],
     enableAttempted |-> [s \in Services |-> FALSE],
     startAttempted |-> [s \in Services |-> FALSE],
     committed |-> FALSE]

InstallerInit ==
    /\ before \in Hosts
    /\ files = before.files /\ dirs = before.dirs
    /\ db = before.db /\ unit = before.unit
    /\ pc = "idle" /\ at = 0
    /\ tx = FreshTx /\ subshell = FALSE /\ failed = FALSE
    /\ status = Running /\ faults = 0 /\ twice = FALSE

Goto(label, n) == pc' = label /\ at' = n

(* The trap: without a recorded service state only files are undone. *)
Undo ==
    /\ IF tx.recorded THEN Goto("prepare", 1) ELSE Goto("undo_file", Len(tx.changed))
    /\ failed' = FALSE

UndoIn(sub) == Undo /\ subshell' = sub /\ UNCHANGED <<status, history>>

Forward == UNCHANGED <<subshell, failed, status, history>>

Begin ==
    /\ pc = "idle" /\ Goto("validate", 0)
    /\ UNCHANGED <<host, tx>> /\ Forward

(* Everything up to the staged units is checked before a file is touched. *)
Validate ==
    /\ pc = "validate" /\ Goto("record", 0)
    /\ UNCHANGED <<host, tx>> /\ Forward

(* record_service_state, record_watchdog_service_state *)
RecordServiceState ==
    /\ pc = "record" /\ Goto("directories", 0)
    /\ tx' = [tx EXCEPT
                !.recorded = TRUE,
                !.prev = [s \in Services |-> [unit |-> files[UnitFile(s)] # "absent",
                                              enabled |-> unit[s].enabled,
                                              active |-> unit[s].active]]]
    /\ UNCHANGED host /\ Forward

(* ensure_shared_directory, ensure_legacy_directory,                       *)
(* ensure_private_directory, ensure_configured_db_parent                   *)
EnsureDirectories ==
    /\ pc = "directories"
    /\ \E made \in SUBSET (Directories \ dirs) :
          /\ dirs' = dirs \cup made
          /\ tx' = [tx EXCEPT !.dirsCreated = made]
          /\ \/ made = Directories \ dirs /\ Goto("backup", 1) /\ Forward
             \/ \E sub \in BOOLEAN : UndoIn(sub)
    /\ UNCHANGED <<files, db, unit>>

NextFile == IF at < Len(InstallOrder) THEN Goto("backup", at + 1) ELSE Goto("sync", 0)

(* An equal file is left in place, and so is an operator's config.  A      *)
(* package is always replaced.                                             *)
KeepsFile(f) ==
    \/ f \in Configs /\ files[f] # "absent"
    \/ f \notin Packages /\ files[f] = "new"

(* Mutant of BackupFile: the destination is listed, its backup is not taken. *)
BackupFileSkipped ==
    /\ pc = "backup"
    /\ LET f == InstallOrder[at]
       IN  IF KeepsFile(f)
           THEN NextFile /\ UNCHANGED <<files, tx>>
           ELSE /\ Goto("replace", at)
                /\ tx' = [tx EXCEPT !.changed = Append(@, f)]
                /\ files' = IF f \in Packages THEN [files EXCEPT ![f] = "absent"] ELSE files
    /\ UNCHANGED <<dirs, db, unit>> /\ Forward

(* install_managed_file and install_*_package up to the entry in           *)
(* CHANGED_DESTINATIONS: a file is copied, a package moved away.           *)
BackupFile ==
    /\ pc = "backup"
    /\ LET f == InstallOrder[at]
       IN  IF KeepsFile(f)
           THEN NextFile /\ UNCHANGED <<files, tx>>
           ELSE /\ Goto("replace", at)
                /\ tx' = [tx EXCEPT !.changed = Append(@, f), !.backup[f] = files[f]]
                /\ files' = IF f \in Packages THEN [files EXCEPT ![f] = "absent"] ELSE files
    /\ UNCHANGED <<dirs, db, unit>> /\ Forward

(* The candidate is renamed to its destination. *)
ReplaceFile ==
    /\ pc = "replace"
    /\ LET f == InstallOrder[at]
       IN  /\ files' = [files EXCEPT ![f] = "new"]
           /\ tx' = [tx EXCEPT
                       !.filesChanged = [s \in Services |->
                                            \/ s = "monitor"
                                            \/ f \in WatchdogFiles
                                            \/ tx.filesChanged[s]],
                       !.unitChanged = (@ \/ f \in Units)]
    /\ NextFile
    /\ UNCHANGED <<dirs, db, unit>> /\ Forward

Sync ==
    /\ pc = "sync" /\ Goto("reload", 0)
    /\ UNCHANGED <<host, tx>> /\ Forward

(* Mutant of DaemonReload: it is left out. *)
NoDaemonReload ==
    /\ pc = "reload" /\ Goto("migrate", 1)
    /\ UNCHANGED <<host, tx>> /\ Forward

(* activate_collector: once for both units. *)
DaemonReload ==
    /\ pc = "reload" /\ Goto("migrate", 1)
    /\ unit' = IF tx.unitChanged THEN Reloaded ELSE unit
    /\ UNCHANGED <<files, dirs, db, tx>> /\ Forward

(* migrate_configured_database, migrate_watchdog_database: a missing       *)
(* database is noted before it is created, and a migration that fails may  *)
(* have been carried out.                                                  *)
Migrate ==
    /\ pc = "migrate"
    /\ LET s == Service[at]
       IN  /\ tx' = [tx EXCEPT !.dbCreated[s] = (db[s] = "absent")]
           /\ \/ db' = [db EXCEPT ![s] = "new"] /\ Goto("activate", at) /\ Forward
              \/ db' \in {db, [db EXCEPT ![s] = "new"]} /\ UndoIn(FALSE)
              \/ db[s] # "absent" /\ db' = db /\ UndoIn(TRUE)
    /\ UNCHANGED <<files, dirs, unit>>

NextService == IF at = 1 THEN Goto("migrate", 2) ELSE Goto("verify", 0)

(* A command that fails may have had its effect or none. *)
Command(s, u) ==
    /\ unit' = [unit EXCEPT ![s] = u]
    /\ UNCHANGED <<files, dirs, db>>

(* activate_collector: a service without a unit before is enabled and      *)
(* started, an active one is restarted when its files have changed.        *)
Activate ==
    /\ pc = "activate"
    /\ LET s == Service[at]
       IN  \/ /\ ~tx.prev[s].unit
              /\ tx' = [tx EXCEPT !.enableAttempted[s] = TRUE]
              /\ \/ Command(s, Enabled(unit[s])) /\ Goto("start", at) /\ Forward
                 \/ \E u \in {unit[s], Enabled(unit[s])} : Command(s, u) /\ UndoIn(FALSE)
           \/ /\ tx.prev[s].unit /\ tx.prev[s].active /\ tx.filesChanged[s]
              /\ \/ Command(s, Restarted(unit[s], s)) /\ NextService /\ Forward
                 \/ \E u \in {unit[s], Stopped(unit[s]), Restarted(unit[s], s)} :
                       Command(s, u) /\ UndoIn(FALSE)
              /\ UNCHANGED tx
           \/ /\ tx.prev[s].unit /\ ~(tx.prev[s].active /\ tx.filesChanged[s])
              /\ NextService /\ Forward /\ UNCHANGED <<host, tx>>

StartService ==
    /\ pc = "start"
    /\ LET s == Service[at]
       IN  /\ tx' = [tx EXCEPT !.startAttempted[s] = TRUE]
           /\ \/ Command(s, Started(unit[s], s)) /\ NextService /\ Forward
              \/ \E u \in {unit[s], Started(unit[s], s)} : Command(s, u) /\ UndoIn(FALSE)

(* verify_installed_runtime *)
VerifyInstalledRuntime ==
    /\ pc = "verify"
    /\ files["VERSION"] = "new"
    /\ \A f \in {"gost-manager", "gost-upstream-watchdog", "gost-watchdog-admin",
                 "watchdog.conf", "gost-upstream-watchdog.service"} : files[f] # "absent"
    /\ tx' = [tx EXCEPT !.committed = TRUE]
    /\ Goto("cleanup", 0)
    /\ UNCHANGED host /\ Forward

(* cleanup after the commit removes the backups.  When that fails the trap *)
(* runs, leaves the committed transaction alone and exits with an error.   *)
CleanUp ==
    /\ pc = "cleanup" /\ Goto("ended", 0)
    /\ \/ status' = 0 /\ tx' = [tx EXCEPT !.backup = FreshTx.backup]
       \/ status' = 1 /\ UNCHANGED tx
    /\ UNCHANGED <<host, subshell, failed, history>>

(* Any other command fails, in the script or inside $( ). *)
CommandFails ==
    /\ pc \in {"validate", "backup", "replace", "sync", "reload", "verify"}
    /\ \/ UndoIn(FALSE)
       \/ pc \in {"validate", "backup"} /\ UndoIn(TRUE)
    /\ UNCHANGED <<host, tx>>

(* A signal the script does not trap ends it where it is. *)
Killed ==
    /\ pc \notin {"idle", "ended", "killed"} /\ Goto("killed", 0)
    /\ UNCHANGED <<host, tx>> /\ Forward

-----------------------------------------------------------------------------
(* rollback_transaction.                                                   *)

Undoing == UNCHANGED <<subshell, failed, status, before, twice>>
Fault == faults < MaxFaults /\ faults' = faults + 1
NoFault == UNCHANGED faults

(* on_error: a verified rollback lets cleanup remove the backups; the      *)
(* other one keeps them and prints what to do.  After the trap of a        *)
(* subshell comes the trap of the script.                                  *)
EndUndo(verified) ==
    /\ tx' = IF verified THEN [tx EXCEPT !.backup = FreshTx.backup] ELSE tx
    /\ IF subshell
       THEN Undo /\ subshell' = FALSE /\ twice' = TRUE /\ UNCHANGED status
       ELSE /\ Goto("ended", 0) /\ status' = IF verified THEN 1 ELSE 70
            /\ UNCHANGED <<subshell, failed, twice>>
    /\ UNCHANGED before

(* prepare_service_rollback, prepare_watchdog_service_rollback: which      *)
(* services are stopped and disabled before their files are put back.      *)
PreparesStop(s) ==
    IF tx.prev[s].unit
    THEN tx.filesChanged[s] /\ tx.prev[s].active
    ELSE tx.startAttempted[s] \/ unit[s].active

PreparesDisable(s) == ~tx.prev[s].unit /\ (tx.enableAttempted[s] \/ unit[s].enabled)

(* The exit status of stop and disable is not looked at, the service is. *)
PrepareServiceRollback ==
    /\ pc = "prepare"
    /\ LET s == Service[at]
           stop == PreparesStop(s)
           disable == PreparesDisable(s)
           first == IF stop THEN Stopped(unit[s]) ELSE unit[s]
           second == IF disable THEN Disabled(first) ELSE first
       IN  \E u \in {second, first, unit[s], [unit[s] EXCEPT !.enabled = second.enabled]} :
              /\ IF u = second THEN NoFault ELSE Fault
              /\ Command(s, u)
              /\ IF (stop /\ u.active) \/ (~tx.prev[s].unit /\ (u.active \/ u.enabled))
                 THEN EndUndo(FALSE)
                 ELSE /\ IF at = 1 THEN Goto("prepare", 2) ELSE Goto("undo_file", Len(tx.changed))
                      /\ UNCHANGED tx /\ Undoing

(* Mutant of UndoneFile: a destination without a backup is left alone. *)
UndoneFileLeft(f) == IF tx.backup[f] # "absent" THEN tx.backup[f] ELSE files[f]

(* rollback_files: the destination is removed and the backup, if there is  *)
(* one, copied to it.                                                      *)
UndoneFile(f) == tx.backup[f]

(* Latest change first.  The loop goes on after an error: what could not   *)
(* be removed stays or is overwritten, what could not be copied is gone.   *)
RollbackFile ==
    /\ pc = "undo_file" /\ at > 0
    /\ LET f == tx.changed[at]
       IN  \/ /\ files' = [files EXCEPT ![f] = UndoneFile(f)]
              /\ NoFault /\ UNCHANGED failed
           \/ /\ \E c \in {files[f], tx.backup[f], "absent"} : files' = [files EXCEPT ![f] = c]
              /\ Fault /\ failed' = TRUE
    /\ Goto("undo_file", at - 1)
    /\ UNCHANGED <<dirs, db, unit, tx, subshell, status, before, twice>>

RollbackFilesDone ==
    /\ pc = "undo_file" /\ at = 0
    /\ \/ failed /\ EndUndo(FALSE)
       \/ ~failed /\ Goto("undo_database", 0) /\ UNCHANGED tx /\ Undoing
    /\ UNCHANGED host /\ NoFault

(* Mutant of CreatedDatabases: every database is removed. *)
AllDatabases == Services

CreatedDatabases == {s \in Services : tx.dbCreated[s]}

(* remove_created_database *)
RemoveCreatedDatabase ==
    /\ pc = "undo_database"
    /\ \E gone \in SUBSET CreatedDatabases :
          /\ db' = [s \in Services |-> IF s \in gone THEN "absent" ELSE db[s]]
          /\ \/ gone = CreatedDatabases /\ Goto("undo_directories", 0)
                /\ NoFault /\ UNCHANGED tx /\ Undoing
             \/ gone # CreatedDatabases /\ Fault /\ EndUndo(FALSE)
    /\ UNCHANGED <<files, dirs, unit>>

(* restore_metadata, remove_created_directories *)
RemoveCreatedDirectories ==
    /\ pc = "undo_directories"
    /\ \E gone \in SUBSET tx.dirsCreated :
          /\ dirs' = dirs \ gone
          /\ \/ /\ gone = tx.dirsCreated /\ NoFault
                /\ IF tx.recorded THEN Goto("undo_reload", 0) /\ UNCHANGED tx /\ Undoing
                                  ELSE EndUndo(TRUE)
             \/ Fault /\ EndUndo(FALSE)
    /\ UNCHANGED <<files, db, unit>>

UndoReload ==
    /\ pc = "undo_reload"
    /\ \/ unit' = Reloaded /\ Goto("restore", 1) /\ NoFault /\ UNCHANGED tx /\ Undoing
       \/ unit' = unit /\ Fault /\ EndUndo(FALSE)
    /\ UNCHANGED <<files, dirs, db>>

(* restore_recorded_service_state, restore_recorded_watchdog_state *)
RestoredUnit(s) ==
    LET first == IF tx.prev[s].enabled THEN Enabled(unit[s]) ELSE Disabled(unit[s])
    IN  IF tx.prev[s].active THEN Started(first, s) ELSE Stopped(first)

(* A fresh service must be gone, an old one loaded and as recorded. *)
VerifiedUnit(s, u) ==
    /\ (u.loaded # "absent") = tx.prev[s].unit
    /\ u.enabled = tx.prev[s].enabled
    /\ u.active = tx.prev[s].active

RestoreServiceState ==
    /\ pc = "restore"
    /\ LET s == Service[at]
           wanted == IF tx.prev[s].unit THEN RestoredUnit(s) ELSE unit[s]
       IN  \E u \in {wanted, [wanted EXCEPT !.enabled = unit[s].enabled],
                     [wanted EXCEPT !.active = unit[s].active, !.code = unit[s].code]} :
              /\ IF u = wanted THEN NoFault ELSE Fault
              /\ Command(s, u)
              /\ IF ~VerifiedUnit(s, u) THEN EndUndo(FALSE)
                 ELSE IF at = 1 THEN Goto("restore", 2) /\ UNCHANGED tx /\ Undoing
                 ELSE EndUndo(TRUE)

InstallStep ==
    \/ Validate \/ RecordServiceState \/ EnsureDirectories \/ BackupFile \/ ReplaceFile
    \/ Sync \/ DaemonReload \/ Migrate \/ Activate \/ StartService
    \/ VerifyInstalledRuntime \/ CleanUp \/ CommandFails

UndoStep ==
    \/ PrepareServiceRollback \/ RollbackFile \/ RollbackFilesDone \/ RemoveCreatedDatabase
    \/ RemoveCreatedDirectories \/ UndoReload \/ RestoreServiceState

-----------------------------------------------------------------------------
(* Properties.                                                             *)

InstallerTypeOK ==
    /\ files \in [Files -> Contents] /\ dirs \subseteq Directories
    /\ db \in [Services -> Contents] /\ unit \in [Services -> UnitStates]
    /\ pc \in {"idle", "validate", "record", "directories", "backup", "replace", "sync",
               "reload", "migrate", "activate", "start", "verify", "cleanup", "prepare",
               "undo_file", "undo_database", "undo_directories", "undo_reload", "restore",
               "ended", "killed"}
    /\ at \in 0..Len(InstallOrder)
    /\ tx \in TxStates /\ subshell \in BOOLEAN /\ failed \in BOOLEAN /\ twice \in BOOLEAN
    /\ status \in Statuses /\ faults \in 0..MaxFaults

(* The host is as it was: files, directories and services, the processes   *)
(* included, and no database that was not there.                           *)
Restored ==
    /\ files = before.files /\ dirs = before.dirs /\ unit = before.unit
    /\ \A s \in Services : before.db[s] = "absent" => db[s] = "absent"

(* Exit status 1 before the commit says "rolled back": the host is then as *)
(* it was, wherever the installation failed (rollback_transaction), unless *)
(* the failure was inside $( ) and the transaction was undone twice.       *)
UndoneOnceMeansRestored == status = 1 /\ ~tx.committed /\ ~twice => Restored

(* Until the commit every old file is in place or in its backup, whenever  *)
(* the installer fails or is killed and however the undoing goes           *)
(* (install_managed_file, rollback_files, cleanup).                        *)
OldFileRecoverable ==
    ~tx.committed /\ ~twice =>
        \A f \in Files : before.files[f] \in {files[f], tx.backup[f], "absent"}

(* The installer asks for manual recovery (70) only after a command of the *)
(* undoing has failed, or it undoes what is already undone (on_error,      *)
(* rollback_transaction).                                                  *)
GivesUpForAReason == status = 70 => faults > 0 \/ twice

(* A database that was there is never removed (remove_created_database). *)
HistoryKept == \A s \in Services : before.db[s] # "absent" => db[s] # "absent"

(* A process is started only from a complete runtime of one release, all   *)
(* new or all old, under the unit that is on disk (activate_collector,     *)
(* rollback_transaction).                                                  *)
StartsConsistent ==
    [][~twice => \A s \in Services :
          unit'[s].active /\ unit'[s].code # unit[s].code =>
              /\ \/ \A f \in RuntimeOf(s) : files'[f] = "new"
                 \/ \A f \in RuntimeOf(s) : files'[f] = before.files[f]
              /\ unit'[s].loaded = files'[UnitFile(s)]]_installerVars

============================================================================
