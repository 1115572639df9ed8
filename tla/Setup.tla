-------------------------------- MODULE Setup -------------------------------
(***************************************************************************)
(* setup.sh: the verified release becomes the source tree in               *)
(* /opt/GOST-Manager, the installer of that tree replaces the runtime      *)
(* (module Installer), and an EXIT trap undoes the exchange of the source  *)
(* tree when setup ends with an error before its commit.                   *)
(*                                                                         *)
(* INT and TERM are trapped: bash runs the trap between two commands, also *)
(* between the rename of a tree and the flag that records it, and, when    *)
(* the installer runs, only after it has ended.  A signal that reaches the *)
(* installer too ends it (Killed).                                         *)
(***************************************************************************)
EXTENDS Installer

VARIABLES
    step,       \* the next commands of setup.sh
    source,     \* the tree in /opt/GOST-Manager
    kept,       \* the tree in BACKUP_DIR
    candidate,  \* CANDIDATE_DIR exists
    flags,      \* the flags of the script that are 1
    exit,       \* exit status of setup: "none", "ok" or "error"
    sourceWas,  \* history: the tree before
    cut         \* history: the step at which a signal arrived

setupVars == <<step, source, kept, candidate, flags, exit, sourceWas, cut>>
vars == <<installerVars, setupVars>>

Steps == {"release", "backup", "note_backup", "activate", "note_active", "install",
          "result", "align", "drop", "trap", "remove", "move", "sweep", "done"}
Flags == {"PRIOR_SOURCE_BACKED_UP", "NEW_SOURCE_ACTIVATED", "LOCAL_INSTALL_SUCCEEDED",
          "LOCAL_INSTALL_ROLLBACK_UNVERIFIED", "SETUP_COMMITTED"}

Init ==
    /\ InstallerInit
    /\ step = "release" /\ source \in {"absent", "old"} /\ sourceWas = source
    /\ kept = "absent" /\ candidate = FALSE /\ flags = {}
    /\ exit = "none" /\ cut = "none"

InstallerIdle == UNCHANGED installerVars

Continue(next) == step' = next /\ UNCHANGED <<exit, sourceWas, cut>>
Raise(flag) == flags' = flags \cup {flag}

(* Download, checksum, archive checks, prepare_source_tree. *)
PrepareSourceTree ==
    /\ step = "release" /\ candidate' = TRUE
    /\ Continue("backup") /\ InstallerIdle /\ UNCHANGED <<source, kept, flags>>

(* activate_source_tree: the prior tree is renamed, then noted ... *)
BackUpSource ==
    /\ step = "backup"
    /\ IF source = "absent"
       THEN Continue("activate") /\ UNCHANGED <<source, kept>>
       ELSE Continue("note_backup") /\ kept' = source /\ source' = "absent"
    /\ InstallerIdle /\ UNCHANGED <<candidate, flags>>

NoteBackup ==
    /\ step = "note_backup" /\ Raise("PRIOR_SOURCE_BACKED_UP")
    /\ Continue("activate") /\ InstallerIdle /\ UNCHANGED <<source, kept, candidate>>

(* ... and so is the candidate. *)
ActivateSource ==
    /\ step = "activate" /\ source' = "new" /\ candidate' = FALSE
    /\ Continue("note_active") /\ InstallerIdle /\ UNCHANGED <<kept, flags>>

NoteActive ==
    /\ step = "note_active" /\ Raise("NEW_SOURCE_ACTIVATED")
    /\ Continue("install") /\ Begin /\ UNCHANGED <<source, kept, candidate>>

(* run_local_installer waits for the installer ... *)
RunLocalInstaller ==
    /\ step = "install"
    /\ \/ InstallStep
       \/ UndoStep
    /\ step' = IF pc' = "ended" THEN "result" ELSE step
    /\ UNCHANGED <<source, kept, candidate, flags, exit, sourceWas, cut>>

(* ... and notes how it ended. *)
InstallerResult ==
    /\ step = "result"
    /\ IF status = 0
       THEN Raise("LOCAL_INSTALL_SUCCEEDED") /\ Continue("align")
       ELSE /\ IF status = 70 THEN Raise("LOCAL_INSTALL_ROLLBACK_UNVERIFIED") ELSE UNCHANGED flags
            /\ Continue("trap")
    /\ InstallerIdle /\ UNCHANGED <<source, kept, candidate>>

(* verify_runtime_source_alignment, SETUP_COMMITTED=1 *)
VerifyAlignment ==
    /\ step = "align" /\ source = "new" /\ files["VERSION"] = "new"
    /\ files["gost-manager"] # "absent"
    /\ Raise("SETUP_COMMITTED") /\ Continue("drop")
    /\ InstallerIdle /\ UNCHANGED <<source, kept, candidate>>

(* cleanup_prior_source_backup; the launch of the manager is left out. *)
DropPriorBackup ==
    /\ step = "drop"
    /\ kept' = "absent" /\ flags' = flags \ {"PRIOR_SOURCE_BACKED_UP"}
    /\ step' = "done" /\ exit' = "ok"
    /\ InstallerIdle /\ UNCHANGED <<source, candidate, sourceWas, cut>>

(* A command fails: set -e, and the EXIT trap. *)
SetupFails ==
    /\ step \in {"release", "backup", "activate", "align", "drop"}
    /\ Continue("trap") /\ InstallerIdle /\ UNCHANGED <<source, kept, candidate, flags>>

(* INT or TERM: exit 130 or 143, and the EXIT trap. *)
Interrupt ==
    /\ step \in {"release", "backup", "note_backup", "activate", "note_active", "result",
                 "align", "drop"}
    /\ step' = "trap" /\ cut' = step
    /\ InstallerIdle /\ UNCHANGED <<source, kept, candidate, flags, exit, sourceWas>>

(* The installer is ended by a signal: its status is neither 0 nor 70. *)
InstallerKilled ==
    /\ step = "install" /\ Killed
    /\ Continue("trap") /\ UNCHANGED <<source, kept, candidate, flags>>

-----------------------------------------------------------------------------
(* cleanup, the EXIT trap.                                                 *)

(* Mutant of RollsSourceBack: whatever the installer did. *)
AlwaysRollsSourceBack == "SETUP_COMMITTED" \notin flags

(* The source is rolled back unless the installer succeeded or could not   *)
(* verify its own rollback.                                                *)
RollsSourceBack ==
    flags \cap {"SETUP_COMMITTED", "LOCAL_INSTALL_ROLLBACK_UNVERIFIED",
                "LOCAL_INSTALL_SUCCEEDED"} = {}

Trap ==
    /\ step = "trap"
    /\ Continue(IF RollsSourceBack THEN "remove" ELSE "sweep")
    /\ InstallerIdle /\ UNCHANGED <<source, kept, candidate, flags>>

(* rollback_source_tree: the new tree is removed ... *)
RemoveNewSource ==
    /\ step = "remove"
    /\ \/ /\ "NEW_SOURCE_ACTIVATED" \in flags
          /\ source' = "absent" /\ flags' = flags \ {"NEW_SOURCE_ACTIVATED"}
          /\ Continue("move")
       \/ /\ "NEW_SOURCE_ACTIVATED" \notin flags
          /\ UNCHANGED <<source, flags>> /\ Continue("move")
       \/ /\ "NEW_SOURCE_ACTIVATED" \in flags               \* rm fails
          /\ UNCHANGED <<source, flags>> /\ Continue("sweep")
    /\ InstallerIdle /\ UNCHANGED <<kept, candidate>>

(* ... and the prior one renamed to its place. *)
RestorePriorSource ==
    /\ step = "move"
    /\ \/ /\ "PRIOR_SOURCE_BACKED_UP" \in flags /\ source = "absent"
          /\ source' = kept /\ kept' = "absent" /\ flags' = flags \ {"PRIOR_SOURCE_BACKED_UP"}
       \/ UNCHANGED <<source, kept, flags>>                 \* nothing to do, or it fails
    /\ Continue("sweep") /\ InstallerIdle /\ UNCHANGED candidate

(* Mutant of SweepsBackup: the backup is removed whatever the flag says. *)
SweepsAnyBackup == TRUE

(* A backup the script does not take for the prior tree is removed. *)
SweepsBackup == "PRIOR_SOURCE_BACKED_UP" \notin flags

Sweep ==
    /\ step = "sweep"
    /\ candidate' = FALSE
    /\ kept' = IF SweepsBackup THEN "absent" ELSE kept
    /\ step' = "done" /\ exit' = "error"
    /\ InstallerIdle /\ UNCHANGED <<source, flags, sourceWas, cut>>

Done == step = "done" /\ UNCHANGED vars

Next ==
    \/ PrepareSourceTree \/ BackUpSource \/ NoteBackup \/ ActivateSource \/ NoteActive
    \/ RunLocalInstaller \/ InstallerResult \/ VerifyAlignment \/ DropPriorBackup
    \/ SetupFails \/ Interrupt \/ InstallerKilled
    \/ Trap \/ RemoveNewSource \/ RestorePriorSource \/ Sweep \/ Done

Spec == Init /\ [][Next]_vars

-----------------------------------------------------------------------------
(* Properties.                                                             *)

(* The type of the state of both scripts. *)
TypeOK ==
    /\ InstallerTypeOK
    /\ step \in Steps /\ flags \subseteq Flags /\ candidate \in BOOLEAN
    /\ source \in Contents /\ kept \in Contents
    /\ exit \in {"none", "ok", "error"} /\ cut \in Steps \cup {"none"}

(* What the installer's exit status says is so: everything is as it was,   *)
(* or a manual recovery is really needed (on_error, rollback_transaction). *)
InstallReportTrue == TypeOK /\ UndoneOnceMeansRestored /\ GivesUpForAReason

(* Until setup commits, the prior source tree is in place or in the backup *)
(* (activate_source_tree, rollback_source_tree, cleanup), unless a signal  *)
(* fell between its rename and the flag.                                   *)
SourceRecoverable ==
    "SETUP_COMMITTED" \notin flags /\ cut # "note_backup" =>
        sourceWas \in {source, kept, "absent"}

(* Nothing of the runtime is left replaced. *)
RuntimeAsBefore == \A f \in Files : files[f] = before.files[f]

(* cleanup keeps source and runtime aligned: setup that succeeds leaves    *)
(* both new, and when it leaves another tree the runtime is the one found, *)
(* unless a signal met the installer or its result, the cleanup of a       *)
(* committed installer failed, or it undid its transaction twice.          *)
AlignedUnlessCut ==
    step = "done" =>
        /\ exit = "ok" => source = "new" /\ tx.committed /\ status = 0 /\ kept = "absent"
        /\ source # "new" /\ pc # "killed" /\ cut # "result" /\ ~tx.committed /\ ~twice
              => RuntimeAsBefore

============================================================================
