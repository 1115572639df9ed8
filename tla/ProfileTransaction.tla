-------------------------- MODULE ProfileTransaction ------------------------
(***************************************************************************)
(* Create (or clone), edit, delete and cleanup of one tunnel profile by    *)
(* gost-manager.sh: its env file, its unit, its firewall rules and its     *)
(* service, with the snapshots from which a failed operation is undone.    *)
(*                                                                         *)
(* There is one action for every helper that changes something; each may   *)
(* fail, and the manager may be killed between any two, so that what must  *)
(* hold after a crash is an invariant.  Of the firewall only the outcome   *)
(* of a whole process is here (module Firewall has the commands): rules    *)
(* says whose rules are in the chain, and a failed process leaves one of   *)
(* the chains that module allows.                                          *)
(***************************************************************************)
EXTENDS FiniteSets

VARIABLES
    op,         \* what the operator asked for
    pc,         \* the next helper of the manager
    env,        \* the env file: "none", "old" or "new" content
    unit,       \* is the unit file there?
    rules,      \* the managed rules in the chain
    svc,        \* the service: active, enabled, the content it runs with
    captured,   \* capture_service_state: what the service was
    snaps,      \* snapshot files on disk
    failed,     \* the undoing has failed somewhere
    outcome,    \* what the manager reports in the end
    was,        \* history: the profile before
    faulty,     \* history: a command failed while undoing
    meddled     \* history: what somebody else did to the service

profile == <<env, unit, rules, svc>>
vars == <<op, pc, profile, captured, snaps, failed, outcome, was, faulty, meddled>>

Activity == {"active", "inactive", "failed", "activating"}
Content == {"none", "old", "new"}

(* "old+" and "new+": the whole set, with a part of the other one.  A      *)
(* direct mutation that fails leaves any part: "lost".                     *)
Chains == {"old", "old+", "both", "new+", "new", "none", "lost"}

AllSnaps == {"env", "unit", "fw", "svc"}

Services == [active : Activity, enabled : BOOLEAN, runs : Content]
NoService == [active |-> "inactive", enabled |-> FALSE, runs |-> "none"]

(* The service of an existing profile runs with its env, if it runs.  One  *)
(* without a unit file does not run.                                       *)
ExistingServices ==
    IF unit THEN {s \in Services : s.runs = IF s.active = "active" THEN "old" ELSE "none"}
    ELSE {NoService}

(* What capture_service_state prints: ActiveState and UnitFileState. *)
UnitStates == {"enabled", "disabled", "none"}

UnitFileState(s) == IF ~unit THEN "none" ELSE IF s.enabled THEN "enabled" ELSE "disabled"
Shown(s) == [active |-> s.active, unitState |-> UnitFileState(s)]
Unread == [active |-> "inactive", unitState |-> "none"]

Operations ==
    [kind : {"create", "edit", "delete", "clean"}, kharej : BOOLEAN,
     oldFw : BOOLEAN, newFw : BOOLEAN,              \* FIREWALL_ENABLED
     port : BOOLEAN, sources : BOOLEAN,             \* changed?
     runtime : BOOLEAN,                             \* credentials or mappings changed?
     start : BOOLEAN]                               \* start a created profile?

(* What the menus can ask for: an Iran profile has no firewall, and the    *)
(* local ports of its mappings count as runtime.                           *)
Sensible(o) ==
    /\ ~o.kharej => ~o.oldFw /\ ~o.newFw /\ ~o.port /\ ~o.sources
    /\ o.kind # "edit" => ~o.port /\ ~o.sources /\ ~o.runtime
    /\ o.kind = "create" => ~o.oldFw
    /\ o.kind # "create" => ~o.start
    /\ o.kind \in {"delete", "clean"} => ~o.newFw

(* firewall_rules_changed, protected_port_migration, needs_runtime_restart *)
RulesChanged == op.kharej /\ (op.sources \/ op.oldFw # op.newFw \/ (op.port /\ (op.oldFw \/ op.newFw)))
Migration == op.kharej /\ op.port /\ (op.oldFw \/ op.newFw)
NeedsRestart == op.runtime \/ op.port

Init ==
    /\ op \in {o \in Operations : Sensible(o)}
    /\ pc = IF op.kind = "clean" THEN "collect" ELSE "snapshot"
    /\ CASE op.kind = "create" -> env = "none" /\ unit = FALSE /\ svc = NoService
         [] op.kind = "edit" -> env = "old" /\ unit = TRUE /\ svc \in ExistingServices
         [] OTHER -> /\ env \in {"old", "none"} /\ unit \in BOOLEAN /\ (env = "old" \/ unit)
                     /\ svc \in ExistingServices
    /\ rules = "old"
    /\ captured = Unread /\ snaps = {} /\ failed = FALSE /\ outcome = "none"
    /\ was = [env |-> env, unit |-> unit, svc |-> svc]
    /\ faulty = FALSE /\ meddled = "no"

-----------------------------------------------------------------------------
(* Steps.                                                                  *)

Goto(label) == pc' = label /\ UNCHANGED <<op, was, outcome, snaps>>

(* The manager reports and returns; kept are the snapshots it leaves. *)
Finish(report, kept) ==
    /\ pc' = "done" /\ outcome' = report /\ snaps' = snaps \cap kept
    /\ UNCHANGED <<op, was>>

Fault == faulty' = TRUE
NoFault == UNCHANGED faulty

(* systemctl: a success has its effect; a failure may have had it.  A      *)
(* started process may be gone again at once; without its env file it does *)
(* not come up.                                                            *)
Started(s) ==
    IF s.active = "active" THEN s
    ELSE [s EXCEPT !.active = IF env = "none" THEN "activating" ELSE "active", !.runs = env]
Restarted(s) == [s EXCEPT !.active = "active", !.runs = env]
Gone(s) == [s EXCEPT !.active = "activating", !.runs = "none"]
Stopped(s) == [s EXCEPT !.active = IF s.active = "failed" THEN "failed" ELSE "inactive", !.runs = "none"]
Disabled(s) == [s EXCEPT !.enabled = FALSE]
Enabled(s) == [s EXCEPT !.enabled = TRUE]

(* verify_service_state_matches *)
Matches(s) == Shown(s) = captured

(* service_is_inactive_disabled *)
InactiveDisabled(s) == Shown(s) = [active |-> "inactive", unitState |-> "disabled"]

(* restore_service_state goes through enable or disable, then start or     *)
(* stop, whatever these return; a state that is neither active nor         *)
(* inactive is not restored.                                               *)
ServiceRestored ==
    LET first == CASE captured.unitState = "enabled" -> Enabled(svc)
                   [] captured.unitState = "disabled" -> Disabled(svc)
                   [] OTHER -> svc
    IN  CASE captured.active = "active" -> Started(first)
          [] captured.active = "inactive" -> Stopped(first)
          [] OTHER -> first

(* The service after its restoration, and whether that was proved: the     *)
(* commands may fail, the state may not be readable, the listener of an    *)
(* active service may not come up.                                         *)
RestoreService(proved) ==
    \/ /\ svc' = ServiceRestored /\ NoFault
       /\ proved = (Matches(svc') /\ captured.active \in {"active", "inactive"})
    \/ /\ svc' \in {svc, ServiceRestored, Gone(ServiceRestored)} /\ Fault
       /\ proved = FALSE

-----------------------------------------------------------------------------
(* Before anything is changed.                                             *)

(* What each operation copies first.  A create has nothing to copy but the *)
(* rules.                                                                  *)
Copies ==
    CASE op.kind = "create" -> {"fw", "svc"}
      [] op.kind = "edit" -> {"env", "fw", "svc"}
      [] OTHER -> {"fw", "svc"} \cup (IF env = "old" THEN {"env"} ELSE {})
                                \cup (IF unit THEN {"unit"} ELSE {})

(* All snapshots, or none of them and no change.  The service state is     *)
(* captured when the operation may touch the service.                      *)
Snapshot ==
    /\ pc = "snapshot"
    /\ \/ /\ snaps' = Copies
          /\ captured' = IF op.kind = "delete" \/ (op.kind = "edit" /\ NeedsRestart)
                         THEN Shown(svc) ELSE captured
          /\ pc' = CASE op.kind = "delete" -> "stop"
                     [] op.kind = "edit" /\ RulesChanged /\ op.newFw -> "prepare"
                     [] OTHER -> "write"
          /\ UNCHANGED <<op, was, outcome>>
       \/ Finish("unchanged", {}) /\ UNCHANGED captured
    /\ UNCHANGED <<profile, failed, faulty>>

(* write_loaded_profile_env replaces the file by renaming.                 *)
WriteEnv ==
    /\ pc = "write"
    /\ \/ /\ env' = "new"
          /\ Goto(CASE op.kind = "create" -> "unit"
                    [] Migration -> "migrate"
                    [] RulesChanged -> "apply"
                    [] OTHER -> "restart")
       \/ /\ UNCHANGED env
          /\ CASE op.kind = "create" -> Goto("undo_rules")
               [] RulesChanged -> Goto("light_env")
               [] OTHER -> Finish("unchanged", {})
    /\ UNCHANGED <<unit, rules, svc, captured, failed, faulty>>

-----------------------------------------------------------------------------
(* edit_profile                                                            *)

(* Mutant of Prepare: the old rules are removed at once. *)
PrepareInPlace ==
    /\ pc = "prepare"
    /\ \/ rules' = "new" /\ NoFault /\ Goto("write")
       \/ UNCHANGED rules /\ Fault /\ Finish("unchanged", {})
       \/ rules' = "old+" /\ Fault /\ Finish("retained", {"fw"})
    /\ UNCHANGED <<env, unit, svc, captured, failed>>

(* Mutant of Prepare: every failure removes the snapshot. *)
PrepareForgets ==
    /\ pc = "prepare"
    /\ \/ rules' = "both" /\ NoFault /\ Goto("write")
       \/ UNCHANGED rules /\ Fault /\ Finish("unchanged", {})
       \/ rules' = "old+" /\ Fault /\ Finish("retained", {})
    /\ UNCHANGED <<env, unit, svc, captured, failed>>

(* prepare_kharej_firewall_transition: 0, 1 (nothing changed) or 2. *)
Prepare ==
    /\ pc = "prepare"
    /\ \/ rules' = "both" /\ NoFault /\ Goto("write")
       \/ UNCHANGED rules /\ Fault /\ Finish("unchanged", {})
       \/ rules' = "old+" /\ Fault /\ Finish("retained", {"fw"})
    /\ UNCHANGED <<env, unit, svc, captured, failed>>

(* A protected port migration restarts an active service on the new port   *)
(* while both sets of rules are there.                                     *)
Migrate ==
    /\ pc = "migrate"
    /\ CASE captured.active = "active" ->
              \/ svc' = Restarted(svc) /\ Goto("apply")
              \/ svc' \in {svc, Restarted(svc), Gone(svc)} /\ Goto("full_env")
         [] captured.active = "inactive" ->
              \/ Matches(svc) /\ Goto("apply") /\ UNCHANGED svc
              \/ Goto("full_env") /\ UNCHANGED svc
         [] OTHER -> Goto("full_env") /\ UNCHANGED svc
    /\ UNCHANGED <<env, unit, rules, captured, failed, faulty>>

(* finalize_kharej_firewall_transition, or delete_kharej_firewall_rules.   *)
(* A finished migration ends the edit.                                     *)
Apply ==
    /\ pc = "apply"
    /\ \/ /\ rules' = "new"
          /\ IF Migration THEN Finish("ok", {}) ELSE Goto("restart")
       \/ /\ rules' \in (IF op.newFw THEN {"both", "new+"} ELSE {"old", "lost"})
          /\ Goto(IF Migration THEN "full_env" ELSE "light_env")
    /\ UNCHANGED <<env, unit, svc, captured, failed, faulty>>

(* The restart the other edits ask for, if they need one at all. *)
Restart ==
    /\ pc = "restart"
    /\ \/ /\ Finish("ok", {}) /\ UNCHANGED svc     \* not needed, or declined
       \/ /\ NeedsRestart /\ svc' = Restarted(svc) /\ Finish("ok", {})
       \/ /\ NeedsRestart /\ svc' \in {svc, Restarted(svc), Gone(svc)}
          /\ Goto("full_env")
    /\ UNCHANGED <<env, unit, rules, captured, failed, faulty>>

(* restore_managed_snapshot; the content is compared afterwards. *)
RestoreEnv(next) ==
    /\ \/ env' = "old" /\ NoFault /\ UNCHANGED failed
       \/ env' \in {env, "old"} /\ Fault /\ failed' = TRUE
    /\ Goto(next)
    /\ UNCHANGED <<unit, rules, svc, captured>>

(* rollback_kharej_firewall_transition, or restore_kharej_firewall_rules:  *)
(* the rules afterwards, and whether the old ones are back.                *)
RestoreRules(back) ==
    \/ rules' = "old" /\ NoFault /\ back = TRUE
    \/ /\ rules' \in (IF op.kind = "edit" /\ op.newFw THEN {"new+", "old+"} ELSE {rules, "old", "lost"})
       /\ Fault /\ back = FALSE

(* rollback_kharej_firewall_edit: the service was not touched. *)
LightEnv == pc = "light_env" /\ RestoreEnv("light_rules")

(* Mutant of LightRules: the env file is taken for restored. *)
LightRulesOnly ==
    /\ pc = "light_rules"
    /\ \E back \in BOOLEAN :
          /\ RestoreRules(back)
          /\ IF back THEN Finish("restored", {}) ELSE Finish("retained", {"env", "fw"})
    /\ UNCHANGED <<env, unit, svc, captured, failed>>

LightRules ==
    /\ pc = "light_rules"
    /\ \E back \in BOOLEAN :
          /\ RestoreRules(back)
          /\ IF back /\ ~failed THEN Finish("restored", {}) ELSE Finish("retained", {"env", "fw"})
    /\ UNCHANGED <<env, unit, svc, captured, failed>>

(* rollback_protected_kharej_edit, and the undoing of a failed restart:    *)
(* the service is stopped before the rules are touched, and started again  *)
(* only after env and rules are back.                                      *)
FullEnv == pc = "full_env" /\ RestoreEnv("full_stop")

(* stop_service_verified *)
FullStop ==
    /\ pc = "full_stop"
    /\ \/ /\ svc' = Stopped(svc) /\ NoFault
          /\ IF svc'.active = "inactive"
             THEN Goto(IF RulesChanged THEN "full_rules" ELSE "full_service")
             ELSE Finish("retained", AllSnaps)
       \/ /\ svc' \in {svc, Stopped(svc)} /\ Fault /\ Finish("retained", AllSnaps)
    /\ UNCHANGED <<env, unit, rules, captured, failed>>

FullRules ==
    /\ pc = "full_rules"
    /\ \E back \in BOOLEAN :
          RestoreRules(back) /\ failed' = (failed \/ ~back)
    /\ Goto("full_service")
    /\ UNCHANGED <<env, unit, svc, captured>>

FullService ==
    /\ pc = "full_service"
    /\ IF failed
       THEN Finish("retained", AllSnaps) /\ NoFault /\ UNCHANGED svc
       ELSE \E proved \in BOOLEAN :
              /\ RestoreService(proved)
              /\ IF proved THEN Finish("restored", {}) ELSE Finish("retained", AllSnaps)
    /\ UNCHANGED <<env, unit, rules, captured, failed>>

-----------------------------------------------------------------------------
(* delete_tunnel                                                           *)

(* Mutant of Stop: the result is not verified. *)
StopUnverified ==
    /\ pc = "stop"
    /\ \/ svc' = Stopped(Disabled(svc))
       \/ svc' \in {svc, Disabled(svc), Stopped(svc)}
    /\ Goto(IF op.kharej THEN "remove_rules" ELSE "remove_files")
    /\ UNCHANGED <<env, unit, rules, captured, failed, faulty>>

(* disable --now, then inactive and disabled must be seen. *)
Stop ==
    /\ pc = "stop"
    /\ \/ /\ svc' = Stopped(Disabled(svc))
          /\ Goto(IF ~InactiveDisabled(svc') THEN "put_back_service"
                  ELSE IF op.kharej THEN "remove_rules" ELSE "remove_files")
       \/ /\ svc' \in {svc, Disabled(svc), Stopped(svc), Stopped(Disabled(svc))}
          /\ Goto("put_back_service")
    /\ UNCHANGED <<env, unit, rules, captured, failed, faulty>>

(* delete_kharej_firewall_rules *)
RemoveRules ==
    /\ pc = "remove_rules"
    /\ \/ rules' = "none" /\ Goto("remove_files")
       \/ rules' \in {"old", "lost"} /\ Goto("put_back_rules")
    /\ UNCHANGED <<env, unit, svc, captured, failed, faulty>>

(* Both files, then daemon-reload; any of the three may fail. *)
RemoveFiles ==
    /\ pc = "remove_files"
    /\ \/ env' = "none" /\ unit' = FALSE /\ Finish("ok", {})
       \/ env' \in {env, "none"} /\ unit' \in {unit, FALSE} /\ Goto("put_back_files")
    /\ UNCHANGED <<rules, svc, captured, failed, faulty>>

(* The snapshots that exist are put back. *)
PutBackFiles ==
    /\ pc = "put_back_files"
    /\ LET envBack == IF "env" \in snaps THEN "old" ELSE env
           unitBack == unit \/ "unit" \in snaps
       IN  \/ env' = envBack /\ unit' = unitBack /\ NoFault /\ UNCHANGED failed
           \/ env' \in {env, envBack} /\ unit' \in {unit, unitBack} /\ Fault /\ failed' = TRUE
    /\ Goto(IF op.kharej THEN "put_back_rules" ELSE "put_back_iran")
    /\ UNCHANGED <<rules, svc, captured>>

PutBackRules ==
    /\ pc = "put_back_rules"
    /\ \E back \in BOOLEAN : RestoreRules(back) /\ failed' = (failed \/ ~back)
    /\ Goto("put_back_service")
    /\ UNCHANGED <<env, unit, svc, captured>>

(* daemon-reload and the service, in any case.  An Iran profile has no     *)
(* firewall snapshot worth keeping once its files were touched.            *)
PutBackService ==
    /\ pc \in {"put_back_service", "put_back_iran"}
    /\ \E proved \in BOOLEAN :
          /\ RestoreService(proved)
          /\ IF proved /\ ~failed THEN Finish("restored", {})
             ELSE Finish("retained", IF pc = "put_back_iran" THEN AllSnaps \ {"fw"} ELSE AllSnaps)
    /\ UNCHANGED <<env, unit, rules, captured, failed>>

-----------------------------------------------------------------------------
(* install_new_profile_from_loaded                                         *)

WriteUnit ==
    /\ pc = "unit"
    /\ \/ unit' = TRUE /\ Goto(IF op.newFw THEN "add_rules" ELSE "reload")
       \/ UNCHANGED unit /\ Goto("undo_rules")
    /\ UNCHANGED <<env, rules, svc, captured, failed, faulty>>

(* add_kharej_firewall_rules *)
AddRules ==
    /\ pc = "add_rules"
    /\ \/ rules' = "new" /\ Goto("reload")
       \/ rules' \in {"old", "lost"} /\ Goto("undo_rules")
    /\ UNCHANGED <<env, unit, svc, captured, failed, faulty>>

(* daemon-reload, then the state of the service before its activation. *)
Reload ==
    /\ pc = "reload"
    /\ \/ ~op.start /\ Finish("ok", {}) /\ UNCHANGED captured
       \/ op.start /\ Goto("activate") /\ captured' = Shown(svc)
       \/ Goto("undo_rules") /\ UNCHANGED captured
    /\ UNCHANGED <<profile, failed, faulty>>

(* enable --now, then the listener must come up. *)
Activate ==
    /\ pc = "activate"
    /\ \/ svc' = Started(Enabled(svc)) /\ Finish("ok", {})
       \/ /\ svc' \in {svc, Enabled(svc), Started(Enabled(svc)), Gone(Enabled(svc))}
          /\ Goto("undo_activation")
    /\ UNCHANGED <<env, unit, rules, captured, failed, faulty>>

(* stop_disable_service_verified and verify_service_state_matches.         *)
UndoActivation ==
    /\ pc = "undo_activation"
    /\ \/ /\ svc' = Stopped(Disabled(svc)) /\ NoFault
          /\ IF InactiveDisabled(svc') /\ Matches(svc')
             THEN Goto("undo_rules") ELSE Finish("retained", AllSnaps)
       \/ /\ svc' \in {svc, Disabled(svc), Stopped(svc), Stopped(Disabled(svc))} /\ Fault
          /\ Finish("retained", AllSnaps)
    /\ UNCHANGED <<env, unit, rules, captured, failed>>

(* A Kharej profile's rules, before its files. *)
UndoRules ==
    /\ pc = "undo_rules"
    /\ IF ~op.kharej
       THEN Goto("undo_files") /\ NoFault /\ UNCHANGED rules
       ELSE \E back \in BOOLEAN :
              /\ RestoreRules(back)
              /\ IF back THEN Goto("undo_files") ELSE Finish("retained", {"fw"})
    /\ UNCHANGED <<env, unit, svc, captured, failed>>

(* The new files and a daemon-reload; what cannot be removed is reported.  *)
UndoFiles ==
    /\ pc = "undo_files"
    /\ \/ env' = "none" /\ unit' = FALSE /\ NoFault /\ Finish("restored", {})
       \/ env' \in {env, "none"} /\ unit' \in {unit, FALSE} /\ Fault /\ Finish("cleanup", {})
    /\ UNCHANGED <<rules, svc, captured, failed>>

-----------------------------------------------------------------------------
(* clean_old_broken_configs                                                *)

(* disabled-orphan-service *)
Orphan == ~svc.enabled /\ svc.active # "active"

(* collect_cleanup_candidates lists what is broken, then the operator is   *)
(* asked; nothing is looked at again.                                      *)
Collect ==
    /\ pc = "collect"
    /\ \/ unit /\ (env = "none" \/ svc.active = "failed" \/ Orphan) /\ Goto("clean_unit")
       \/ ~unit /\ Goto("clean_env")
       \/ Finish("unchanged", {})
    /\ UNCHANGED <<profile, captured, failed, faulty>>

(* The unit and the env file; an rm that fails ends the manager. *)
CleanFile ==
    /\ \/ pc = "clean_unit" /\ unit' = FALSE /\ UNCHANGED env /\ Goto("clean_env")
       \/ pc = "clean_env" /\ env' = "none" /\ UNCHANGED unit /\ Goto("clean_reload")
       \/ /\ pc \in {"clean_unit", "clean_env"}
          /\ UNCHANGED <<env, unit>> /\ Finish("aborted", {})
    /\ UNCHANGED <<rules, svc, captured, failed, faulty>>

(* daemon-reload and reset-failed; one that fails ends the manager. *)
CleanReload ==
    /\ pc = "clean_reload"
    /\ \/ /\ svc' = IF svc.active = "failed" THEN [svc EXCEPT !.active = "inactive"] ELSE svc
          /\ Finish("ok", {})
       \/ UNCHANGED svc /\ Finish("aborted", {})
    /\ UNCHANGED <<env, unit, rules, captured, failed, faulty>>

-----------------------------------------------------------------------------
(* The Watchdog or an operator starts or stops the service while the       *)
(* manager works: nothing excludes them.  Once in an operation (bound).    *)
Outside ==
    /\ pc # "done" /\ unit /\ meddled = "no"
    /\ \/ svc' = Started(svc) /\ meddled' = "start"
       \/ svc' = Stopped(svc) /\ meddled' = "stop"
    /\ svc' # svc
    /\ UNCHANGED <<op, pc, env, unit, rules, captured, snaps, failed, outcome, was, faulty>>

Done == pc = "done" /\ UNCHANGED vars

Manager ==
    \/ Snapshot \/ WriteEnv
    \/ Prepare \/ Migrate \/ Apply \/ Restart
    \/ LightEnv \/ LightRules \/ FullEnv \/ FullStop \/ FullRules \/ FullService
    \/ Stop \/ RemoveRules \/ RemoveFiles
    \/ PutBackFiles \/ PutBackRules \/ PutBackService
    \/ WriteUnit \/ AddRules \/ Reload \/ Activate
    \/ UndoActivation \/ UndoRules \/ UndoFiles
    \/ Collect \/ CleanFile \/ CleanReload

Next == (Manager /\ UNCHANGED meddled) \/ Outside \/ Done

Spec == Init /\ [][Next]_vars

-----------------------------------------------------------------------------
(* Properties.                                                             *)

Labels == {"snapshot", "write", "prepare", "migrate", "apply", "restart",
           "light_env", "light_rules", "full_env", "full_stop", "full_rules", "full_service",
           "stop", "remove_rules", "remove_files",
           "put_back_files", "put_back_rules", "put_back_service", "put_back_iran",
           "unit", "add_rules", "reload", "activate",
           "undo_activation", "undo_rules", "undo_files",
           "collect", "clean_unit", "clean_env", "clean_reload", "done"}

(* The files, rules, service and snapshots are what the helpers can make   *)
(* of them, and the manager is at one of its steps.                        *)
TypeOK ==
    /\ op \in Operations /\ pc \in Labels
    /\ env \in Content /\ unit \in BOOLEAN /\ rules \in Chains /\ svc \in Services
    /\ captured \in [active : Activity, unitState : UnitStates]
    /\ snaps \subseteq AllSnaps /\ {failed, faulty} \subseteq BOOLEAN
    /\ meddled \in {"no", "start", "stop"}
    /\ outcome \in {"none", "ok", "unchanged", "restored", "retained", "cleanup", "aborted"}

(* At every instant of an operation that has not succeeded, killed or      *)
(* failed as it may be, everything it changed can be put back: what is not *)
(* as it was has a snapshot on disk.  What somebody else does to the       *)
(* service meanwhile endangers the record of its state only.               *)
OldRecoverable ==
    (outcome # "ok" /\ op.kind \in {"edit", "delete"}) =>
        /\ env = was.env \/ "env" \in snaps
        /\ unit = was.unit \/ "unit" \in snaps
        /\ rules = "old" \/ "fw" \in snaps
        /\ \/ svc = was.svc \/ meddled # "no"
           \/ "svc" \in snaps /\ captured.active = was.svc.active

(* An operation that says it changed nothing or restored everything did:   *)
(* env, unit, rules and, unless somebody else started or stopped it, the   *)
(* service with the configuration it runs.                                 *)
RestoredMeansRestored ==
    outcome \in {"unchanged", "restored"} =>
        env = was.env /\ unit = was.unit /\ rules = "old" /\ (svc = was.svc \/ meddled # "no")

(* The rules that protect a configuration: its own, or, on the same port,  *)
(* those of the other one.                                                 *)
Covered(content) ==
    LET byOld == {"old", "old+", "both"}
        byNew == {"both", "new+", "new"}
    IN  CASE content = "old" -> rules \in byOld \/ (~op.port /\ rules \in byNew)
          [] content = "new" -> rules \in byNew \/ (~op.port /\ op.oldFw /\ rules \in byOld)
          [] OTHER -> TRUE

(* A migration whose env write failed is undone while the service still    *)
(* serves the old port (rollback_kharej_firewall_edit does not stop it).   *)
WriteFailed == Migration /\ env = "old" /\ svc = was.svc

(* While a profile that is protected before and after is edited, and while *)
(* one is created, its service never runs without the rules of the port it *)
(* serves; that includes every way the undoing may fail, except for a      *)
(* migration whose env write failed already, and a start by somebody else. *)
ServedCovered ==
    (/\ meddled # "start"
     /\ svc.active = "active" /\ op.newFw /\ (op.oldFw \/ op.kind = "create")
     /\ outcome = "retained" => ~WriteFailed)
    => Covered(svc.runs)

(* Rules and files of a profile that is deleted, or whose creation is      *)
(* undone, are taken away only from a service that is stopped and          *)
(* disabled, and nobody else has started meanwhile.                        *)
TakesFromStoppedOnly ==
    (/\ meddled # "start" /\ op.kind \in {"create", "delete"}
     /\ \/ rules # "none" /\ rules' = "none"
        \/ env # "none" /\ env' = "none"
        \/ unit /\ ~unit')
    => svc.active # "active" /\ ~svc.enabled

(* A cleanup never takes unit or env file from a running service, unless   *)
(* that ran without an env file or somebody started it after the listing   *)
(* (collect_cleanup_candidates; clean_old_broken_configs stops nothing).   *)
CleanupSparesRunning ==
    (op.kind = "clean" /\ (env' # env \/ unit' # unit) /\ svc.active = "active")
    => was.env = "none" \/ meddled = "start"

(* No step of delete_tunnel, of an undone creation or of a cleanup pulls   *)
(* files or rules from under a running service.                            *)
SparesRunning == [][TakesFromStoppedOnly /\ CleanupSparesRunning]_vars

(* Snapshots, which hold credentials, stay on disk only when the manager   *)
(* says so.                                                                *)
NothingLeftBehind == (pc = "done" /\ outcome # "retained") => snaps = {}

(* The undoing needs nothing that the operation has destroyed: from        *)
(* whatever point an operation failed at, restoration is given up only     *)
(* when a command of the undoing itself fails, for a service that was      *)
(* neither active nor inactive, for one that ran without an env file, or   *)
(* when somebody else started or stopped it.                               *)
UndoGivesUpForAReason ==
    outcome \in {"retained", "cleanup"} =>
        \/ faulty \/ meddled # "no"
        \/ was.svc.active \notin {"active", "inactive"}
        \/ was.svc.active = "active" /\ was.env = "none"

(* What the manager says at the end of an operation is what it has done:   *)
(* everything restored, no snapshot left, nothing given up without cause   *)
(* (edit_profile, delete_tunnel, install_new_profile_from_loaded).         *)
OperationReportTrue ==
    TypeOK /\ RestoredMeansRestored /\ NothingLeftBehind /\ UndoGivesUpForAReason

=============================================================================
