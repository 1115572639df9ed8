------------------------------ MODULE Watchdog ------------------------------
(***************************************************************************)
(* The Upstream Watchdog around one Iran profile: the central daemon       *)
(* (daemon.py, engine.py), the administration command (admin_cli.py and    *)
(* MaintenanceController), the SQLite row they share, the profile's mode   *)
(* file, the systemd service, and an operator who starts and stops the     *)
(* service by hand.  Each command reads and writes only the row, the mode  *)
(* file and the service of its own profile, so one profile is enough.      *)
(*                                                                         *)
(* A process works on a copy of the row.  One step of the model is at most *)
(* one access to shared state: reading the row, asking systemd, running a  *)
(* systemd command, or saving the whole copy back.  Nothing locks the row  *)
(* between reading and saving it: with Overlap = TRUE the two processes    *)
(* interleave at every such point; with Overlap = FALSE a process reads    *)
(* the row only while the other one is not between its read and its last   *)
(* save.                                                                   *)
(***************************************************************************)
EXTENDS ProfileState

CONSTANTS Overlap,      \* may operations of daemon and admin overlap?
          Commands,     \* what the operator may do
          Faults        \* the kinds of failure that may happen

FaultKinds == {"probe", "query", "action", "persist", "daemon_crash", "admin_crash"}

Processes == {"daemon", "admin"}

MaintenanceOps == {"enter-keep", "enter-stop", "exit-no-start", "exit-start"}
AdminOps == MaintenanceOps \cup {"rearm", "set-mode"}
DaemonOps == {"reconcile", "process"}

(* "service": systemctl start or stop of the profile's service by hand. *)
OperatorCommands == AdminOps \cup {"reset-profile", "service"}

ASSUME OverlapAssumption == Overlap \in BOOLEAN
ASSUME CommandsAssumption == Commands \subseteq OperatorCommands
ASSUME FaultsAssumption == Faults \subseteq FaultKinds

(* Where a process stands between two accesses to shared state:            *)
(*   get, probe     the daemon is about to read the row (between pings)    *)
(*   resume_*       DurableServiceActions.reconcile_pending                *)
(*   evaluate       WatchdogEngine.process after the pending action        *)
(*   decide         an admin command is about to ask for the service state *)
(*   intent, query, act, commit, compensate, recommit, refuse              *)
(*                  DurableServiceActions.stop and .start                  *)
(*   final          the last save of the operation                         *)
(*   write_mode     set-mode is about to replace the mode file             *)
Points == {"idle", "get", "probe", "resume_query", "resume_act", "resume_save",
           "evaluate", "decide", "intent", "query", "act", "commit",
           "compensate", "recommit", "refuse", "final", "write_mode"}

VARIABLES
    row,        \* the durable profile_state row
    mode,       \* MODE in watchdog.d/<profile>.conf
    active,     \* is the GOST service active?
    upstream,   \* does the Kharej host answer ping?
    pc,         \* pc[p]: where process p stands
    op,         \* op[p]: the operation p is running
    st,         \* st[p]: p's copy of the row
    action,     \* action[p]: the service action p is carrying out
    snap,       \* snap[p]: the mode p works with (daemon: read, set-mode: target)
    result,     \* the daemon's last ping result
    resumed,    \* did this process() call already resume a pending action?
    stopper     \* history: who made the service inactive

vars == <<row, mode, active, upstream, pc, op, st, action, snap, result, resumed, stopper>>
locals == <<pc, op, st, action, snap, result, resumed>>
world == <<mode, active, upstream, stopper>>

TypeOK ==
    /\ row \in ProfileStates
    /\ mode \in Modes
    /\ active \in BOOLEAN
    /\ upstream \in BOOLEAN
    /\ pc \in [Processes -> Points]
    /\ op \in [Processes -> AdminOps \cup DaemonOps \cup {"none"}]
    /\ st \in [Processes -> ProfileStates]
    /\ action \in [Processes -> PendingActions \cup {"none"}]
    /\ snap \in [Processes -> Modes]
    /\ result \in CheckStatuses
    /\ resumed \in BOOLEAN
    /\ stopper \in {"nobody", "watchdog", "maintenance", "operator"}

Init ==
    /\ row = FreshState
    /\ mode \in Modes
    /\ active \in BOOLEAN
    /\ upstream \in BOOLEAN
    /\ pc = [p \in Processes |-> "idle"]
    /\ op = [p \in Processes |-> "none"]
    /\ st = [p \in Processes |-> FreshState]
    /\ action = [p \in Processes |-> "none"]
    /\ snap = [p \in Processes |-> "disabled"]
    /\ result = "unknown"
    /\ resumed = FALSE
    /\ stopper = IF active THEN "nobody" ELSE "operator"

-----------------------------------------------------------------------------
(* Steps shared by the two processes.                                      *)

(* p goes on at point next with the copy s. *)
Goto(p, next, s) ==
    /\ pc' = [pc EXCEPT ![p] = next]
    /\ st' = [st EXCEPT ![p] = s]
    /\ UNCHANGED <<op, action, snap, result, resumed>>

(* p's operation is over, by completion, exception or crash: its memory is *)
(* gone.                                                                   *)
Leave(p) ==
    /\ pc' = [pc EXCEPT ![p] = "idle"]
    /\ op' = [op EXCEPT ![p] = "none"]
    /\ st' = [st EXCEPT ![p] = FreshState]
    /\ action' = [action EXCEPT ![p] = "none"]
    /\ snap' = [snap EXCEPT ![p] = "disabled"]
    /\ IF p = "daemon" THEN result' = "unknown" /\ resumed' = FALSE
                       ELSE UNCHANGED <<result, resumed>>

(* No operation of the other process is between its read and last save. *)
MayRead(p) ==
    Overlap \/ \A q \in Processes \ {p} : pc[q] \in {"idle", "get", "probe"}

(* Mutant of Begin: the intent is not saved before the command. *)
BeginUnsaved(p, act, s) ==
    /\ pc' = [pc EXCEPT ![p] = "query"]
    /\ st' = [st EXCEPT ![p] = WithIntent(s, act)]
    /\ action' = [action EXCEPT ![p] = act]
    /\ UNCHANGED <<op, snap, result, resumed>>

(* p starts the action on its copy s: the intent is saved first. *)
Begin(p, act, s) ==
    /\ pc' = [pc EXCEPT ![p] = "intent"]
    /\ st' = [st EXCEPT ![p] = WithIntent(s, act)]
    /\ action' = [action EXCEPT ![p] = act]
    /\ UNCHANGED <<op, snap, result, resumed>>

(* WatchdogStore.persist: one transaction replaces the whole row. *)
Save(p) == row' = st[p] /\ UNCHANGED world

(* persist raised: the transaction was rolled back. *)
SaveFails == "persist" \in Faults /\ UNCHANGED <<row, mode, active, upstream, stopper>>

(* SystemdController.is_active answers truthfully or raises CommandError. *)
QueryFails == "query" \in Faults

(* SystemdController.stop / start: verified success. *)
CommandSucceeds(act) ==
    /\ active' = (act \in StartActions)
    /\ stopper' = CASE act = "stop_watchdog" -> "watchdog"
                    [] act = "stop_maintenance" -> "maintenance"
                    [] OTHER -> "nobody"
    /\ UNCHANGED <<row, mode, upstream>>

(* The command failed, timed out or was not verified; the service may have *)
(* changed state all the same.                                             *)
CommandFails(act) ==
    /\ "action" \in Faults
    /\ \/ CommandSucceeds(act)
       \/ UNCHANGED <<row, mode, active, upstream, stopper>>

-----------------------------------------------------------------------------
(* DurableServiceActions.reconcile_pending: resume the intent of the row.  *)

(* Where p goes once no action is pending in its copy. *)
NextAfterResume(p) ==
    CASE op[p] = "reconcile" -> IF snap[p] = "disabled" THEN "idle" ELSE "probe"
      [] op[p] = "process" -> "evaluate"
      [] OTHER -> "decide"

(* engine.reconcile_pending returns its state unused; process and apply    *)
(* continue with it.                                                       *)
ContinueAfterResume(p) ==
    IF NextAfterResume(p) = "idle" THEN Leave(p)
    ELSE /\ pc' = [pc EXCEPT ![p] = NextAfterResume(p)]
         /\ st' = [st EXCEPT ![p] = IF op[p] = "reconcile" THEN FreshState ELSE @]
         /\ action' = [action EXCEPT ![p] = "none"]
         /\ resumed' = (resumed \/ op[p] = "process")
         /\ UNCHANGED <<op, snap, result>>

ResumeQuery(p) ==
    /\ pc[p] = "resume_query"
    /\ UNCHANGED <<row, mode, active, upstream, stopper>>
    /\ LET act == action[p]
           seen == SeeService(st[p], active)
       IN  \/ /\ QueryFails
              /\ Goto(p, "resume_save", Suspend([st[p] EXCEPT !.service_checked = TRUE]))
           \/ /\ active = (act \in StopActions)
              /\ Goto(p, "resume_act", seen)
           \/ /\ ~active /\ act \in StopActions
              /\ Goto(p, "resume_save", ResumedStop(seen, act))
           \/ /\ active /\ act \in StartActions
              /\ Goto(p, "resume_save", ResumedStart(seen, act))

ResumeAct(p) ==
    /\ pc[p] = "resume_act"
    /\ LET act == action[p]
       IN  \/ /\ CommandSucceeds(act)
              /\ Goto(p, "resume_save",
                      IF act \in StopActions THEN ResumedStop(st[p], act)
                                             ELSE ResumedStart(st[p], act))
           \/ /\ CommandFails(act)
              /\ Goto(p, "resume_save", ResumeFailed(st[p], act))

ResumeSave(p) ==
    /\ pc[p] = "resume_save"
    /\ \/ Save(p) /\ ContinueAfterResume(p)
       \/ SaveFails /\ Leave(p)

-----------------------------------------------------------------------------
(* DurableServiceActions.stop and start.                                   *)

SaveIntent(p) ==
    /\ pc[p] = "intent"
    /\ \/ Save(p) /\ Goto(p, "query", st[p])
       \/ SaveFails /\ Leave(p)

(* The fresh is_active query just before the command.  An exception leaves *)
(* the intent in the row.                                                  *)
Query(p) ==
    /\ pc[p] = "query"
    /\ UNCHANGED <<row, mode, active, upstream, stopper>>
    /\ LET act == action[p]
           seen == SeeService(st[p], active)
       IN  \/ QueryFails /\ Leave(p)
           \/ active = (act \in StopActions) /\ Goto(p, "act", seen)
           \/ ~active /\ act \in StopActions /\ Goto(p, "refuse", Suspend(seen))
           \/ active /\ act \in StartActions /\ Goto(p, "commit", Started(seen))

Act(p) ==
    /\ pc[p] = "act"
    /\ LET act == action[p]
       IN  \/ /\ CommandSucceeds(act)
              /\ Goto(p, "commit", IF act \in StopActions THEN Stopped(st[p], act)
                                                          ELSE Started(st[p]))
           \/ CommandFails(act) /\ Goto(p, "refuse", Suspend(st[p]))

(* The action returned True to its caller. *)
ReturnTrue(p) ==
    CASE op[p] = "exit-start" -> Goto(p, "final", ExitedWithStart(st[p]))
      [] op[p] = "set-mode" -> Goto(p, "write_mode", st[p])
      [] OTHER -> Goto(p, "final", st[p])

(* The action returned False: exit-start and set-mode raise. *)
ReturnFalse(p) ==
    IF op[p] \in {"exit-start", "set-mode"} THEN Leave(p) ELSE Goto(p, "final", st[p])

Commit(p) ==
    /\ pc[p] = "commit"
    /\ \/ Save(p) /\ ReturnTrue(p)
       \/ SaveFails /\ Goto(p, IF action[p] \in StopActions THEN "compensate"
                                                            ELSE "recommit", st[p])

(* start saves once more after a failed save; a second failure raises. *)
Recommit(p) ==
    /\ pc[p] = "recommit"
    /\ \/ Save(p) /\ ReturnTrue(p)
       \/ SaveFails /\ Leave(p)

(* stop undoes an unrecorded stop with one start; if that fails it raises  *)
(* and the intent stays in the row.                                        *)
Compensate(p) ==
    /\ pc[p] = "compensate"
    /\ \/ CommandSucceeds("start_operator") /\ Goto(p, "refuse", Compensated(st[p]))
       \/ CommandFails("start_operator") /\ Leave(p)

Refuse(p) ==
    /\ pc[p] = "refuse"
    /\ \/ Save(p) /\ ReturnFalse(p)
       \/ SaveFails /\ Leave(p)

(* The save that ends process, apply and rearm. *)
Final(p) ==
    /\ pc[p] = "final"
    /\ Save(p) \/ SaveFails
    /\ Leave(p)

-----------------------------------------------------------------------------
(* The daemon: run_cycle for this profile.                                 *)

(* RuntimeLoader.load: the mode is read once per cycle. *)
Load ==
    /\ pc["daemon"] = "idle"
    /\ pc' = [pc EXCEPT !["daemon"] = "get"]
    /\ op' = [op EXCEPT !["daemon"] = "reconcile"]
    /\ snap' = [snap EXCEPT !["daemon"] = mode]
    /\ UNCHANGED <<row, world, st, action, result, resumed>>

(* The daemon's copy becomes the row; a pending action is resumed first. *)
ReadRow(p, next) ==
    IF row.pending_action # "none"
    THEN /\ pc' = [pc EXCEPT ![p] = "resume_query"]
         /\ st' = [st EXCEPT ![p] = row]
         /\ action' = [action EXCEPT ![p] = row.pending_action]
    ELSE /\ pc' = [pc EXCEPT ![p] = next]
         /\ st' = [st EXCEPT ![p] = IF next \in {"idle", "probe"} THEN FreshState ELSE row]
         /\ UNCHANGED action

(* Mutant of Get: a disabled profile is skipped. *)
GetEnabledOnly ==
    /\ pc["daemon"] = "get"
    /\ MayRead("daemon")
    /\ IF snap["daemon"] = "disabled"
       THEN Leave("daemon")
       ELSE ReadRow("daemon", "probe") /\ UNCHANGED <<op, snap, result, resumed>>
    /\ UNCHANGED <<row, world>>

(* WatchdogEngine.reconcile_pending, before any ping and in every mode. *)
Get ==
    /\ pc["daemon"] = "get"
    /\ MayRead("daemon")
    /\ IF row.pending_action = "none" /\ snap["daemon"] = "disabled"
       THEN Leave("daemon")
       ELSE ReadRow("daemon", "probe") /\ UNCHANGED <<op, snap, result, resumed>>
    /\ UNCHANGED <<row, world>>

(* run_ping_checks, then process reads the row again. *)
Probe ==
    /\ pc["daemon"] = "probe"
    /\ MayRead("daemon")
    /\ \/ result' = IF upstream THEN "success" ELSE "unreachable"
       \/ "probe" \in Faults /\ result' = "probe_error"
    /\ op' = [op EXCEPT !["daemon"] = "process"]
    /\ ReadRow("daemon", "evaluate")
    /\ UNCHANGED <<row, world, snap, resumed>>

(* The copy after the check result is noted and, in Auto mode, the service *)
(* state is compared.  recent: the last comparison is younger than         *)
(* SERVICE_RECONCILIATION_INTERVAL_SECONDS.                                *)
ServiceCompared(s, recent) ==
    IF snap["daemon"] = "auto" /\ ~(s.service_checked /\ recent)
    THEN ReconcileService(s, active)
    ELSE s

Evaluate(recent, elapsed) ==
    /\ pc["daemon"] = "evaluate"
    /\ resumed => recent
    /\ LET noted == [st["daemon"] EXCEPT !.check_status = result]
           before == ServiceCompared(noted, recent)
           checked == IF result = "success" THEN SuccessfulCheck(before, elapsed)
                                            ELSE FailedCheck(before)
           intent == CheckIntent(before, checked, snap["daemon"])
       IN  \/ /\ result = "probe_error"
              /\ Goto("daemon", "final", noted)
           \/ /\ result # "probe_error" /\ intent = "none"
              /\ Goto("daemon", "final", checked)
           \/ /\ result # "probe_error" /\ intent # "none"
              /\ Begin("daemon", intent, checked)
    /\ UNCHANGED <<row, world>>

(* The comparison of the service state raised CommandError. *)
EvaluateFails ==
    /\ pc["daemon"] = "evaluate"
    /\ QueryFails /\ result # "probe_error" /\ snap["daemon"] = "auto"
    /\ ~(st["daemon"].service_checked /\ resumed)
    /\ Leave("daemon")
    /\ UNCHANGED <<row, world>>

-----------------------------------------------------------------------------
(* The administration command.                                             *)

AdminBegins(o) ==
    /\ o \in Commands
    /\ pc["admin"] = "idle"
    /\ MayRead("admin")
    /\ op' = [op EXCEPT !["admin"] = o]
    /\ UNCHANGED <<row, world, result, resumed>>

(* MaintenanceController.apply reads the row and resumes a pending action. *)
Maintenance(o) ==
    /\ AdminBegins(o)
    /\ ReadRow("admin", "decide")
    /\ UNCHANGED snap

(* MaintenanceController.rearm; it does not resume a pending action. *)
Rearm ==
    /\ AdminBegins("rearm")
    /\ row.manual_override
    /\ pc' = [pc EXCEPT !["admin"] = "decide"]
    /\ st' = [st EXCEPT !["admin"] = row]
    /\ UNCHANGED <<action, snap>>

(* The command asks systemd and decides. *)
Decide ==
    /\ pc["admin"] = "decide"
    /\ UNCHANGED <<row, world>>
    /\ LET s == SeeService(st["admin"], active)
           o == op["admin"]
           entered == [s EXCEPT !.maintenance = TRUE]
       IN  \/ QueryFails /\ Leave("admin")
           \/ /\ o = "enter-keep" \/ (o = "enter-stop" /\ ~active)
              /\ Goto("admin", "final", entered)
           \/ /\ o = "enter-stop" /\ active
              /\ Begin("admin", "stop_maintenance", entered)
           \/ /\ o = "exit-no-start"
              /\ Goto("admin", "final", ExitedNoStart(s, active))
           \/ /\ o = "exit-start" /\ s.health_state = "healthy" /\ active
              /\ Goto("admin", "final", ExitedWithStart(s))
           \/ /\ o = "exit-start" /\ s.health_state = "healthy" /\ ~active /\ Owned(s)
              /\ Begin("admin", "start_maintenance", s)
           \/ /\ o = "exit-start"
              /\ s.health_state # "healthy" \/ (~active /\ ~Owned(s))
              /\ Leave("admin")
           \/ /\ o = "rearm" /\ (active \/ s.stopped_by_watchdog)
              /\ Goto("admin", "final", [s EXCEPT !.manual_override = FALSE])
           \/ /\ o = "rearm" /\ ~active /\ ~s.stopped_by_watchdog
              /\ Leave("admin")

(* command_set_mode.  Leaving Auto with an owned stop needs a choice;      *)
(* start-if-healthy starts the service before the mode is written.         *)
SetMode(target, owned_action) ==
    LET leaving == mode = "auto" /\ target \in {"monitor", "disabled"}
        needs_choice == leaving /\ row.stopped_by_watchdog
    IN  /\ AdminBegins("set-mode")
        /\ owned_action # "unspecified" => leaving
        /\ needs_choice => owned_action # "unspecified"
        /\ snap' = [snap EXCEPT !["admin"] = target]
        /\ IF needs_choice /\ owned_action = "start-if-healthy"
           THEN /\ row.health_state = "healthy" /\ row.check_status = "success"
                /\ pc' = [pc EXCEPT !["admin"] = "intent"]
                /\ st' = [st EXCEPT !["admin"] = WithIntent(row, "start_operator")]
                /\ action' = [action EXCEPT !["admin"] = "start_operator"]
           ELSE /\ pc' = [pc EXCEPT !["admin"] = "write_mode"]
                /\ UNCHANGED <<st, action>>

(* atomic_write_config replaces the mode file or leaves it alone. *)
WriteMode ==
    /\ pc["admin"] = "write_mode"
    /\ mode' = snap["admin"] \/ ("persist" \in Faults /\ mode' = mode)
    /\ Leave("admin")
    /\ UNCHANGED <<row, active, upstream, stopper>>

(* command_reset_profile: the mode becomes disabled, whatever was there. *)
ResetProfile ==
    /\ "reset-profile" \in Commands
    /\ pc["admin"] = "idle"
    /\ mode' = "disabled"
    /\ UNCHANGED <<row, active, upstream, stopper, locals>>

-----------------------------------------------------------------------------
(* Everything else.                                                        *)

OperatorStop ==
    /\ "service" \in Commands
    /\ active /\ active' = FALSE /\ stopper' = "operator"
    /\ UNCHANGED <<row, mode, upstream, locals>>

OperatorStart ==
    /\ "service" \in Commands
    /\ ~active /\ active' = TRUE /\ stopper' = "nobody"
    /\ UNCHANGED <<row, mode, upstream, locals>>

UpstreamChanges ==
    /\ upstream' = ~upstream
    /\ UNCHANGED <<row, mode, active, stopper, locals>>

(* The process dies; the daemon is restarted by systemd, the command not. *)
Crash(p) ==
    /\ (p = "daemon" /\ "daemon_crash" \in Faults) \/ (p = "admin" /\ "admin_crash" \in Faults)
    /\ pc[p] # "idle"
    /\ Leave(p)
    /\ UNCHANGED <<row, world>>

ActionStep(p) ==
    \/ ResumeQuery(p) \/ ResumeAct(p) \/ ResumeSave(p)
    \/ SaveIntent(p) \/ Query(p) \/ Act(p)
    \/ Commit(p) \/ Recommit(p) \/ Compensate(p) \/ Refuse(p) \/ Final(p)

DaemonStep ==
    \/ Load \/ Get \/ Probe
    \/ \E recent, elapsed \in BOOLEAN : Evaluate(recent, elapsed)
    \/ EvaluateFails
    \/ ActionStep("daemon")

AdminStep ==
    \/ \E o \in MaintenanceOps : Maintenance(o)
    \/ Rearm
    \/ \E target \in Modes, owned \in {"unspecified", "keep-stopped", "start-if-healthy"} :
          SetMode(target, owned)
    \/ Decide \/ WriteMode \/ ResetProfile
    \/ ActionStep("admin")

Next ==
    \/ DaemonStep
    \/ AdminStep
    \/ OperatorStop \/ OperatorStart \/ UpstreamChanges
    \/ \E p \in Processes : Crash(p)

Spec == Init /\ [][Next]_vars

-----------------------------------------------------------------------------
(* Properties of every interleaving.                                       *)

(* The saved row never gives a stop two owners and never keeps a           *)
(* maintenance-owned stop outside maintenance, whatever the daemon, the    *)
(* commands, crashes and failed saves do in between.                       *)
OwnershipConsistent == OwnershipSound(row)

(* The saved row's outage bookkeeping agrees with its health state, so     *)
(* that no outage is reported twice, lost or left open (engine.py          *)
(* _successful_check, _failed_check, _complete_recovery).                  *)
OutageConsistent == OutageSound(row)

(* A durable intent is only ever saved in a row that authorises it, and    *)
(* the row authorises it for as long as the intent is pending: an          *)
(* automatic action not during maintenance or override, a stop only at the *)
(* failure threshold, a start only of an owned stop of a healthy profile.  *)
(* A restart may therefore carry out whatever it finds.                    *)
PendingAuthorised == IntentSound(row)

-----------------------------------------------------------------------------
(* Properties of operations that do not overlap (Overlap = FALSE).         *)

(* Process p runs its stop or start command and the service changes. *)
Acts(p) == pc[p] \in {"act", "resume_act"} /\ pc'[p] # pc[p] /\ active' # active

AutomaticActions == {"stop_watchdog", "start_watchdog"}

(* DurableServiceActions: every stop or start happens under the intent     *)
(* saved for it, and an automatic one only while the saved row has neither *)
(* maintenance nor manual override.                                        *)
IntentBeforeAction ==
    [][\A p \in Processes : Acts(p) =>
          /\ row.pending_action = action[p]
          /\ action[p] \in AutomaticActions => ~row.maintenance /\ ~row.manual_override]_vars

(* A service the Watchdog or maintenance stopped is never forgotten: when  *)
(* no operation is in progress, the row owns the stop, still holds the     *)
(* intent, or tells the operator by manual override, after any crash,      *)
(* failed save, failed command or failed compensation.                     *)
NoOrphanStop ==
    (/\ ~active
     /\ stopper \in {"watchdog", "maintenance"}
     /\ \A p \in Processes : pc[p] \in {"idle", "get", "probe"})
        => Owned(row) \/ row.pending_action # "none" \/ row.manual_override

(* p works for the operator: a command that may end an override, or the    *)
(* resumption of a start such a command had authorised.                    *)
ForOperator(p) ==
    \/ op[p] \in {"rearm", "exit-start", "set-mode"}
    \/ action[p] \in {"start_maintenance", "start_operator"}

(* "suspends automatic actions until the operator explicitly uses Re-arm": *)
(* once saved, manual override is only removed by the operator's re-arm,   *)
(* or by a start the operator asked for.                                   *)
OverrideSticky ==
    [][(row.manual_override /\ ~row'.manual_override)
          => \E p \in Processes : pc'[p] # pc[p] /\ ForOperator(p)]_vars

-----------------------------------------------------------------------------
(* Liveness.  The daemon keeps running (its unit has Restart=on-failure)   *)
(* and every step of it is bounded by a timeout: weak fairness.  Time      *)
(* passes: a check that repeats forever happens again and again after the  *)
(* comparison interval and the recovery deadline: strong fairness of those *)
(* checks.                                                                 *)

LateCheck == Evaluate(FALSE, TRUE)

Fairness == WF_vars(DaemonStep) /\ SF_vars(LateCheck)

FairSpec == Spec /\ Fairness

(* Every saved intent is resolved, in every mode. *)
IntentResolved == row.pending_action # "none" ~> row.pending_action = "none"

AutoProtecting == mode = "auto" /\ ~row.maintenance /\ ~row.manual_override

(* If the upstream stays up and Auto Protect stays allowed, no stop stays  *)
(* owned by the Watchdog: the service is started after the recovery.       *)
EventuallyRestarted ==
    <>[](upstream /\ AutoProtecting) => <>[](~row.stopped_by_watchdog)

(* If the upstream stays down and Auto Protect stays allowed, the service  *)
(* does not stay active.                                                   *)
EventuallyStopped ==
    <>[](~upstream /\ AutoProtecting) => []<>(~active)

(* The service follows a lasting state of the upstream, in both directions *)
(* (_successful_check, _failed_check).                                     *)
FollowsUpstream == EventuallyRestarted /\ EventuallyStopped

-----------------------------------------------------------------------------
(* What docs/WATCHDOG-V1.md says and the code does not do.                 *)

(* "It never auto-starts an operator-stopped profile." *)
NeverStartsOperatorStopped ==
    [][(Acts("daemon") /\ action["daemon"] = "start_watchdog")
          => stopper # "operator"]_vars

(* "Checks may continue during maintenance, but automatic stop/start       *)
(* actions are suspended": no automatic action once maintenance is saved.  *)
MaintenanceSuspends ==
    [][(Acts("daemon") /\ action["daemon"] \in AutomaticActions)
          => ~row.maintenance]_vars
=============================================================================
