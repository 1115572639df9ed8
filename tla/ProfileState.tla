---------------------------- MODULE ProfileState ----------------------------
(***************************************************************************)
(* The per-profile row of the Upstream Watchdog and the changes the engine *)
(* makes to it in memory (gost_watchdog/models.py, engine.py).             *)
(*                                                                         *)
(* Every operator maps one ProfileState record to the next one; nothing    *)
(* here touches the database, systemd or the clock.  Timestamps are        *)
(* reduced to what the code tests of them: whether an outage is open       *)
(* (outage_started_at is not None), whether a recovery deadline is set     *)
(* (recovery_ready_at is not None) and whether the service was ever        *)
(* checked (last_service_check_at is not None).  The wall clock itself is  *)
(* kept in module RecoveryClock.  Fields that are only displayed           *)
(* (last_transition_at, recovery_started_at, pending_action_at) are left   *)
(* out.                                                                    *)
(***************************************************************************)
EXTENDS Naturals

CONSTANTS FailureThreshold,     \* FAILURE_THRESHOLD of the profile
          SuccessThreshold      \* SUCCESS_THRESHOLD of the profile

(* config.py BOUNDS: both thresholds are at least 1. *)
ASSUME ThresholdAssumption ==
    /\ FailureThreshold \in Nat \ {0}
    /\ SuccessThreshold \in Nat \ {0}

Modes == {"disabled", "monitor", "auto"}
HealthStates == {"unknown", "healthy", "degraded", "down", "recovering"}
ProbeStatuses == {"success", "unreachable", "probe_error"}
CheckStatuses == {"unknown"} \cup ProbeStatuses
StopActions == {"stop_watchdog", "stop_maintenance"}
StartActions == {"start_watchdog", "start_maintenance", "start_operator"}
PendingActions == StopActions \cup StartActions

(* last_service_active: None, True or False. *)
Observed == {"never", "active", "inactive"}

ProfileStates ==
    [health_state : HealthStates,
     maintenance : BOOLEAN,
     stopped_by_watchdog : BOOLEAN,
     stopped_by_maintenance : BOOLEAN,
     manual_override : BOOLEAN,
     failure_count : 0..FailureThreshold,
     success_count : 0..SuccessThreshold,
     outage_open : BOOLEAN,
     recovery_armed : BOOLEAN,
     service_checked : BOOLEAN,
     last_service_active : Observed,
     check_status : CheckStatuses,
     pending_action : PendingActions \cup {"none"}]

(* The state of a profile that has no row yet. *)
FreshState ==
    [health_state |-> "unknown",
     maintenance |-> FALSE,
     stopped_by_watchdog |-> FALSE,
     stopped_by_maintenance |-> FALSE,
     manual_override |-> FALSE,
     failure_count |-> 0,
     success_count |-> 0,
     outage_open |-> FALSE,
     recovery_armed |-> FALSE,
     service_checked |-> FALSE,
     last_service_active |-> "never",
     check_status |-> "unknown",
     pending_action |-> "none"]

(* Mutant of CapAt: the count is not capped. *)
CapDropped(n, limit) == n

CapAt(n, limit) == IF n < limit THEN n ELSE limit

Observe(active) == IF active THEN "active" ELSE "inactive"

(* A fresh is_active answer is written into the record. *)
SeeService(s, active) ==
    [s EXCEPT !.last_service_active = Observe(active), !.service_checked = TRUE]

-----------------------------------------------------------------------------
(* Durable actions: the record before, during and after a systemd call.    *)

WithIntent(s, action) == [s EXCEPT !.pending_action = action]

(* Mutant of Suspend: the failure is dropped without telling the operator. *)
SuspendSilently(s) == [s EXCEPT !.pending_action = "none"]

(* The action was refused or failed: the intent is dropped and automatic   *)
(* actions are suspended until the operator re-arms the profile.           *)
Suspend(s) == [s EXCEPT !.pending_action = "none", !.manual_override = TRUE]

(* Mutant of Stopped: the previous owner is not cleared. *)
StoppedTwice(s, action) ==
    [s EXCEPT !.stopped_by_watchdog = (@ \/ action = "stop_watchdog"),
              !.stopped_by_maintenance = (@ \/ action = "stop_maintenance"),
              !.last_service_active = "inactive",
              !.pending_action = "none"]

(* DurableServiceActions.stop after a verified stop. *)
Stopped(s, action) ==
    [s EXCEPT !.stopped_by_watchdog = (action = "stop_watchdog"),
              !.stopped_by_maintenance = (action = "stop_maintenance"),
              !.last_service_active = "inactive",
              !.pending_action = "none"]

(* DurableServiceActions.start after a verified start. *)
Started(s) ==
    [s EXCEPT !.stopped_by_watchdog = FALSE,
              !.stopped_by_maintenance = FALSE,
              !.manual_override = FALSE,
              !.last_service_active = "active",
              !.pending_action = "none"]

(* The compensating start that follows a stop whose record was not saved. *)
Compensated(s) ==
    [s EXCEPT !.stopped_by_watchdog = FALSE,
              !.stopped_by_maintenance = FALSE,
              !.manual_override = TRUE,
              !.last_service_active = "active",
              !.pending_action = "none"]

(* reconcile_pending: a resumed stop is complete.  A maintenance stop also *)
(* completes the entry into maintenance.                                   *)
ResumedStop(s, action) ==
    [Stopped(s, action) EXCEPT
        !.maintenance = (s.maintenance \/ action = "stop_maintenance")]

(* reconcile_pending: a resumed start is complete.  A maintenance start    *)
(* also completes the exit from maintenance.                               *)
ResumedStart(s, action) ==
    [Started(s) EXCEPT
        !.maintenance = (s.maintenance /\ action # "start_maintenance")]

(* reconcile_pending: the resumed action failed. *)
ResumeFailed(s, action) ==
    IF action \in StopActions
    THEN [Suspend(s) EXCEPT !.stopped_by_watchdog = FALSE,
                            !.stopped_by_maintenance = FALSE,
                            !.last_service_active = "active"]
    ELSE [Suspend(s) EXCEPT !.last_service_active = "inactive"]

-----------------------------------------------------------------------------
(* Health checks.                                                          *)

Owned(s) == s.stopped_by_watchdog \/ s.stopped_by_maintenance

(* _reconcile_service: a service state nobody recorded is an operator's.   *)
ReconcileService(s, active) ==
    LET seen == SeeService(s, active)
    IN  IF active /\ Owned(s)
        THEN [seen EXCEPT !.stopped_by_watchdog = FALSE,
                          !.stopped_by_maintenance = FALSE,
                          !.manual_override = TRUE]
        ELSE IF ~active /\ ~Owned(s) /\ s.last_service_active # "inactive"
        THEN [seen EXCEPT !.manual_override = TRUE]
        ELSE seen

(* Mutant of CountSuccess: the deadline is set only beyond the threshold. *)
CountSuccessLate(s) ==
    LET count == IF s.health_state = "down"
                 THEN 1
                 ELSE CapAt(s.success_count + 1, SuccessThreshold)
        recovery == s.health_state \in {"down", "recovering"}
    IN  [s EXCEPT !.failure_count = 0,
                  !.success_count = count,
                  !.health_state = IF recovery THEN "recovering" ELSE "healthy",
                  !.recovery_armed = recovery /\ count > SuccessThreshold]

(* The success count and, at the threshold, the recovery deadline. *)
CountSuccess(s) ==
    LET count == IF s.health_state = "down"
                 THEN 1
                 ELSE CapAt(s.success_count + 1, SuccessThreshold)
        recovery == s.health_state \in {"down", "recovering"}
    IN  [s EXCEPT !.failure_count = 0,
                  !.success_count = count,
                  !.health_state = IF recovery THEN "recovering" ELSE "healthy",
                  !.recovery_armed =
                      \/ recovery /\ count >= SuccessThreshold
                      \/ s.recovery_armed /\ s.health_state # "down"]

(* Mutants of Recovered: the outage stays open; the override is forgotten. *)
RecoveredOpen(s) ==
    [s EXCEPT !.health_state = "healthy", !.recovery_armed = FALSE]

RecoveredRearms(s) ==
    [s EXCEPT !.health_state = "healthy",
              !.outage_open = FALSE,
              !.recovery_armed = FALSE,
              !.manual_override = FALSE]

(* _complete_recovery, without the start it may issue. *)
Recovered(s) ==
    [s EXCEPT !.health_state = "healthy",
              !.outage_open = FALSE,
              !.recovery_armed = FALSE]

(* _successful_check: elapsed says whether the clock has reached the       *)
(* recovery deadline (now >= recovery_ready_at).                           *)
SuccessfulCheck(s, elapsed) ==
    LET counted == CountSuccess(s)
    IN  IF counted.recovery_armed /\ elapsed THEN Recovered(counted) ELSE counted

(* _failed_check, without the stop it may issue. *)
FailedCheck(s) ==
    LET count == CapAt(s.failure_count + 1, FailureThreshold)
        failed == [s EXCEPT !.success_count = 0,
                            !.failure_count = count,
                            !.recovery_armed = FALSE]
    IN  IF s.health_state = "recovering"
        THEN [failed EXCEPT !.health_state = "down"]
        ELSE IF count >= FailureThreshold
        THEN [failed EXCEPT !.health_state = "down", !.outage_open = TRUE]
        ELSE IF s.health_state \in {"unknown", "healthy"}
        THEN [failed EXCEPT !.health_state = "degraded"]
        ELSE failed

(* Mutant of AutoAllowed: maintenance is not looked at. *)
AutoAllowedAlways(s, mode) == mode = "auto" /\ ~s.manual_override

(* Automatic actions are allowed: Auto mode, no maintenance, no override. *)
AutoAllowed(s, mode) == mode = "auto" /\ ~s.maintenance /\ ~s.manual_override

(* _start_after_recovery is reached from a healthy profile and from a      *)
(* completed recovery, not from unknown or degraded.                       *)
WantsStart(s, checked, mode) ==
    /\ s.health_state \in {"healthy", "down", "recovering"}
    /\ checked.health_state = "healthy"
    /\ AutoAllowed(checked, mode)
    /\ checked.stopped_by_watchdog

(* _stop_if_owned_transition is reached at the threshold, on the           *)
(* transition to down or while down without an owned stop.                 *)
WantsStop(s, checked, mode) ==
    /\ s.health_state # "recovering"
    /\ checked.failure_count >= FailureThreshold
    /\ s.health_state # "down" \/ ~s.stopped_by_watchdog
    /\ AutoAllowed(checked, mode)

(* The intent a completed check leads to, or "none". *)
CheckIntent(s, checked, mode) ==
    IF checked.check_status = "success"
    THEN IF WantsStart(s, checked, mode) THEN "start_watchdog" ELSE "none"
    ELSE IF WantsStop(s, checked, mode) THEN "stop_watchdog" ELSE "none"

-----------------------------------------------------------------------------
(* Maintenance exits.                                                      *)

(* MaintenanceController.apply, exit-start, once the service is active. *)
ExitedWithStart(s) ==
    [s EXCEPT !.last_service_active = "active",
              !.manual_override = FALSE,
              !.stopped_by_watchdog = FALSE,
              !.stopped_by_maintenance = FALSE,
              !.maintenance = FALSE]

(* MaintenanceController.apply, exit-no-start. *)
ExitedNoStart(s, active) ==
    [s EXCEPT !.manual_override = (s.manual_override \/ ~active),
              !.stopped_by_watchdog = FALSE,
              !.stopped_by_maintenance = FALSE,
              !.maintenance = FALSE]

-----------------------------------------------------------------------------
(* What every record the Watchdog builds satisfies.                        *)

(* A stop has at most one owner, and maintenance owns a stop only while    *)
(* maintenance is on.                                                      *)
OwnershipSound(s) ==
    /\ ~(s.stopped_by_watchdog /\ s.stopped_by_maintenance)
    /\ s.stopped_by_maintenance => s.maintenance

(* An outage is open exactly while the profile is down or recovering; a    *)
(* recovery deadline exists only at the success threshold of a recovery;   *)
(* successes and failures are never counted at the same time.              *)
OutageSound(s) ==
    /\ s.outage_open <=> s.health_state \in {"down", "recovering"}
    /\ s.recovery_armed => s.health_state = "recovering"
    /\ s.recovery_armed => s.success_count = SuccessThreshold
    /\ s.health_state = "recovering" => s.success_count > 0
    /\ s.health_state = "down" => s.failure_count > 0
    /\ s.failure_count = 0 \/ s.success_count = 0

(* What must hold of the record in which an intent is saved. *)
IntentSound(s) ==
    /\ s.pending_action \in {"stop_watchdog", "start_watchdog"} =>
          ~s.maintenance /\ ~s.manual_override
    /\ s.pending_action = "stop_watchdog" =>
          s.health_state = "down" /\ s.failure_count = FailureThreshold
    /\ s.pending_action \in StartActions => s.health_state = "healthy" /\ Owned(s)
    /\ s.pending_action \in {"start_watchdog", "start_operator"} =>
          s.stopped_by_watchdog /\ s.check_status = "success"
    /\ s.pending_action = "stop_maintenance" => s.maintenance

Good(s) == OwnershipSound(s) /\ OutageSound(s) /\ IntentSound(s)
=============================================================================
