--------------------------- MODULE WatchdogProofs ---------------------------
(***************************************************************************)
(* Proofs about Watchdog, for all thresholds, all sets of commands and     *)
(* failures, and both with and without overlapping operations.             *)
(*                                                                         *)
(* The first part is about ProfileState: every change the engine makes to  *)
(* a record keeps it well formed and sound.  One lemma per operator; the   *)
(* proofs about the processes cite these lemmas and never open the         *)
(* operators.                                                              *)
(*                                                                         *)
(* A saved row is always some process's copy, so the row is sound because  *)
(* every copy is.  A copy is changed in ways that depend on the point a    *)
(* process has reached: it carries its intent up to the systemd command,   *)
(* and has no intent when a health check or a maintenance command rewrites *)
(* it.  That is the strengthening IInv adds.                               *)
(*                                                                         *)
(* The last part is about operations that do not overlap.  Then a process  *)
(* that has a copy is alone with it, so the copy and the row tell the same *)
(* of a stop, an intent and an override: SerialInv says what they tell at  *)
(* each point.                                                             *)
(***************************************************************************)
EXTENDS Watchdog, TLAPS

-----------------------------------------------------------------------------
(* Records *)

(* A record of the right shape that satisfies Good. *)
Sound(s) == s \in ProfileStates /\ Good(s)

(* A sound record with no intent: what health checks and maintenance       *)
(* commands work on.                                                       *)
Settled(s) == Sound(s) /\ s.pending_action = "none"

-----------------------------------------------------------------------------

(* The default ProfileState (models.py) of a profile without a row is sound. *)
LEMMA FreshSettled == Settled(FreshState)
BY ThresholdAssumption
DEF Settled, Sound, ProfileStates, FreshState, Good, OwnershipSound, OutageSound,
    IntentSound, Owned, HealthStates, CheckStatuses, Observed, PendingActions,
    StartActions, StopActions

(* Recording a service observation changes nothing Good looks at. *)
LEMMA SeeServiceSound ==
    ASSUME NEW s, Sound(s), NEW a \in BOOLEAN
    PROVE  /\ Sound(SeeService(s, a))
           /\ SeeService(s, a).pending_action = s.pending_action
           /\ SeeService(s, a).health_state = s.health_state
           /\ SeeService(s, a).maintenance = s.maintenance
           /\ SeeService(s, a).stopped_by_watchdog = s.stopped_by_watchdog
           /\ SeeService(s, a).stopped_by_maintenance = s.stopped_by_maintenance
<1> DEFINE t == SeeService(s, a)
<1>1. Observe(a) \in Observed
  BY DEF Observe, Observed
<1>2. t \in ProfileStates
  BY <1>1 DEF Sound, ProfileStates, SeeService
<1>3. /\ t.pending_action = s.pending_action
      /\ t.health_state = s.health_state
      /\ t.maintenance = s.maintenance
      /\ t.stopped_by_watchdog = s.stopped_by_watchdog
      /\ t.stopped_by_maintenance = s.stopped_by_maintenance
  BY DEF Sound, ProfileStates, SeeService
<1>4. /\ t.manual_override = s.manual_override
      /\ t.failure_count = s.failure_count
      /\ t.success_count = s.success_count
      /\ t.outage_open = s.outage_open
      /\ t.recovery_armed = s.recovery_armed
      /\ t.check_status = s.check_status
  BY DEF Sound, ProfileStates, SeeService
<1>5. Good(t)
  BY <1>3, <1>4 DEF Sound, Good, OwnershipSound, OutageSound, IntentSound, Owned
<1> QED
  BY <1>2, <1>3, <1>5 DEF Sound

(* Dropping an intent and suspending automatic actions is always sound. *)
LEMMA SuspendSettled ==
    ASSUME NEW s, Sound(s)
    PROVE  Settled(Suspend(s)) /\ Settled(Suspend([s EXCEPT !.service_checked = TRUE]))
<1>1. Settled(Suspend(s))
  <2> DEFINE t == Suspend(s)
  <2>1. t \in ProfileStates
    BY DEF Sound, ProfileStates, Suspend
  <2>2. Good(t) /\ t.pending_action = "none"
    BY DEF Sound, ProfileStates, Good, OwnershipSound, OutageSound, IntentSound,
           Owned, StartActions, Suspend
  <2> QED
    BY <2>1, <2>2 DEF Settled, Sound
<1>2. Settled(Suspend([s EXCEPT !.service_checked = TRUE]))
  <2> DEFINE t == Suspend([s EXCEPT !.service_checked = TRUE])
  <2>1. t \in ProfileStates
    BY DEF Sound, ProfileStates, Suspend
  <2>2. Good(t) /\ t.pending_action = "none"
    BY DEF Sound, ProfileStates, Good, OwnershipSound, OutageSound, IntentSound,
           Owned, StartActions, Suspend
  <2> QED
    BY <2>1, <2>2 DEF Settled, Sound
<1> QED
  BY <1>1, <1>2

(* A verified stop gives the stop the one owner its intent names. *)
LEMMA StoppedSettled ==
    ASSUME NEW s, Sound(s), NEW act \in StopActions, s.pending_action = act
    PROVE  Settled(Stopped(s, act)) /\ Settled(ResumedStop(s, act))
<1>1. Settled(Stopped(s, act))
  <2> DEFINE t == Stopped(s, act)
  <2>1. t \in ProfileStates
    BY DEF Sound, ProfileStates, Observed, Stopped
  <2>2. Good(t) /\ t.pending_action = "none"
    BY DEF Sound, ProfileStates, Good, OwnershipSound, OutageSound, IntentSound,
           Owned, StopActions, StartActions, Stopped
  <2> QED
    BY <2>1, <2>2 DEF Settled, Sound
<1>2. Settled(ResumedStop(s, act))
  <2> DEFINE t == ResumedStop(s, act)
  <2>1. t \in ProfileStates
    BY ZenonT(40) DEF Sound, ProfileStates, Observed, Stopped, ResumedStop
  <2>2. Good(t) /\ t.pending_action = "none"
    BY DEF Sound, ProfileStates, Good, OwnershipSound, OutageSound, IntentSound,
           Owned, StopActions, StartActions, Stopped, ResumedStop
  <2> QED
    BY <2>1, <2>2 DEF Settled, Sound
<1> QED
  BY <1>1, <1>2

(* A verified start leaves no owner. *)
LEMMA StartedSettled ==
    ASSUME NEW s, Sound(s), NEW act
    PROVE  Settled(Started(s)) /\ Settled(ResumedStart(s, act))
<1>1. Settled(Started(s))
  <2> DEFINE t == Started(s)
  <2>1. t \in ProfileStates
    BY DEF Settled, Sound, ProfileStates, Observed, Started
  <2>2. Good(t) /\ t.pending_action = "none"
    BY DEF Settled, Sound, ProfileStates, Good, OwnershipSound, OutageSound,
           IntentSound, StartActions, Started
  <2> QED
    BY <2>1, <2>2 DEF Settled, Sound
<1>2. Settled(ResumedStart(s, act))
  <2> DEFINE t == ResumedStart(s, act)
  <2>1. t \in ProfileStates
    BY DEF Settled, Sound, ProfileStates, Observed, ResumedStart, Started
  <2>2. Good(t) /\ t.pending_action = "none"
    BY DEF Settled, Sound, ProfileStates, Good, OwnershipSound, OutageSound,
           IntentSound, StartActions, ResumedStart, Started
  <2> QED
    BY <2>1, <2>2 DEF Settled, Sound
<1> QED
  BY <1>1, <1>2

(* A compensated stop leaves no owner and manual override. *)
LEMMA CompensatedSettled ==
    ASSUME NEW s, Sound(s)
    PROVE  Settled(Compensated(s))
<1> DEFINE t == Compensated(s)
<1>1. t \in ProfileStates
  BY DEF Sound, ProfileStates, Observed, Compensated
<1>2. Good(t) /\ t.pending_action = "none"
  BY DEF Sound, ProfileStates, Good, OwnershipSound, OutageSound, IntentSound,
         StartActions, Compensated
<1> QED
  BY <1>1, <1>2 DEF Settled, Sound

(* A failed resumption is sound for stops and starts. *)
LEMMA ResumeFailedSettled ==
    ASSUME NEW s, Sound(s), NEW act
    PROVE  Settled(ResumeFailed(s, act))
<1> DEFINE t == ResumeFailed(s, act)
<1>1. t \in ProfileStates
  BY DEF Sound, ProfileStates, Observed, ResumeFailed, Suspend
<1>2. Good(t) /\ t.pending_action = "none"
  BY DEF Sound, ProfileStates, Good, OwnershipSound, OutageSound, IntentSound,
         Owned, StartActions, ResumeFailed, Suspend
<1> QED
  BY <1>1, <1>2 DEF Settled, Sound

(* _reconcile_service keeps the health fields and the absence of intents. *)
LEMMA ReconcileServiceSettled ==
    ASSUME NEW s, Settled(s), NEW a \in BOOLEAN
    PROVE  Settled(ReconcileService(s, a))
<1> DEFINE t == SeeService(s, a)
<1>1. Settled(t)
  BY SeeServiceSound DEF Settled
<1>2. Settled([t EXCEPT !.manual_override = TRUE])
  <2> HIDE DEF t
  <2> QED
    BY <1>1 DEF Settled, Sound, ProfileStates, Good, OwnershipSound, OutageSound,
       IntentSound, Owned, StartActions
<1>3. Settled([t EXCEPT !.stopped_by_watchdog = FALSE,
                        !.stopped_by_maintenance = FALSE,
                        !.manual_override = TRUE])
  <2> HIDE DEF t
  <2>1. [t EXCEPT !.stopped_by_watchdog = FALSE,
                  !.stopped_by_maintenance = FALSE,
                  !.manual_override = TRUE] \in ProfileStates
    BY <1>1 DEF Settled, Sound, ProfileStates
  <2> QED
    BY <1>1, <2>1 DEF Settled, Sound, ProfileStates, Good, OwnershipSound, OutageSound,
       IntentSound, StartActions
<1> QED
  BY <1>1, <1>2, <1>3 DEF ReconcileService

(* Noting a check result is sound when no intent is pending. *)
LEMMA NotedSettled ==
    ASSUME NEW s, Settled(s), NEW r \in CheckStatuses
    PROVE  Settled([s EXCEPT !.check_status = r])
BY DEF Settled, Sound, ProfileStates, Good, OwnershipSound, OutageSound,
       IntentSound, Owned, StartActions

(* Entering maintenance and re-arming only widen what Good allows. *)
LEMMA EnteredSettled ==
    ASSUME NEW s, Settled(s)
    PROVE  Settled([s EXCEPT !.maintenance = TRUE])
BY DEF Settled, Sound, ProfileStates, Good, OwnershipSound, OutageSound,
       IntentSound, Owned, StartActions

(* Re-arming a profile takes no authorisation away. *)
LEMMA RearmedSound ==
    ASSUME NEW s, Sound(s)
    PROVE  Sound([s EXCEPT !.manual_override = FALSE])
BY ZenonT(40) DEF Sound, ProfileStates, Good, OwnershipSound, OutageSound, IntentSound, Owned

(* Both exits from maintenance drop every owner. *)
LEMMA ExitedSettled ==
    ASSUME NEW s, Settled(s), NEW a \in BOOLEAN
    PROVE  Settled(ExitedWithStart(s)) /\ Settled(ExitedNoStart(s, a))
<1>1. Settled(ExitedWithStart(s))
  <2> DEFINE t == ExitedWithStart(s)
  <2>1. t \in ProfileStates
    BY DEF Settled, Sound, ProfileStates, Observed, ExitedWithStart
  <2>2. Good(t) /\ t.pending_action = "none"
    BY DEF Settled, Sound, ProfileStates, Good, OwnershipSound, OutageSound,
           IntentSound, StartActions, ExitedWithStart
  <2> QED
    BY <2>1, <2>2 DEF Settled, Sound
<1>2. Settled(ExitedNoStart(s, a))
  <2> DEFINE t == ExitedNoStart(s, a)
  <2>1. t \in ProfileStates
    BY DEF Settled, Sound, ProfileStates, Observed, ExitedNoStart
  <2>2. Good(t) /\ t.pending_action = "none"
    BY DEF Settled, Sound, ProfileStates, Good, OwnershipSound, OutageSound,
           IntentSound, StartActions, ExitedNoStart
  <2> QED
    BY <2>1, <2>2 DEF Settled, Sound
<1> QED
  BY <1>1, <1>2

-----------------------------------------------------------------------------
(* The health machine.                                                     *)

(* A capped count stays within its threshold. *)
LEMMA CapInRange ==
    ASSUME NEW limit \in Nat \ {0}, NEW n \in 0..limit
    PROVE  CapAt(n + 1, limit) \in 1..limit
BY DEF CapAt

(* Counting a success opens a recovery only from down, and sets its        *)
(* deadline only at the success threshold.                                 *)
LEMMA CountSuccessSound ==
    ASSUME NEW s, Settled(s)
    PROVE  /\ Settled(CountSuccess(s))
           /\ CountSuccess(s).check_status = s.check_status
<1> DEFINE t == CountSuccess(s)
           n == CapAt(s.success_count + 1, SuccessThreshold)
<1>1. n \in 1..SuccessThreshold
  BY ThresholdAssumption, CapInRange DEF Settled, Sound, ProfileStates
<1>2. t \in ProfileStates
  <2> DEFINE count == IF s.health_state = "down" THEN 1 ELSE n
             health == IF s.health_state \in {"down", "recovering"}
                       THEN "recovering" ELSE "healthy"
             armed == \/ s.health_state \in {"down", "recovering"} /\ count >= SuccessThreshold
                      \/ s.recovery_armed /\ s.health_state # "down"
  <2>1. count \in 0..SuccessThreshold /\ 0 \in 0..FailureThreshold
    BY <1>1, ThresholdAssumption
  <2>2. health \in HealthStates
    BY DEF HealthStates
  <2>3. armed \in BOOLEAN
    OBVIOUS
  <2>4. t = [s EXCEPT !.failure_count = 0, !.success_count = count,
                      !.health_state = health, !.recovery_armed = armed]
    BY DEF CountSuccess
  <2> HIDE DEF count, health, armed, t, n
  <2> QED
    BY <2>1, <2>2, <2>3, <2>4 DEF Settled, Sound, ProfileStates
<1>3. /\ t.failure_count = 0
      /\ t.success_count \in 1..SuccessThreshold
      /\ t.pending_action = "none"
      /\ t.outage_open = s.outage_open
      /\ t.check_status = s.check_status
      /\ t.stopped_by_watchdog = s.stopped_by_watchdog
      /\ t.stopped_by_maintenance = s.stopped_by_maintenance
      /\ t.maintenance = s.maintenance
  BY <1>1, ThresholdAssumption DEF Settled, Sound, ProfileStates, CountSuccess
<1>4. /\ t.health_state = IF s.health_state \in {"down", "recovering"}
                          THEN "recovering" ELSE "healthy"
      /\ t.recovery_armed => t.health_state = "recovering"
      /\ t.recovery_armed => t.success_count = SuccessThreshold
  <2>1. s.recovery_armed => s.health_state = "recovering" /\ s.success_count = SuccessThreshold
    BY DEF Settled, Sound, Good, OutageSound
  <2>2. s.success_count = SuccessThreshold => n = SuccessThreshold
    BY ThresholdAssumption DEF CapAt
  <2> QED
    BY <1>1, <2>1, <2>2, ThresholdAssumption DEF Settled, Sound, ProfileStates, CountSuccess
<1>5. Good(t)
  BY <1>3, <1>4 DEF Settled, Sound, Good, OwnershipSound, OutageSound, IntentSound, StartActions
<1> QED
  BY <1>2, <1>3, <1>5 DEF Settled, Sound

(* A completed recovery closes the outage it belongs to. *)
LEMMA SuccessfulCheckSettled ==
    ASSUME NEW s, Settled(s), NEW elapsed \in BOOLEAN
    PROVE  /\ Settled(SuccessfulCheck(s, elapsed))
           /\ SuccessfulCheck(s, elapsed).check_status = s.check_status
<1> DEFINE t == CountSuccess(s)
<1>1. Settled(t) /\ t.check_status = s.check_status
  BY CountSuccessSound
<1>2. Settled(Recovered(t)) /\ Recovered(t).check_status = t.check_status
  <2> HIDE DEF t
  <2>1. Recovered(t) \in ProfileStates
    BY <1>1 DEF Settled, Sound, ProfileStates, Recovered, HealthStates
  <2> QED
    BY <1>1, <2>1 DEF Settled, Sound, ProfileStates, Recovered, Good, OwnershipSound,
                      OutageSound, IntentSound, StartActions
<1> QED
  BY <1>1, <1>2 DEF SuccessfulCheck

(* A failed check opens the outage exactly when it moves to down. *)
LEMMA FailedCheckSettled ==
    ASSUME NEW s, Settled(s)
    PROVE  /\ Settled(FailedCheck(s))
           /\ FailedCheck(s).failure_count >= FailureThreshold =>
                 FailedCheck(s).failure_count = FailureThreshold
           /\ FailedCheck(s).failure_count >= FailureThreshold
                 => FailedCheck(s).health_state = "down"
<1> DEFINE t == FailedCheck(s)
           n == CapAt(s.failure_count + 1, FailureThreshold)
<1>1. n \in 1..FailureThreshold
  BY ThresholdAssumption, CapInRange DEF Settled, Sound, ProfileStates
<1>2. t \in ProfileStates
  <2> DEFINE failed == [s EXCEPT !.success_count = 0,
                                 !.failure_count = n,
                                 !.recovery_armed = FALSE]
  <2>1. failed \in ProfileStates
    <3>1. n \in 0..FailureThreshold /\ 0 \in 0..SuccessThreshold
      BY <1>1, ThresholdAssumption
    <3> HIDE DEF n
    <3> QED
      BY <3>1 DEF Settled, Sound, ProfileStates
  <2>2. /\ [failed EXCEPT !.health_state = "down"] \in ProfileStates
        /\ [failed EXCEPT !.health_state = "down", !.outage_open = TRUE] \in ProfileStates
        /\ [failed EXCEPT !.health_state = "degraded"] \in ProfileStates
    <3> HIDE DEF failed
    <3> QED
      BY <2>1 DEF ProfileStates, HealthStates
  <2> QED
    BY <2>1, <2>2 DEF FailedCheck
<1>3. /\ t.failure_count = n
      /\ t.success_count = 0
      /\ t.recovery_armed = FALSE
      /\ t.pending_action = "none"
      /\ t.stopped_by_watchdog = s.stopped_by_watchdog
      /\ t.stopped_by_maintenance = s.stopped_by_maintenance
      /\ t.maintenance = s.maintenance
  BY <1>1 DEF Settled, Sound, ProfileStates, FailedCheck
<1>4. /\ t.outage_open <=> t.health_state \in {"down", "recovering"}
      /\ t.health_state # "recovering"
      /\ n >= FailureThreshold => t.health_state = "down"
  BY <1>1 DEF Settled, Sound, ProfileStates, FailedCheck, Good, OutageSound, HealthStates
<1>5. Good(t)
  BY <1>1, <1>3, <1>4, ThresholdAssumption
  DEF Settled, Sound, Good, OwnershipSound, OutageSound, IntentSound, StartActions
<1> QED
  BY <1>1, <1>2, <1>3, <1>4, <1>5, ThresholdAssumption DEF Settled, Sound

-----------------------------------------------------------------------------
(* Intents.                                                                *)

(* The intent a check leads to is authorised by the record it is saved in. *)
LEMMA CheckIntentSound ==
    ASSUME NEW s, Settled(s), NEW elapsed \in BOOLEAN, NEW md, NEW t,
           s.check_status \in {"success", "unreachable"},
           t = IF s.check_status = "success" THEN SuccessfulCheck(s, elapsed)
                                             ELSE FailedCheck(s),
           t.check_status = s.check_status,
           CheckIntent(s, t, md) # "none"
    PROVE  /\ Sound(WithIntent(t, CheckIntent(s, t, md)))
           /\ CheckIntent(s, t, md) \in PendingActions
           /\ WithIntent(t, CheckIntent(s, t, md)).pending_action = CheckIntent(s, t, md)
<1>1. Settled(t)
  BY SuccessfulCheckSettled, FailedCheckSettled
<1>2. CASE s.check_status = "success"
  <2>1. CheckIntent(s, t, md) = "start_watchdog" /\ WantsStart(s, t, md)
    BY <1>2 DEF CheckIntent
  <2>2. /\ t.health_state = "healthy" /\ t.stopped_by_watchdog
        /\ ~t.maintenance /\ ~t.manual_override
    BY <2>1 DEF WantsStart, AutoAllowed
  <2> QED
    BY <1>1, <1>2, <2>1, <2>2
    DEF Settled, Sound, ProfileStates, WithIntent, PendingActions, StartActions,
        StopActions, Good, OwnershipSound, OutageSound, IntentSound, Owned
<1>3. CASE s.check_status # "success"
  <2>1. CheckIntent(s, t, md) = "stop_watchdog" /\ WantsStop(s, t, md)
    BY <1>3 DEF CheckIntent
  <2>2. ~t.maintenance /\ ~t.manual_override /\ t.failure_count >= FailureThreshold
    BY <2>1 DEF WantsStop, AutoAllowed
  <2>3. t.health_state = "down" /\ t.failure_count = FailureThreshold
    BY <1>3, <2>2, FailedCheckSettled
  <2> QED
    BY <1>1, <2>1, <2>2, <2>3
    DEF Settled, Sound, ProfileStates, WithIntent, PendingActions, StartActions,
        StopActions, Good, OwnershipSound, OutageSound, IntentSound, Owned
<1> QED
  BY <1>2, <1>3

(* The intents of the administration commands are authorised. *)
LEMMA AdminIntentSound ==
    ASSUME NEW s
    PROVE  /\ Settled(s) /\ s.maintenance =>
                Sound(WithIntent(s, "stop_maintenance"))
           /\ Settled(s) /\ s.health_state = "healthy" /\ Owned(s) =>
                Sound(WithIntent(s, "start_maintenance"))
           /\ Sound(s) /\ s.health_state = "healthy" /\ s.check_status = "success"
                /\ s.stopped_by_watchdog => Sound(WithIntent(s, "start_operator"))
BY DEF Settled, Sound, ProfileStates, WithIntent, PendingActions, StartActions,
       StopActions, Good, OwnershipSound, OutageSound, IntentSound, Owned

-----------------------------------------------------------------------------
(* Processes *)

(* Points at which the copy holds the intent being carried out. *)
CarryingPoints == {"intent", "query", "act", "resume_query", "resume_act"}

(* Points at which the copy holds no intent. *)
SettledPoints == {"commit", "recommit", "compensate", "refuse", "resume_save", "evaluate"}

(* What is true of a process at point at, running o, with copy s and       *)
(* service action a.                                                       *)
LocalOK(at, o, s, a) ==
    /\ Sound(s)
    /\ at \in CarryingPoints => a \in PendingActions /\ s.pending_action = a
    /\ at \in SettledPoints => s.pending_action = "none"
    /\ at = "decide" /\ o # "rearm" => s.pending_action = "none"
    /\ at = "evaluate" => o = "process"

(* The inductive invariant. *)
IInv ==
    /\ TypeOK
    /\ Sound(row)
    /\ \A p \in Processes : LocalOK(pc[p], op[p], st[p], action[p])
    /\ op["daemon"] = "process" => result \in ProbeStatuses

(* What the shared state keeps satisfying. *)
SharedOK ==
    /\ Sound(row)
    /\ mode \in Modes
    /\ active \in BOOLEAN
    /\ upstream \in BOOLEAN
    /\ stopper \in {"nobody", "watchdog", "maintenance", "operator"}

-----------------------------------------------------------------------------
(* The three ways a process moves keep IInv if its new copy is right.      *)

(* A process that goes on with a sound copy keeps IInv. *)
LEMMA GotoOK ==
    ASSUME IInv, NEW p \in Processes, NEW next \in Points, NEW s,
           LocalOK(next, op[p], s, action[p]), Goto(p, next, s), SharedOK'
    PROVE  IInv'
<1>1. s \in ProfileStates
  BY DEF LocalOK, Sound
<1>2. TypeOK'
  BY <1>1 DEF IInv, TypeOK, Goto, SharedOK, Sound
<1>3. \A q \in Processes : LocalOK(pc'[q], op'[q], st'[q], action'[q])
  BY DEF IInv, TypeOK, Goto
<1> QED
  BY <1>2, <1>3 DEF IInv, SharedOK, Goto

(* A process that returns, fails or dies forgets its copy and keeps IInv. *)
LEMMA LeaveOK ==
    ASSUME IInv, NEW p \in Processes, Leave(p), SharedOK'
    PROVE  IInv'
<1>1. TypeOK'
  BY FreshSettled DEF IInv, TypeOK, Leave, SharedOK, Settled, Sound, Points, Modes, CheckStatuses
<1>2. LocalOK("idle", "none", FreshState, "none")
  BY FreshSettled DEF LocalOK, Settled, CarryingPoints, SettledPoints
<1>3. \A q \in Processes : LocalOK(pc'[q], op'[q], st'[q], action'[q])
  BY <1>2 DEF IInv, TypeOK, Leave
<1>4. (op["daemon"] = "process" => result \in ProbeStatuses)'
  BY DEF IInv, TypeOK, Leave, Processes
<1> QED
  BY <1>1, <1>3, <1>4 DEF IInv, SharedOK

(* A copy that authorises its intent may go to the intent's save. *)
LEMMA BeginOK ==
    ASSUME IInv, NEW p \in Processes, NEW act \in PendingActions, NEW s,
           Sound(WithIntent(s, act)), WithIntent(s, act).pending_action = act,
           Begin(p, act, s), SharedOK'
    PROVE  IInv'
<1> DEFINE t == WithIntent(s, act)
<1>1. LocalOK("intent", op[p], t, act)
  BY DEF LocalOK, CarryingPoints, SettledPoints
<1>2. t \in ProfileStates
  BY DEF Sound
<1>3. /\ pc' = [pc EXCEPT ![p] = "intent"]
      /\ st' = [st EXCEPT ![p] = t]
      /\ action' = [action EXCEPT ![p] = act]
      /\ UNCHANGED <<op, snap, result, resumed>>
  BY DEF Begin
<1> HIDE DEF t
<1>4. TypeOK'
  BY <1>2, <1>3 DEF IInv, TypeOK, SharedOK, Sound, Points
<1>5. \A q \in Processes : LocalOK(pc'[q], op'[q], st'[q], action'[q])
  BY <1>1, <1>3 DEF IInv, TypeOK
<1> QED
  BY <1>3, <1>4, <1>5 DEF IInv, SharedOK

(* Steps that leave the shared state alone, save a copy, or run a command. *)
LEMMA SharedSteps ==
    ASSUME IInv, NEW p \in Processes
    PROVE  /\ UNCHANGED <<row, mode, active, upstream, stopper>> => SharedOK'
           /\ UNCHANGED <<row, world>> => SharedOK'
           /\ Save(p) => SharedOK'
           /\ SaveFails => SharedOK'
           /\ \A act : CommandSucceeds(act) => SharedOK'
           /\ \A act : CommandFails(act) => SharedOK'
<1>1. SharedOK
  BY DEF IInv, SharedOK, TypeOK
<1>2. Sound(st[p])
  BY DEF IInv, LocalOK
<1>3. \A act : CommandSucceeds(act) => SharedOK'
  BY <1>1 DEF SharedOK, CommandSucceeds
<1> QED
  BY <1>1, <1>2, <1>3 DEF SharedOK, world, Save, SaveFails, CommandFails

-----------------------------------------------------------------------------
(* The durable actions, by either process.                                 *)

(* reconcile_pending asks systemd whether the action is already done. *)
LEMMA ResumeQueryOK ==
    ASSUME IInv, NEW p \in Processes, ResumeQuery(p)
    PROVE  IInv'
<1> DEFINE act == action[p]
           seen == SeeService(st[p], active)
<1>1. /\ Sound(st[p]) /\ act \in PendingActions /\ st[p].pending_action = act
      /\ active \in BOOLEAN
  BY DEF IInv, TypeOK, LocalOK, CarryingPoints, ResumeQuery
<1>2. Sound(seen) /\ seen.pending_action = act
  BY <1>1, SeeServiceSound
<1>3. SharedOK'
  BY SharedSteps DEF ResumeQuery
<1>4. CASE Goto(p, "resume_save", Suspend([st[p] EXCEPT !.service_checked = TRUE]))
  <2>1. LocalOK("resume_save", op[p], Suspend([st[p] EXCEPT !.service_checked = TRUE]), act)
    BY <1>1, SuspendSettled DEF LocalOK, Settled, CarryingPoints, SettledPoints
  <2> QED
    BY <1>3, <1>4, <2>1, GotoOK DEF Points
<1>5. CASE Goto(p, "resume_act", seen)
  <2>1. LocalOK("resume_act", op[p], seen, act)
    BY <1>1, <1>2 DEF LocalOK, CarryingPoints, SettledPoints
  <2> QED
    BY <1>3, <1>5, <2>1, GotoOK DEF Points
<1>6. CASE act \in StopActions /\ Goto(p, "resume_save", ResumedStop(seen, act))
  <2>1. LocalOK("resume_save", op[p], ResumedStop(seen, act), act)
    BY <1>2, <1>6, StoppedSettled DEF LocalOK, Settled, CarryingPoints, SettledPoints
  <2> QED
    BY <1>3, <1>6, <2>1, GotoOK DEF Points
<1>7. CASE Goto(p, "resume_save", ResumedStart(seen, act))
  <2>1. LocalOK("resume_save", op[p], ResumedStart(seen, act), act)
    BY <1>2, StartedSettled DEF LocalOK, Settled, CarryingPoints, SettledPoints
  <2> QED
    BY <1>3, <1>7, <2>1, GotoOK DEF Points
<1> QED
  BY <1>4, <1>5, <1>6, <1>7 DEF ResumeQuery

(* reconcile_pending runs the resumed command. *)
LEMMA ResumeActOK ==
    ASSUME IInv, NEW p \in Processes, ResumeAct(p)
    PROVE  IInv'
<1> DEFINE act == action[p]
           done == IF act \in StopActions THEN ResumedStop(st[p], act)
                                          ELSE ResumedStart(st[p], act)
<1>1. Sound(st[p]) /\ act \in PendingActions /\ st[p].pending_action = act
  BY DEF IInv, LocalOK, CarryingPoints, ResumeAct
<1>2. SharedOK'
  BY SharedSteps DEF ResumeAct
<1>3. Settled(done) /\ Settled(ResumeFailed(st[p], act))
  BY <1>1, StoppedSettled, StartedSettled, ResumeFailedSettled
<1>4. \A s : Settled(s) => LocalOK("resume_save", op[p], s, act)
  BY DEF LocalOK, Settled, CarryingPoints, SettledPoints
<1>5. Goto(p, "resume_save", done) \/ Goto(p, "resume_save", ResumeFailed(st[p], act))
  BY DEF ResumeAct
<1>6. LocalOK("resume_save", op[p], done, act)
  BY <1>3, <1>4
<1>7. LocalOK("resume_save", op[p], ResumeFailed(st[p], act), act)
  BY <1>3, <1>4
<1> HIDE DEF done
<1> QED
  BY <1>2, <1>5, <1>6, <1>7, GotoOK DEF Points

(* reconcile_pending saves its outcome and the caller goes on. *)
LEMMA ResumeSaveOK ==
    ASSUME IInv, NEW p \in Processes, ResumeSave(p)
    PROVE  IInv'
<1>1. Sound(st[p]) /\ st[p].pending_action = "none" /\ st[p] \in ProfileStates
  BY DEF IInv, LocalOK, SettledPoints, ResumeSave, Sound
<1>2. SharedOK'
  BY SharedSteps DEF ResumeSave
<1>3. CASE Leave(p)
  BY <1>2, <1>3, LeaveOK
<1>4. CASE ContinueAfterResume(p) /\ NextAfterResume(p) # "idle"
  <2> DEFINE next == NextAfterResume(p)
             s == IF op[p] = "reconcile" THEN FreshState ELSE st[p]
  <2>1. next \in {"probe", "evaluate", "decide"} /\ (next = "evaluate" => op[p] = "process")
    BY <1>4 DEF NextAfterResume
  <2>2. Settled(s)
    BY <1>1, FreshSettled DEF Settled
  <2>3. LocalOK(next, op[p], s, "none")
    BY <2>1, <2>2 DEF LocalOK, Settled, CarryingPoints
  <2>4. /\ pc' = [pc EXCEPT ![p] = next]
        /\ st' = [st EXCEPT ![p] = s]
        /\ action' = [action EXCEPT ![p] = "none"]
        /\ resumed' = (resumed \/ op[p] = "process")
        /\ UNCHANGED <<op, snap, result>>
    BY <1>4 DEF ContinueAfterResume
  <2>5. resumed' \in BOOLEAN
    BY <2>4
  <2> HIDE DEF next, s
  <2>6. TypeOK'
    BY <1>2, <2>1, <2>2, <2>4, <2>5 DEF IInv, TypeOK, SharedOK, Settled, Sound, Points
  <2>7. \A q \in Processes : LocalOK(pc'[q], op'[q], st'[q], action'[q])
    BY <2>3, <2>4 DEF IInv, TypeOK
  <2> QED
    BY <1>2, <2>4, <2>6, <2>7 DEF IInv, SharedOK
<1> QED
  BY <1>3, <1>4 DEF ResumeSave, ContinueAfterResume

(* stop and start save the intent before anything else. *)
LEMMA SaveIntentOK ==
    ASSUME IInv, NEW p \in Processes, SaveIntent(p)
    PROVE  IInv'
<1>1. LocalOK("query", op[p], st[p], action[p])
  BY DEF IInv, LocalOK, CarryingPoints, SettledPoints, SaveIntent
<1>2. SharedOK'
  BY SharedSteps DEF SaveIntent
<1> QED
  BY <1>1, <1>2, GotoOK, LeaveOK DEF SaveIntent, Points

(* stop and start ask systemd and refuse an unexpected service state. *)
LEMMA QueryOK ==
    ASSUME IInv, NEW p \in Processes, Query(p)
    PROVE  IInv'
<1> DEFINE act == action[p]
           seen == SeeService(st[p], active)
<1>1. /\ Sound(st[p]) /\ act \in PendingActions /\ st[p].pending_action = act
      /\ active \in BOOLEAN
  BY DEF IInv, TypeOK, LocalOK, CarryingPoints, Query
<1>2. Sound(seen) /\ seen.pending_action = act
  BY <1>1, SeeServiceSound
<1>3. SharedOK'
  BY SharedSteps DEF Query
<1>4. CASE Goto(p, "act", seen)
  <2>1. LocalOK("act", op[p], seen, act)
    BY <1>1, <1>2 DEF LocalOK, CarryingPoints, SettledPoints
  <2> QED
    BY <1>3, <1>4, <2>1, GotoOK DEF Points
<1>5. CASE Goto(p, "refuse", Suspend(seen))
  <2>1. LocalOK("refuse", op[p], Suspend(seen), act)
    BY <1>2, SuspendSettled DEF LocalOK, Settled, CarryingPoints, SettledPoints
  <2> QED
    BY <1>3, <1>5, <2>1, GotoOK DEF Points
<1>6. CASE Goto(p, "commit", Started(seen))
  <2>1. LocalOK("commit", op[p], Started(seen), act)
    BY <1>2, StartedSettled DEF LocalOK, Settled, CarryingPoints, SettledPoints
  <2> QED
    BY <1>3, <1>6, <2>1, GotoOK DEF Points
<1> QED
  BY <1>3, <1>4, <1>5, <1>6, LeaveOK DEF Query

(* stop and start run the systemd command. *)
LEMMA ActOK ==
    ASSUME IInv, NEW p \in Processes, Act(p)
    PROVE  IInv'
<1> DEFINE act == action[p]
           done == IF act \in StopActions THEN Stopped(st[p], act) ELSE Started(st[p])
<1>1. Sound(st[p]) /\ act \in PendingActions /\ st[p].pending_action = act
  BY DEF IInv, LocalOK, CarryingPoints, Act
<1>2. SharedOK'
  BY SharedSteps DEF Act
<1>3. Settled(done) /\ Settled(Suspend(st[p]))
  BY <1>1, StoppedSettled, StartedSettled, SuspendSettled
<1>4. LocalOK("commit", op[p], done, act) /\ LocalOK("refuse", op[p], Suspend(st[p]), act)
  BY <1>3 DEF LocalOK, Settled, CarryingPoints, SettledPoints
<1>5. Goto(p, "commit", done) \/ Goto(p, "refuse", Suspend(st[p]))
  BY DEF Act
<1> HIDE DEF done
<1> QED
  BY <1>2, <1>4, <1>5, GotoOK DEF Points

(* The two ways an action returns to its caller. *)
LEMMA ReturnOK ==
    ASSUME IInv, NEW p \in Processes, Settled(st[p]), SharedOK',
           ReturnTrue(p) \/ ReturnFalse(p)
    PROVE  IInv'
<1>1. Settled(ExitedWithStart(st[p]))
  BY ExitedSettled
<1>2. /\ LocalOK("final", op[p], st[p], action[p])
      /\ LocalOK("write_mode", op[p], st[p], action[p])
      /\ LocalOK("final", op[p], ExitedWithStart(st[p]), action[p])
  BY <1>1 DEF LocalOK, Settled, CarryingPoints, SettledPoints
<1>3. \/ Goto(p, "final", ExitedWithStart(st[p]))
      \/ Goto(p, "write_mode", st[p])
      \/ Goto(p, "final", st[p])
      \/ Leave(p)
  BY DEF ReturnTrue, ReturnFalse
<1> QED
  BY <1>2, <1>3, GotoOK, LeaveOK DEF Points

(* The saves after the command, the retry and the compensating start. *)
LEMMA CommitOK ==
    ASSUME IInv, NEW p \in Processes,
           Commit(p) \/ Recommit(p) \/ Compensate(p) \/ Refuse(p) \/ Final(p)
    PROVE  IInv'
<1>1. SharedOK'
  BY SharedSteps DEF Commit, Recommit, Compensate, Refuse, Final
<1>2. CASE Final(p)
  BY <1>1, <1>2, LeaveOK DEF Final
<1>3. CASE pc[p] \in {"commit", "recommit", "compensate", "refuse"}
  <2>1. Settled(st[p]) /\ Settled(Compensated(st[p]))
    BY <1>3, CompensatedSettled DEF IInv, LocalOK, SettledPoints, Settled
  <2>2. /\ LocalOK("compensate", op[p], st[p], action[p])
        /\ LocalOK("recommit", op[p], st[p], action[p])
        /\ LocalOK("refuse", op[p], Compensated(st[p]), action[p])
    BY <2>1 DEF LocalOK, Settled, CarryingPoints, SettledPoints
  <2>3. \/ ReturnTrue(p) \/ ReturnFalse(p)
        \/ Goto(p, "compensate", st[p]) \/ Goto(p, "recommit", st[p])
        \/ Goto(p, "refuse", Compensated(st[p]))
        \/ Leave(p)
    BY DEF Commit, Recommit, Compensate, Refuse, Final
  <2> QED
    BY <1>1, <2>1, <2>2, <2>3, ReturnOK, GotoOK, LeaveOK DEF Points
<1> QED
  BY <1>2, <1>3 DEF Commit, Recommit, Compensate, Refuse

-----------------------------------------------------------------------------
(* The daemon.                                                             *)

(* Reading the row at the start of an operation, or between two. *)
LEMMA ReadRowOK ==
    ASSUME IInv, NEW p \in Processes, NEW next \in {"probe", "evaluate", "decide"},
           ReadRow(p, next), SharedOK',
           NEW o, op' = [op EXCEPT ![p] = o], o \in AdminOps \cup DaemonOps \cup {"none"},
           next = "evaluate" => o = "process",
           snap' \in [Processes -> Modes], result' \in CheckStatuses, resumed' \in BOOLEAN,
           (op["daemon"] = "process" => result \in ProbeStatuses)'
    PROVE  IInv'
<1>1. Sound(row) /\ row \in ProfileStates
  BY DEF IInv, Sound
<1>2. CASE row.pending_action # "none"
  <2>1. row.pending_action \in PendingActions
    BY <1>1, <1>2 DEF ProfileStates
  <2>2. LocalOK("resume_query", o, row, row.pending_action)
    BY <1>1, <2>1 DEF LocalOK, CarryingPoints, SettledPoints
  <2>3. /\ pc' = [pc EXCEPT ![p] = "resume_query"]
        /\ st' = [st EXCEPT ![p] = row]
        /\ action' = [action EXCEPT ![p] = row.pending_action]
    BY <1>2 DEF ReadRow
  <2>4. TypeOK'
    BY <1>1, <2>1, <2>3 DEF IInv, TypeOK, SharedOK, Sound, Points
  <2>5. \A q \in Processes : LocalOK(pc'[q], op'[q], st'[q], action'[q])
    BY <2>2, <2>3 DEF IInv, TypeOK
  <2> QED
    BY <2>4, <2>5 DEF IInv, SharedOK
<1>3. CASE row.pending_action = "none"
  <2> DEFINE s == IF next \in {"idle", "probe"} THEN FreshState ELSE row
  <2>1. Settled(s)
    BY <1>1, <1>3, FreshSettled DEF Settled
  <2>2. LocalOK(next, o, s, action[p])
    BY <2>1 DEF LocalOK, Settled, CarryingPoints
  <2>3. /\ pc' = [pc EXCEPT ![p] = next]
        /\ st' = [st EXCEPT ![p] = s]
        /\ action' = action
    BY <1>3 DEF ReadRow
  <2> HIDE DEF s
  <2>4. TypeOK'
    BY <2>1, <2>3 DEF IInv, TypeOK, SharedOK, Sound, Settled, Points
  <2>5. \A q \in Processes : LocalOK(pc'[q], op'[q], st'[q], action'[q])
    BY <2>2, <2>3 DEF IInv, TypeOK
  <2> QED
    BY <2>4, <2>5 DEF IInv, SharedOK
<1> QED
  BY <1>2, <1>3

(* The daemon begins a cycle with the mode it reads. *)
LEMMA LoadOK ==
    ASSUME IInv, Load
    PROVE  IInv'
<1>1. SharedOK'
  BY SharedSteps DEF Load, Processes
<1>2. TypeOK'
  BY <1>1 DEF IInv, TypeOK, Load, SharedOK, Sound, Points, DaemonOps
<1>3. Sound(st["daemon"])
  BY DEF IInv, LocalOK, Processes
<1>4. LocalOK("get", "reconcile", st["daemon"], action["daemon"])
  BY <1>3 DEF LocalOK, CarryingPoints, SettledPoints
<1>5. \A q \in Processes : LocalOK(pc'[q], op'[q], st'[q], action'[q])
  BY <1>4 DEF IInv, TypeOK, Load
<1>6. op'["daemon"] = "reconcile"
  BY DEF IInv, TypeOK, Load, Processes
<1> QED
  BY <1>1, <1>2, <1>5, <1>6 DEF IInv, SharedOK

(* The daemon reads the row to resume what is pending. *)
LEMMA GetOK ==
    ASSUME IInv, Get
    PROVE  IInv'
<1>1. SharedOK' /\ "daemon" \in Processes
  BY SharedSteps DEF Get, Processes
<1>2. CASE Leave("daemon")
  BY <1>1, <1>2, LeaveOK
<1>3. CASE ReadRow("daemon", "probe") /\ UNCHANGED <<op, snap, result, resumed>>
  <2>1. /\ op' = [op EXCEPT !["daemon"] = op["daemon"]]
        /\ op["daemon"] \in AdminOps \cup DaemonOps \cup {"none"}
    BY <1>1, <1>3 DEF IInv, TypeOK
  <2>2. /\ snap' \in [Processes -> Modes] /\ result' \in CheckStatuses
        /\ resumed' \in BOOLEAN
        /\ (op["daemon"] = "process" => result \in ProbeStatuses)'
    BY <1>3 DEF IInv, TypeOK
  <2> QED
    BY <1>1, <1>3, <2>1, <2>2, ReadRowOK
<1> QED
  BY <1>2, <1>3 DEF Get

(* The daemon pings and reads the row again. *)
LEMMA ProbeOK ==
    ASSUME IInv, Probe
    PROVE  IInv'
<1>1. SharedOK' /\ "daemon" \in Processes
  BY SharedSteps DEF Probe, Processes
<1>2. result' \in ProbeStatuses
  BY DEF Probe, ProbeStatuses
<1>3. /\ snap' \in [Processes -> Modes] /\ result' \in CheckStatuses
      /\ resumed' \in BOOLEAN
      /\ "process" \in AdminOps \cup DaemonOps \cup {"none"}
  BY <1>2 DEF Probe, IInv, TypeOK, CheckStatuses, DaemonOps
<1>4. op' = [op EXCEPT !["daemon"] = "process"] /\ ReadRow("daemon", "evaluate")
  BY DEF Probe
<1> QED
  BY <1>1, <1>2, <1>3, <1>4, ReadRowOK

(* The daemon evaluates a check: every new copy is sound and every new     *)
(* intent authorised.                                                      *)
LEMMA EvaluateOK ==
    ASSUME IInv, NEW recent \in BOOLEAN, NEW elapsed \in BOOLEAN, Evaluate(recent, elapsed)
    PROVE  IInv'
<1> DEFINE noted == [st["daemon"] EXCEPT !.check_status = result]
           before == ServiceCompared(noted, recent)
           checked == IF result = "success" THEN SuccessfulCheck(before, elapsed)
                                            ELSE FailedCheck(before)
           intent == CheckIntent(before, checked, snap["daemon"])
<1>1. SharedOK' /\ "daemon" \in Processes
  BY SharedSteps DEF Evaluate, Processes
<1>2. Settled(st["daemon"]) /\ result \in ProbeStatuses /\ active \in BOOLEAN
  BY <1>1 DEF IInv, TypeOK, LocalOK, SettledPoints, Settled, Evaluate
<1>3. Settled(noted) /\ noted.check_status = result
  BY <1>2, NotedSettled DEF CheckStatuses, Settled, Sound, ProfileStates
<1>4. Settled(before) /\ before.check_status = result
  <2>1. Settled(ReconcileService(noted, active))
    BY <1>2, <1>3, ReconcileServiceSettled
  <2>2. ReconcileService(noted, active).check_status = noted.check_status
    <3> HIDE DEF noted
    <3> QED
      BY <1>3 DEF Settled, Sound, ProfileStates, ReconcileService, SeeService
  <2> QED
    BY <1>3, <2>1, <2>2 DEF ServiceCompared
<1> HIDE DEF noted, before
<1>5. Settled(checked)
  BY <1>4, SuccessfulCheckSettled, FailedCheckSettled
<1>6. checked.check_status = before.check_status
  <2>1. FailedCheck(before).check_status = before.check_status
    BY <1>4 DEF Settled, Sound, ProfileStates, FailedCheck
  <2> QED
    BY <1>4, <2>1, SuccessfulCheckSettled
<1>7. CASE Goto("daemon", "final", noted)
  <2>1. LocalOK("final", op["daemon"], noted, action["daemon"])
    BY <1>3 DEF LocalOK, Settled, CarryingPoints, SettledPoints
  <2> QED
    BY <1>1, <1>7, <2>1, GotoOK DEF Points
<1>8. CASE Goto("daemon", "final", checked)
  <2>1. LocalOK("final", op["daemon"], checked, action["daemon"])
    BY <1>5 DEF LocalOK, Settled, CarryingPoints, SettledPoints
  <2> HIDE DEF checked
  <2> QED
    BY <1>1, <1>8, <2>1, GotoOK DEF Points
<1>9. CASE result # "probe_error" /\ intent # "none" /\ Begin("daemon", intent, checked)
  <2>1. before.check_status \in {"success", "unreachable"}
    BY <1>2, <1>4, <1>9 DEF ProbeStatuses
  <2>2. checked = IF before.check_status = "success" THEN SuccessfulCheck(before, elapsed)
                                                     ELSE FailedCheck(before)
    BY <1>4
  <2> HIDE DEF checked
  <2>3. /\ Sound(WithIntent(checked, intent)) /\ intent \in PendingActions
        /\ WithIntent(checked, intent).pending_action = intent
    BY <1>4, <1>6, <1>9, <2>1, <2>2, CheckIntentSound
  <2> HIDE DEF intent
  <2> QED
    BY <1>1, <1>9, <2>3, BeginOK
<1>10. \/ Goto("daemon", "final", noted)
       \/ Goto("daemon", "final", checked)
       \/ result # "probe_error" /\ intent # "none" /\ Begin("daemon", intent, checked)
  BY DEF Evaluate, noted, before
<1> QED
  BY <1>7, <1>8, <1>9, <1>10

-----------------------------------------------------------------------------
(* The administration command.                                             *)

(* apply reads the row. *)
LEMMA MaintenanceOK ==
    ASSUME IInv, NEW o \in MaintenanceOps, Maintenance(o)
    PROVE  IInv'
<1>1. SharedOK' /\ "admin" \in Processes
  BY SharedSteps DEF Maintenance, AdminBegins, Processes
<1>2. /\ op' = [op EXCEPT !["admin"] = o]
      /\ o \in AdminOps \cup DaemonOps \cup {"none"}
      /\ ReadRow("admin", "decide")
      /\ snap' \in [Processes -> Modes] /\ result' \in CheckStatuses
      /\ resumed' \in BOOLEAN
  BY DEF Maintenance, AdminBegins, AdminOps, IInv, TypeOK
<1>3. (op["daemon"] = "process" => result \in ProbeStatuses)'
  BY DEF Maintenance, AdminBegins, IInv, TypeOK, Processes
<1> QED
  BY <1>1, <1>2, <1>3, ReadRowOK

(* Rearm and SetMode take the row as it is; SetMode may add an intent. *)
LEMMA RearmOK ==
    ASSUME IInv, Rearm
    PROVE  IInv'
<1>1. SharedOK' /\ "admin" \in Processes
  BY SharedSteps DEF Rearm, AdminBegins, Processes
<1>2. LocalOK("decide", "rearm", row, action["admin"])
  BY DEF IInv, LocalOK, CarryingPoints, SettledPoints
<1>3. TypeOK'
  BY <1>1 DEF IInv, TypeOK, Rearm, AdminBegins, AdminOps, SharedOK, Sound, Points
<1>4. \A q \in Processes : LocalOK(pc'[q], op'[q], st'[q], action'[q])
  BY <1>2 DEF IInv, TypeOK, Rearm, AdminBegins
<1>5. (op["daemon"] = "process" => result \in ProbeStatuses)'
  BY DEF Rearm, AdminBegins, IInv, TypeOK, Processes
<1> QED
  BY <1>1, <1>3, <1>4, <1>5 DEF IInv, SharedOK

(* set-mode writes the mode, or starts an owned stop first. *)
LEMMA SetModeOK ==
    ASSUME IInv, NEW target \in Modes, NEW owned, SetMode(target, owned)
    PROVE  IInv'
<1> DEFINE t == WithIntent(row, "start_operator")
<1>1. SharedOK' /\ "admin" \in Processes
  BY SharedSteps DEF SetMode, AdminBegins, Processes
<1>2. Sound(row) /\ Sound(st["admin"])
  BY <1>1 DEF IInv, LocalOK
<1>3. /\ op' = [op EXCEPT !["admin"] = "set-mode"] /\ UNCHANGED <<result, resumed>>
      /\ snap' = [snap EXCEPT !["admin"] = target]
  BY DEF SetMode, AdminBegins
<1>4. (op["daemon"] = "process" => result \in ProbeStatuses)'
  BY <1>3 DEF IInv, TypeOK, Processes
<1>5. CASE /\ row.health_state = "healthy" /\ row.check_status = "success"
           /\ row.stopped_by_watchdog
           /\ pc' = [pc EXCEPT !["admin"] = "intent"]
           /\ st' = [st EXCEPT !["admin"] = t]
           /\ action' = [action EXCEPT !["admin"] = "start_operator"]
  <2>1. Sound(t) /\ t.pending_action = "start_operator"
    BY <1>2, <1>5, AdminIntentSound DEF Sound, ProfileStates, WithIntent
  <2>2. LocalOK("intent", "set-mode", t, "start_operator")
    BY <2>1 DEF LocalOK, CarryingPoints, SettledPoints, PendingActions, StartActions
  <2> HIDE DEF t
  <2>3. TypeOK'
    BY <1>1, <1>3, <1>5, <2>1
    DEF IInv, TypeOK, SharedOK, Sound, Points, AdminOps, PendingActions, StartActions
  <2>4. \A q \in Processes : LocalOK(pc'[q], op'[q], st'[q], action'[q])
    BY <1>3, <1>5, <2>2 DEF IInv, TypeOK
  <2> QED
    BY <1>1, <1>4, <2>3, <2>4 DEF IInv, SharedOK
<1>6. CASE pc' = [pc EXCEPT !["admin"] = "write_mode"] /\ UNCHANGED <<st, action>>
  <2>1. LocalOK("write_mode", "set-mode", st["admin"], action["admin"])
    BY <1>2 DEF LocalOK, CarryingPoints, SettledPoints
  <2>2. TypeOK'
    BY <1>1, <1>3, <1>6 DEF IInv, TypeOK, SharedOK, Sound, Points, AdminOps
  <2>3. \A q \in Processes : LocalOK(pc'[q], op'[q], st'[q], action'[q])
    BY <1>3, <1>6, <2>1 DEF IInv, TypeOK
  <2> QED
    BY <1>1, <1>4, <2>2, <2>3 DEF IInv, SharedOK
<1> QED
  BY <1>5, <1>6 DEF SetMode

(* The command decides from a fresh service state. *)
LEMMA DecideOK ==
    ASSUME IInv, Decide
    PROVE  IInv'
<1> DEFINE s == SeeService(st["admin"], active)
           o == op["admin"]
           entered == [s EXCEPT !.maintenance = TRUE]
           rearmed == [s EXCEPT !.manual_override = FALSE]
           a == action["admin"]
<1>1. SharedOK' /\ "admin" \in Processes
  BY SharedSteps DEF Decide, Processes
<1>2. Sound(st["admin"]) /\ active \in BOOLEAN
  BY <1>1 DEF IInv, TypeOK, LocalOK
<1>3. Sound(s) /\ s.pending_action = st["admin"].pending_action
  BY <1>2, SeeServiceSound
<1>4. o # "rearm" => Settled(s)
  BY <1>1, <1>3 DEF IInv, LocalOK, Decide, Settled
<1> HIDE DEF s
<1>5. o # "rearm" => /\ Settled(entered) /\ entered.maintenance
                     /\ Settled(ExitedNoStart(s, active)) /\ Settled(ExitedWithStart(s))
  BY <1>2, <1>4, EnteredSettled, ExitedSettled DEF Settled, Sound, ProfileStates
<1>6. Sound(rearmed)
  BY <1>3, RearmedSound
<1>7. \A t : Sound(t) => LocalOK("final", o, t, a)
  BY DEF LocalOK, CarryingPoints, SettledPoints
<1>8. \/ Leave("admin")
      \/ o # "rearm" /\ Goto("admin", "final", entered)
      \/ o # "rearm" /\ Begin("admin", "stop_maintenance", entered)
      \/ o # "rearm" /\ Goto("admin", "final", ExitedNoStart(s, active))
      \/ o # "rearm" /\ Goto("admin", "final", ExitedWithStart(s))
      \/ /\ o # "rearm" /\ s.health_state = "healthy" /\ Owned(s)
         /\ Begin("admin", "start_maintenance", s)
      \/ Goto("admin", "final", rearmed)
  BY DEF Decide, s
<1>9. CASE Leave("admin")
  BY <1>1, <1>9, LeaveOK
<1>10. CASE o # "rearm" /\ Goto("admin", "final", entered)
  <2>1. LocalOK("final", o, entered, a)
    BY <1>5, <1>7, <1>10 DEF Settled
  <2> HIDE DEF entered
  <2> QED
    BY <1>1, <1>10, <2>1, GotoOK DEF Points
<1>11. CASE o # "rearm" /\ Begin("admin", "stop_maintenance", entered)
  <2>1. Sound(WithIntent(entered, "stop_maintenance"))
    BY <1>5, <1>11, AdminIntentSound
  <2>2. WithIntent(entered, "stop_maintenance").pending_action = "stop_maintenance"
    BY <1>5, <1>11 DEF WithIntent, Settled, Sound, ProfileStates
  <2> HIDE DEF entered
  <2> QED
    BY <1>1, <1>11, <2>1, <2>2, BeginOK DEF PendingActions, StopActions
<1>12. CASE o # "rearm" /\ Goto("admin", "final", ExitedNoStart(s, active))
  <2>1. LocalOK("final", o, ExitedNoStart(s, active), a)
    BY <1>5, <1>7, <1>12 DEF Settled
  <2> QED
    BY <1>1, <1>12, <2>1, GotoOK DEF Points
<1>13. CASE o # "rearm" /\ Goto("admin", "final", ExitedWithStart(s))
  <2>1. LocalOK("final", o, ExitedWithStart(s), a)
    BY <1>5, <1>7, <1>13 DEF Settled
  <2> QED
    BY <1>1, <1>13, <2>1, GotoOK DEF Points
<1>14. CASE /\ o # "rearm" /\ s.health_state = "healthy" /\ Owned(s)
            /\ Begin("admin", "start_maintenance", s)
  <2>1. Sound(WithIntent(s, "start_maintenance"))
    BY <1>4, <1>14, AdminIntentSound
  <2>2. WithIntent(s, "start_maintenance").pending_action = "start_maintenance"
    BY <1>3 DEF WithIntent, Sound, ProfileStates
  <2> QED
    BY <1>1, <1>14, <2>1, <2>2, BeginOK DEF PendingActions, StartActions
<1>15. CASE Goto("admin", "final", rearmed)
  <2>1. LocalOK("final", o, rearmed, a)
    BY <1>6, <1>7
  <2> HIDE DEF rearmed
  <2> QED
    BY <1>1, <1>15, <2>1, GotoOK DEF Points
<1> QED
  BY <1>8, <1>9, <1>10, <1>11, <1>12, <1>13, <1>14, <1>15

-----------------------------------------------------------------------------
(* Steps that leave every process's memory alone, and stuttering. *)
LEMMA LocalsUnchangedOK ==
    ASSUME IInv, UNCHANGED locals, SharedOK'
    PROVE  IInv'
<1>1. TypeOK'
  BY DEF IInv, TypeOK, SharedOK, Sound, locals
<1> QED
  BY <1>1 DEF IInv, SharedOK, locals

(* The operator, the upstream, crashes and the mode file. *)
LEMMA EnvironmentOK ==
    ASSUME IInv,
           ResetProfile \/ OperatorStop \/ OperatorStart \/ UpstreamChanges \/ UNCHANGED vars
    PROVE  IInv'
<1>1. SharedOK
  BY DEF IInv, TypeOK, SharedOK
<1>2. SharedOK'
  BY <1>1 DEF SharedOK, ResetProfile, OperatorStop, OperatorStart, UpstreamChanges, vars, Modes
<1>3. UNCHANGED locals
  BY DEF ResetProfile, OperatorStop, OperatorStart, UpstreamChanges, vars, locals
<1> QED
  BY <1>2, <1>3, LocalsUnchangedOK

(* Operations that just end: crashes, a failed comparison, the mode file. *)
LEMMA EndingOK ==
    ASSUME IInv, EvaluateFails \/ WriteMode \/ (\E p \in Processes : Crash(p))
    PROVE  IInv'
<1>1. SharedOK
  BY DEF IInv, TypeOK, SharedOK
<1>2. CASE WriteMode
  <2>1. SharedOK'
    BY <1>1, <1>2 DEF SharedOK, WriteMode, IInv, TypeOK, Processes
  <2> QED
    BY <1>2, <2>1, LeaveOK DEF WriteMode, Processes
<1>3. CASE EvaluateFails \/ (\E p \in Processes : Crash(p))
  <2>1. SharedOK' /\ \E p \in Processes : Leave(p)
    BY <1>1, <1>3 DEF SharedOK, EvaluateFails, Crash, world, Processes
  <2> QED
    BY <2>1, LeaveOK
<1> QED
  BY <1>2, <1>3

-----------------------------------------------------------------------------

(* IInv is inductive. *)
THEOREM Inductive == IInv /\ [Next]_vars => IInv'
<1> SUFFICES ASSUME IInv, [Next]_vars PROVE IInv'
  OBVIOUS
<1>1. ASSUME NEW p \in Processes, ActionStep(p) PROVE IInv'
  BY <1>1, ResumeQueryOK, ResumeActOK, ResumeSaveOK, SaveIntentOK, QueryOK, ActOK, CommitOK
  DEF ActionStep
<1>2. CASE DaemonStep
  BY <1>1, <1>2, LoadOK, GetOK, ProbeOK, EvaluateOK, EndingOK DEF DaemonStep, Processes
<1>3. CASE AdminStep
  BY <1>1, <1>3, MaintenanceOK, RearmOK, SetModeOK, DecideOK, EndingOK, EnvironmentOK
  DEF AdminStep, Processes
<1>4. CASE OperatorStop \/ OperatorStart \/ UpstreamChanges \/ UNCHANGED vars
  BY <1>4, EnvironmentOK
<1>5. CASE \E p \in Processes : Crash(p)
  BY <1>5, EndingOK
<1> QED
  BY <1>2, <1>3, <1>4, <1>5 DEF Next

(* Every behaviour satisfies the inductive invariant. *)
THEOREM Invariance == Spec => []IInv
<1>1. Init => IInv
  <2> SUFFICES ASSUME Init PROVE IInv
    OBVIOUS
  <2>1. TypeOK
    BY FreshSettled
    DEF Init, TypeOK, Settled, Sound, Points, Modes, CheckStatuses
  <2>2. LocalOK("idle", "none", FreshState, "none")
    BY FreshSettled DEF LocalOK, Settled, CarryingPoints, SettledPoints
  <2> QED
    BY <2>1, <2>2, FreshSettled DEF Init, IInv, Settled, Processes
<1> QED
  BY <1>1, Inductive, PTL DEF Spec

(* The variables of the daemon, the command and the database row keep      *)
(* their types.                                                            *)
THEOREM TypeCorrect == Spec => []TypeOK
<1>1. IInv => TypeOK
  BY DEF IInv
<1> QED
  BY <1>1, Invariance, PTL

(* The saved row never gives a stop two owners, nor maintenance a stop     *)
(* outside maintenance, for all interleavings of daemon and commands.      *)
THEOREM OwnershipAlwaysConsistent == Spec => []OwnershipConsistent
<1>1. IInv => OwnershipConsistent
  BY DEF IInv, Sound, Good, OwnershipConsistent
<1> QED
  BY <1>1, Invariance, PTL

(* The saved row's outage bookkeeping always agrees with its health. *)
THEOREM OutageAlwaysConsistent == Spec => []OutageConsistent
<1>1. IInv => OutageConsistent
  BY DEF IInv, Sound, Good, OutageConsistent
<1> QED
  BY <1>1, Invariance, PTL

(* A saved intent is authorised by the row that holds it, for all          *)
(* interleavings, crashes and failed saves: a restart may carry it out.    *)
THEOREM PendingAlwaysAuthorised == Spec => []PendingAuthorised
<1>1. IInv => PendingAuthorised
  BY DEF IInv, Sound, Good, PendingAuthorised
<1> QED
  BY <1>1, Invariance, PTL

-----------------------------------------------------------------------------
(* Operations that do not overlap.                                         *)

(* Points between two operations: the process has no copy of the row. *)
QuietPoints == {"idle", "get", "probe"}

(* Points from which the copy may still be saved. *)
CopyPoints == Points \ (QuietPoints \cup {"write_mode"})

(* The Watchdog or maintenance has stopped the service. *)
OurStop == ~active /\ stopper \in {"watchdog", "maintenance"}

(* The record tells of a stop. *)
Remembers(s) == Owned(s) \/ s.pending_action # "none" \/ s.manual_override

(* What is true of a process at point at, running o, with copy s and       *)
(* service action a, while the row is r; ours says whether the service is  *)
(* down by our own stop.                                                   *)
CopyOK(at, o, s, a, r, ours) ==
    /\ at \in {"query", "act", "resume_query", "resume_act"} => r.pending_action = a
    /\ at \in CopyPoints /\ r.manual_override =>
          \/ s.manual_override
          \/ o \in {"rearm", "exit-start", "set-mode"}
          \/ a \in {"start_maintenance", "start_operator"}
    /\ at \in {"evaluate", "decide"} /\ r.manual_override => s.manual_override
    /\ at \in CopyPoints /\ ours => Remembers(s)
    /\ at \in {"commit", "recommit"} /\ a \in StartActions => ~ours
    /\ at \in {"intent", "query", "act", "commit", "recommit"} /\ o = "exit-start" =>
          a \in StartActions

(* The inductive invariant of operations that do not overlap: one process  *)
(* at a time has a copy, neither the row nor that copy forgets a stop, and *)
(* the row holds the intent of the action.                                 *)
SerialInv ==
    /\ \A p, q \in Processes : p # q => pc[p] \in QuietPoints \/ pc[q] \in QuietPoints
    /\ OurStop => Remembers(row)
    /\ \A p \in Processes : CopyOK(pc[p], op[p], st[p], action[p], row, OurStop)

(* What the durable actions write into the fields that tell of a stop. *)
LEMMA SuspendTells ==
    ASSUME NEW s \in ProfileStates, NEW act
    PROVE  /\ Suspend(s).manual_override
           /\ Suspend([s EXCEPT !.service_checked = TRUE]).manual_override
           /\ Compensated(s).manual_override
           /\ ResumeFailed(s, act).manual_override
BY DEF ProfileStates, Suspend, Compensated, ResumeFailed

(* A stop is owned, and an override stays. *)
LEMMA StoppedTells ==
    ASSUME NEW s \in ProfileStates, NEW act \in StopActions
    PROVE  /\ Owned(Stopped(s, act)) /\ Owned(ResumedStop(s, act))
           /\ s.manual_override => Stopped(s, act).manual_override
           /\ s.manual_override => ResumedStop(s, act).manual_override
BY DEF ProfileStates, Stopped, ResumedStop, Owned, StopActions

(* An observation of the service, a check result or the entry into         *)
(* maintenance tells nothing of a stop.                                    *)
LEMMA SeenTells ==
    ASSUME NEW s \in ProfileStates, NEW a, NEW c
    PROVE  /\ Remembers(s) => Remembers(SeeService(s, a))
           /\ SeeService(s, a).manual_override = s.manual_override
           /\ Remembers(s) => Remembers([s EXCEPT !.check_status = c])
           /\ [s EXCEPT !.check_status = c].manual_override = s.manual_override
           /\ Remembers(s) => Remembers([s EXCEPT !.maintenance = TRUE])
           /\ [s EXCEPT !.maintenance = TRUE].manual_override = s.manual_override
BY DEF ProfileStates, SeeService, Remembers, Owned

(* The comparison of the service forgets no stop of an inactive service,   *)
(* and no override.                                                        *)
LEMMA ReconciledTells ==
    ASSUME NEW s \in ProfileStates, NEW a \in BOOLEAN
    PROVE  /\ ~a /\ Remembers(s) => Remembers(ReconcileService(s, a))
           /\ s.manual_override => ReconcileService(s, a).manual_override
<1>1. CASE a /\ Owned(s)
  BY <1>1 DEF ProfileStates, ReconcileService, SeeService, Remembers, Owned
<1>2. CASE ~a
  BY <1>2 DEF ProfileStates, ReconcileService, SeeService, Remembers, Owned
<1>3. CASE a /\ ~Owned(s)
  BY <1>3 DEF ProfileStates, ReconcileService, SeeService, Remembers
<1> QED
  BY <1>1, <1>2, <1>3

(* Nor does a check. *)
LEMMA CheckedTells ==
    ASSUME NEW s \in ProfileStates, NEW elapsed \in BOOLEAN
    PROVE  /\ Remembers(s) => Remembers(SuccessfulCheck(s, elapsed))
           /\ SuccessfulCheck(s, elapsed).manual_override = s.manual_override
           /\ Remembers(s) => Remembers(FailedCheck(s))
           /\ FailedCheck(s).manual_override = s.manual_override
<1>1. /\ Remembers(s) => Remembers(CountSuccess(s))
      /\ CountSuccess(s).manual_override = s.manual_override
      /\ Remembers(CountSuccess(s)) => Remembers(Recovered(CountSuccess(s)))
      /\ Recovered(CountSuccess(s)).manual_override = CountSuccess(s).manual_override
  BY DEF ProfileStates, CountSuccess, Recovered, Remembers, Owned
<1>2. /\ Remembers(s) => Remembers(SuccessfulCheck(s, elapsed))
      /\ SuccessfulCheck(s, elapsed).manual_override = s.manual_override
  BY <1>1 DEF SuccessfulCheck
<1>3. /\ Remembers(s) => Remembers(FailedCheck(s))
      /\ FailedCheck(s).manual_override = s.manual_override
  BY DEF ProfileStates, FailedCheck, Remembers, Owned
<1> QED
  BY <1>2, <1>3

(* An intent is remembered, and so are the exits that leave the service    *)
(* inactive.                                                               *)
LEMMA IntentTells ==
    ASSUME NEW s \in ProfileStates, NEW act \in PendingActions
    PROVE  /\ Remembers(WithIntent(s, act))
           /\ WithIntent(s, act).manual_override = s.manual_override
           /\ ExitedNoStart(s, FALSE).manual_override
           /\ \A a \in BOOLEAN : s.manual_override => ExitedNoStart(s, a).manual_override
BY DEF ProfileStates, WithIntent, Remembers, ExitedNoStart, PendingActions, StopActions,
       StartActions

-----------------------------------------------------------------------------

(* A process with a copy is alone with it. *)
LEMMA BusyAlone ==
    ASSUME SerialInv, NEW p \in Processes, pc[p] \notin QuietPoints
    PROVE  \A q \in Processes : q # p => pc[q] \in QuietPoints
BY DEF SerialInv

(* Whoever has no copy has nothing to answer for. *)
LEMMA QuietCopyOK ==
    ASSUME NEW at \in QuietPoints, NEW o, NEW s, NEW a, NEW r, NEW ours
    PROVE  CopyOK(at, o, s, a, r, ours)
BY DEF CopyOK, QuietPoints, CopyPoints

(* A process moves while the other one has no copy. *)
LEMMA AloneSerial ==
    ASSUME NEW p \in Processes, \A q \in Processes : q # p => pc'[q] \in QuietPoints,
           (OurStop => Remembers(row))',
           CopyOK(pc'[p], op'[p], st'[p], action'[p], row', OurStop')
    PROVE  SerialInv'
<1>1. \A q \in Processes : CopyOK(pc'[q], op'[q], st'[q], action'[q], row', OurStop')
  BY QuietCopyOK, Zenon
<1> QED
  BY <1>1, Zenon DEF SerialInv

(* One with a copy goes on. *)
LEMMA GotoSerial ==
    ASSUME IInv, SerialInv, NEW p \in Processes, pc[p] \notin QuietPoints, NEW next, NEW s,
           Goto(p, next, s), (OurStop => Remembers(row))',
           CopyOK(next, op[p], s, action[p], row', OurStop')
    PROVE  SerialInv'
<1>1. \A q \in Processes : q # p => pc[q] \in QuietPoints
  BY BusyAlone
<1>2. /\ pc'[p] = next /\ st'[p] = s /\ op'[p] = op[p] /\ action'[p] = action[p]
      /\ \A q \in Processes : q # p => pc'[q] = pc[q]
  BY DEF Goto, IInv, TypeOK
<1> QED
  BY <1>1, <1>2, AloneSerial, Zenon

(* One with a copy begins an action. *)
LEMMA BeginSerial ==
    ASSUME IInv, SerialInv, NEW p \in Processes, pc[p] \notin QuietPoints, NEW act, NEW s,
           Begin(p, act, s), (OurStop => Remembers(row))',
           CopyOK("intent", op[p], WithIntent(s, act), act, row', OurStop')
    PROVE  SerialInv'
<1>1. \A q \in Processes : q # p => pc[q] \in QuietPoints
  BY BusyAlone
<1>2. /\ pc'[p] = "intent" /\ st'[p] = WithIntent(s, act) /\ op'[p] = op[p] /\ action'[p] = act
      /\ \A q \in Processes : q # p => pc'[q] = pc[q]
  BY DEF Begin, IInv, TypeOK
<1> QED
  BY <1>1, <1>2, AloneSerial, Zenon

(* One with a copy ends its operation. *)
LEMMA LeaveSerial ==
    ASSUME IInv, SerialInv, NEW p \in Processes, pc[p] \notin QuietPoints,
           Leave(p), (OurStop => Remembers(row))'
    PROVE  SerialInv'
<1>1. \A q \in Processes : q # p => pc[q] \in QuietPoints
  BY BusyAlone
<1>2. pc'[p] = "idle" /\ \A q \in Processes : q # p => pc'[q] = pc[q]
  BY DEF Leave, IInv, TypeOK
<1>3. CopyOK(pc'[p], op'[p], st'[p], action'[p], row', OurStop')
  BY <1>2, QuietCopyOK DEF QuietPoints
<1> QED
  BY <1>1, <1>2, <1>3, AloneSerial, Zenon

(* A process without a copy stays without; nobody stops the service. *)
LEMMA QuietSerial ==
    ASSUME SerialInv, NEW p \in Processes, pc'[p] \in QuietPoints,
           \A q \in Processes : q # p => /\ pc'[q] = pc[q] /\ op'[q] = op[q]
                                         /\ st'[q] = st[q] /\ action'[q] = action[q],
           row' = row, OurStop' => OurStop
    PROVE  SerialInv'
<1>1. ASSUME NEW q \in Processes
      PROVE  CopyOK(pc'[q], op'[q], st'[q], action'[q], row', OurStop')
  <2>1. CASE q = p
    BY <2>1, QuietCopyOK, Zenon
  <2>2. CASE q # p
    BY <2>2, Zenon DEF SerialInv, CopyOK
  <2> QED
    BY <2>1, <2>2
<1>2. \A q1, q2 \in Processes : q1 # q2 => pc'[q1] \in QuietPoints \/ pc'[q2] \in QuietPoints
  BY Zenon DEF SerialInv
<1> QED
  BY <1>1, <1>2, Zenon DEF SerialInv

(* Nobody moves, and nobody stops the service. *)
LEMMA StillSerial ==
    ASSUME SerialInv, UNCHANGED <<pc, op, st, action, row>>, OurStop' => OurStop
    PROVE  SerialInv'
<1>1. \A q \in Processes : CopyOK(pc'[q], op'[q], st'[q], action'[q], row', OurStop')
  BY Zenon DEF SerialInv, CopyOK
<1> QED
  BY <1>1, Zenon DEF SerialInv

-----------------------------------------------------------------------------
(* The durable actions, alone.                                             *)

(* A copy with an override may be saved by anybody. *)
LEMMA TellingCopy ==
    ASSUME NEW at \in {"resume_save", "refuse"}, NEW o, NEW s, NEW a, NEW r, NEW ours,
           s.manual_override
    PROVE  CopyOK(at, o, s, a, r, ours)
BY DEF CopyOK, Remembers

(* A start under a saved intent ends an override only for the operator. *)
LEMMA StartingCopy ==
    ASSUME NEW at \in {"resume_save", "commit"}, NEW o, NEW s, NEW a \in StartActions, NEW r,
           Sound(r), r.pending_action = a
    PROVE  CopyOK(at, o, s, a, r, FALSE)
<1>1. r.manual_override => a \in {"start_maintenance", "start_operator"}
  BY DEF Sound, Good, IntentSound, StartActions
<1> QED
  BY <1>1 DEF CopyOK

(* What a process with a copy knows. *)
LEMMA CopyFacts ==
    ASSUME IInv, SerialInv, NEW p \in Processes
    PROVE  /\ st[p] \in ProfileStates /\ active \in BOOLEAN /\ Sound(row)
           /\ CopyOK(pc[p], op[p], st[p], action[p], row, OurStop)
           /\ OurStop => Remembers(row)
           /\ pc[p] \in CarryingPoints =>
                 action[p] \in PendingActions /\ st[p].pending_action = action[p]
           /\ OurStop \in BOOLEAN
<1>1. /\ CopyOK(pc[p], op[p], st[p], action[p], row, OurStop)
      /\ OurStop => Remembers(row)
  BY Zenon DEF SerialInv
<1>2. st[p] \in ProfileStates /\ active \in BOOLEAN /\ Sound(row)
  BY Zenon DEF IInv, TypeOK
<1>3. pc[p] \in CarryingPoints => action[p] \in PendingActions /\ st[p].pending_action = action[p]
  BY DEF IInv, LocalOK
<1> QED
  BY <1>1, <1>2, <1>3, Zenon DEF OurStop

(* A command under its intent leaves a stop that the row remembers; after  *)
(* a start there is none.                                                  *)
LEMMA CommandRemembered ==
    ASSUME NEW act \in PendingActions, row.pending_action = act,
           CommandSucceeds(act) \/ CommandFails(act)
    PROVE  /\ row' = row /\ (OurStop => Remembers(row))'
           /\ CommandSucceeds(act) /\ act \in StartActions => OurStop' = FALSE
<1>1. row' = row
  BY DEF CommandSucceeds, CommandFails
<1>2. row.pending_action # "none"
  BY DEF PendingActions, StopActions, StartActions
<1>3. CommandSucceeds(act) /\ act \in StartActions => OurStop' = FALSE
  BY DEF CommandSucceeds, OurStop
<1> QED
  BY <1>1, <1>2, <1>3 DEF Remembers

(* reconcile_pending asks systemd. *)
LEMMA ResumeQuerySerial ==
    ASSUME IInv, SerialInv, NEW p \in Processes, ResumeQuery(p)
    PROVE  SerialInv'
<1> DEFINE act == action[p]
           seen == SeeService(st[p], active)
<1>1. /\ pc[p] = "resume_query" /\ row' = row /\ OurStop' = OurStop
      /\ pc[p] \notin QuietPoints /\ pc[p] \in CarryingPoints /\ pc[p] \in CopyPoints
  BY DEF ResumeQuery, OurStop, QuietPoints, CarryingPoints, CopyPoints, Points
<1>2. /\ st[p] \in ProfileStates /\ active \in BOOLEAN /\ Sound(row) /\ act \in PendingActions
      /\ CopyOK(pc[p], op[p], st[p], act, row, OurStop)
      /\ OurStop => Remembers(row)
  BY <1>1, CopyFacts
<1>3. row.pending_action = act
  BY <1>1, <1>2 DEF CopyOK
<1>4. /\ seen \in ProfileStates /\ seen.manual_override = st[p].manual_override
      /\ Remembers(st[p]) => Remembers(seen)
  BY <1>2, SeenTells DEF ProfileStates, SeeService, Observe, Observed
<1>5. (OurStop => Remembers(row))'
  BY <1>1, <1>2
<1> HIDE DEF seen, act
<1>6. CASE Goto(p, "resume_save", Suspend([st[p] EXCEPT !.service_checked = TRUE]))
  <2>1. CopyOK("resume_save", op[p], Suspend([st[p] EXCEPT !.service_checked = TRUE]),
               action[p], row', OurStop')
    BY <1>2, SuspendTells, TellingCopy
  <2> QED
    BY <1>1, <1>5, <1>6, <2>1, GotoSerial
<1>7. CASE Goto(p, "resume_act", seen)
  <2>1. CopyOK("resume_act", op[p], seen, act, row, OurStop)
    BY <1>1, <1>2, <1>3, <1>4 DEF CopyOK
  <2> QED
    BY <1>1, <1>5, <1>7, <2>1, GotoSerial DEF act
<1>8. CASE act \in StopActions /\ Goto(p, "resume_save", ResumedStop(seen, act))
  <2>1. /\ Owned(ResumedStop(seen, act))
        /\ seen.manual_override => ResumedStop(seen, act).manual_override
    BY <1>4, <1>8, StoppedTells
  <2>2. CopyOK("resume_save", op[p], ResumedStop(seen, act), act, row, OurStop)
    BY <1>1, <1>2, <1>4, <1>8, <2>1
    DEF CopyOK, Remembers, StopActions, StartActions, CopyPoints, Points
  <2> QED
    BY <1>1, <1>5, <1>8, <2>2, GotoSerial DEF act
<1>9. CASE active /\ act \in StartActions /\ Goto(p, "resume_save", ResumedStart(seen, act))
  <2>1. OurStop = FALSE
    BY <1>9 DEF OurStop
  <2>2. CopyOK("resume_save", op[p], ResumedStart(seen, act), act, row, FALSE)
    BY <1>2, <1>3, <1>9, StartingCopy
  <2> QED
    BY <1>1, <1>5, <1>9, <2>1, <2>2, GotoSerial DEF act
<1> QED
  BY <1>6, <1>7, <1>8, <1>9 DEF ResumeQuery, act, seen

(* reconcile_pending runs the command. *)
LEMMA ResumeActSerial ==
    ASSUME IInv, SerialInv, NEW p \in Processes, ResumeAct(p)
    PROVE  SerialInv'
<1> DEFINE act == action[p]
<1>1. /\ pc[p] = "resume_act"
      /\ pc[p] \notin QuietPoints /\ pc[p] \in CarryingPoints /\ pc[p] \in CopyPoints
  BY DEF ResumeAct, QuietPoints, CarryingPoints, CopyPoints, Points
<1>2. /\ st[p] \in ProfileStates /\ Sound(row) /\ act \in PendingActions
      /\ CopyOK(pc[p], op[p], st[p], act, row, OurStop)
  BY <1>1, CopyFacts
<1>3. row.pending_action = act
  BY <1>1, <1>2 DEF CopyOK
<1>4. /\ row' = row /\ (OurStop => Remembers(row))'
      /\ CommandSucceeds(act) /\ act \in StartActions => OurStop' = FALSE
  BY <1>2, <1>3, CommandRemembered DEF ResumeAct
<1> HIDE DEF act
<1>5. CASE act \in StopActions /\ Goto(p, "resume_save", ResumedStop(st[p], act))
  <2>1. /\ Owned(ResumedStop(st[p], act))
        /\ st[p].manual_override => ResumedStop(st[p], act).manual_override
    BY <1>2, <1>5, StoppedTells
  <2>2. CopyOK("resume_save", op[p], ResumedStop(st[p], act), act, row, OurStop')
    BY <1>1, <1>2, <1>5, <2>1
    DEF CopyOK, Remembers, StopActions, StartActions, CopyPoints, Points
  <2> QED
    BY <1>1, <1>4, <1>5, <2>2, GotoSerial DEF act
<1>6. CASE /\ CommandSucceeds(act) /\ act \in StartActions
           /\ Goto(p, "resume_save", ResumedStart(st[p], act))
  <2>1. CopyOK("resume_save", op[p], ResumedStart(st[p], act), act, row, FALSE)
    BY <1>2, <1>3, <1>6, StartingCopy
  <2> QED
    BY <1>1, <1>4, <1>6, <2>1, GotoSerial DEF act
<1>7. CASE Goto(p, "resume_save", ResumeFailed(st[p], act))
  <2>1. CopyOK("resume_save", op[p], ResumeFailed(st[p], act), act, row', OurStop')
    BY <1>2, SuspendTells, TellingCopy
  <2> QED
    BY <1>1, <1>4, <1>7, <2>1, GotoSerial DEF act
<1> QED
  BY <1>2, <1>5, <1>6, <1>7 DEF ResumeAct, act, PendingActions

(* reconcile_pending saves its outcome. *)
LEMMA ResumeSaveSerial ==
    ASSUME IInv, SerialInv, NEW p \in Processes, ResumeSave(p)
    PROVE  SerialInv'
<1>1. /\ pc[p] = "resume_save" /\ pc[p] \notin QuietPoints /\ pc[p] \in CopyPoints
      /\ OurStop' = OurStop
  BY DEF ResumeSave, QuietPoints, CopyPoints, Points, OurStop, Save, SaveFails, world
<1>2. /\ CopyOK(pc[p], op[p], st[p], action[p], row, OurStop)
      /\ OurStop => Remembers(row)
  BY CopyFacts
<1>3. OurStop => Remembers(st[p])
  BY <1>1, <1>2 DEF CopyOK
<1>4. row' \in {row, st[p]}
  BY DEF ResumeSave, Save, SaveFails
<1>5. (OurStop => Remembers(row))'
  BY <1>1, <1>2, <1>3, <1>4
<1>6. CASE Leave(p)
  BY <1>1, <1>5, <1>6, LeaveSerial
<1>7. CASE row' = st[p] /\ ContinueAfterResume(p) /\ NextAfterResume(p) # "idle"
  <2> DEFINE next == NextAfterResume(p)
  <2>1. /\ next \in {"probe", "evaluate", "decide"} /\ pc'[p] = next
        /\ next # "probe" => st'[p] = st[p]
        /\ \A q \in Processes : q # p => pc'[q] = pc[q]
    BY <1>7 DEF ContinueAfterResume, NextAfterResume, IInv, TypeOK
  <2>2. CopyOK(pc'[p], op'[p], st'[p], action'[p], row', OurStop')
    BY <1>1, <1>3, <1>7, <2>1 DEF CopyOK, CopyPoints, QuietPoints
  <2>3. \A q \in Processes : q # p => pc'[q] \in QuietPoints
    BY <1>1, <2>1, BusyAlone
  <2> QED
    BY <1>5, <2>2, <2>3, AloneSerial
<1> QED
  BY <1>6, <1>7 DEF ResumeSave, Save, ContinueAfterResume

(* stop and start save the intent. *)
LEMMA SaveIntentSerial ==
    ASSUME IInv, SerialInv, NEW p \in Processes, SaveIntent(p)
    PROVE  SerialInv'
<1>1. /\ pc[p] = "intent" /\ OurStop' = OurStop
      /\ pc[p] \notin QuietPoints /\ pc[p] \in CarryingPoints /\ pc[p] \in CopyPoints
  BY DEF SaveIntent, QuietPoints, CarryingPoints, CopyPoints, Points, OurStop, Save,
         SaveFails, world
<1>2. /\ CopyOK(pc[p], op[p], st[p], action[p], row, OurStop)
      /\ st[p].pending_action = action[p] /\ (OurStop => Remembers(row))
  BY <1>1, CopyFacts
<1>3. OurStop => Remembers(st[p])
  BY <1>1, <1>2 DEF CopyOK
<1>4. CASE row' = st[p] /\ Goto(p, "query", st[p])
  <2>1. CopyOK("query", op[p], st[p], action[p], row', OurStop')
    BY <1>1, <1>2, <1>3, <1>4 DEF CopyOK
  <2> QED
    BY <1>1, <1>3, <1>4, <2>1, GotoSerial
<1>5. CASE row' = row /\ Leave(p)
  BY <1>1, <1>2, <1>5, LeaveSerial
<1> QED
  BY <1>4, <1>5 DEF SaveIntent, Save, SaveFails

(* stop and start ask systemd. *)
LEMMA QuerySerial ==
    ASSUME IInv, SerialInv, NEW p \in Processes, Query(p)
    PROVE  SerialInv'
<1> DEFINE act == action[p]
           seen == SeeService(st[p], active)
<1>1. /\ pc[p] = "query" /\ row' = row /\ OurStop' = OurStop
      /\ pc[p] \notin QuietPoints /\ pc[p] \in CarryingPoints /\ pc[p] \in CopyPoints
  BY DEF Query, OurStop, QuietPoints, CarryingPoints, CopyPoints, Points
<1>2. /\ st[p] \in ProfileStates /\ active \in BOOLEAN /\ Sound(row)
      /\ CopyOK(pc[p], op[p], st[p], act, row, OurStop)
      /\ OurStop => Remembers(row)
  BY <1>1, CopyFacts
<1>3. row.pending_action = act
  BY <1>1, <1>2 DEF CopyOK
<1>4. /\ seen \in ProfileStates /\ seen.manual_override = st[p].manual_override
      /\ Remembers(st[p]) => Remembers(seen)
  BY <1>2, SeenTells DEF ProfileStates, SeeService, Observe, Observed
<1>5. (OurStop => Remembers(row))'
  BY <1>1, <1>2
<1> HIDE DEF seen, act
<1>6. CASE Leave(p)
  BY <1>1, <1>5, <1>6, LeaveSerial
<1>7. CASE Goto(p, "act", seen)
  <2>1. CopyOK("act", op[p], seen, act, row, OurStop)
    BY <1>1, <1>2, <1>3, <1>4 DEF CopyOK
  <2> QED
    BY <1>1, <1>5, <1>7, <2>1, GotoSerial DEF act
<1>8. CASE Goto(p, "refuse", Suspend(seen))
  <2>1. CopyOK("refuse", op[p], Suspend(seen), act, row', OurStop')
    BY <1>4, SuspendTells, TellingCopy
  <2> QED
    BY <1>1, <1>5, <1>8, <2>1, GotoSerial DEF act
<1>9. CASE active /\ act \in StartActions /\ Goto(p, "commit", Started(seen))
  <2>1. OurStop = FALSE
    BY <1>9 DEF OurStop
  <2>2. CopyOK("commit", op[p], Started(seen), act, row, FALSE)
    BY <1>2, <1>3, <1>9, StartingCopy
  <2> QED
    BY <1>1, <1>5, <1>9, <2>1, <2>2, GotoSerial DEF act
<1> QED
  BY <1>6, <1>7, <1>8, <1>9 DEF Query, act, seen

(* stop and start run the command. *)
LEMMA ActSerial ==
    ASSUME IInv, SerialInv, NEW p \in Processes, Act(p)
    PROVE  SerialInv'
<1> DEFINE act == action[p]
<1>1. /\ pc[p] = "act"
      /\ pc[p] \notin QuietPoints /\ pc[p] \in CarryingPoints /\ pc[p] \in CopyPoints
  BY DEF Act, QuietPoints, CarryingPoints, CopyPoints, Points
<1>2. /\ st[p] \in ProfileStates /\ Sound(row) /\ act \in PendingActions
      /\ CopyOK(pc[p], op[p], st[p], act, row, OurStop)
  BY <1>1, CopyFacts
<1>3. row.pending_action = act
  BY <1>1, <1>2 DEF CopyOK
<1>4. /\ row' = row /\ (OurStop => Remembers(row))'
      /\ CommandSucceeds(act) /\ act \in StartActions => OurStop' = FALSE
  BY <1>2, <1>3, CommandRemembered DEF Act
<1> HIDE DEF act
<1>5. CASE act \in StopActions /\ Goto(p, "commit", Stopped(st[p], act))
  <2>1. /\ Owned(Stopped(st[p], act))
        /\ st[p].manual_override => Stopped(st[p], act).manual_override
    BY <1>2, <1>5, StoppedTells
  <2>2. CopyOK("commit", op[p], Stopped(st[p], act), act, row, OurStop')
    BY <1>1, <1>2, <1>5, <2>1
    DEF CopyOK, Remembers, StopActions, StartActions, CopyPoints, Points
  <2> QED
    BY <1>1, <1>4, <1>5, <2>2, GotoSerial DEF act
<1>6. CASE /\ CommandSucceeds(act) /\ act \in StartActions
           /\ Goto(p, "commit", Started(st[p]))
  <2>1. CopyOK("commit", op[p], Started(st[p]), act, row, FALSE)
    BY <1>2, <1>3, <1>6, StartingCopy
  <2> QED
    BY <1>1, <1>4, <1>6, <2>1, GotoSerial DEF act
<1>7. CASE Goto(p, "refuse", Suspend(st[p]))
  <2>1. CopyOK("refuse", op[p], Suspend(st[p]), act, row', OurStop')
    BY <1>2, SuspendTells, TellingCopy
  <2> QED
    BY <1>1, <1>4, <1>7, <2>1, GotoSerial DEF act
<1> QED
  BY <1>2, <1>5, <1>6, <1>7 DEF Act, act, PendingActions


(* The save after the command, its retry, and the saves that follow. *)
LEMMA CommitSerial ==
    ASSUME IInv, SerialInv, NEW p \in Processes, Commit(p) \/ Recommit(p)
    PROVE  SerialInv'
<1>1. /\ pc[p] \in {"commit", "recommit"} /\ OurStop' = OurStop
      /\ pc[p] \notin QuietPoints /\ pc[p] \in CopyPoints
  BY DEF Commit, Recommit, QuietPoints, CopyPoints, Points, OurStop, Save, SaveFails, world
<1>2. /\ CopyOK(pc[p], op[p], st[p], action[p], row, OurStop)
      /\ OurStop => Remembers(row)
  BY CopyFacts
<1>3. /\ OurStop => Remembers(st[p])
      /\ op[p] = "exit-start" => ~OurStop
  BY <1>1, <1>2 DEF CopyOK
<1>4. CASE row' = st[p] /\ ReturnTrue(p)
  <2>1. (OurStop => Remembers(row))'
    BY <1>1, <1>3, <1>4
  <2>2. CASE op[p] = "exit-start" /\ Goto(p, "final", ExitedWithStart(st[p]))
    <3>1. CopyOK("final", op[p], ExitedWithStart(st[p]), action[p], row', OurStop')
      BY <1>1, <1>3, <2>2 DEF CopyOK
    <3> QED
      BY <1>1, <2>1, <2>2, <3>1, GotoSerial
  <2>3. CASE Goto(p, "write_mode", st[p])
    <3>1. CopyOK("write_mode", op[p], st[p], action[p], row', OurStop')
      BY DEF CopyOK, CopyPoints
    <3> QED
      BY <1>1, <2>1, <2>3, <3>1, GotoSerial
  <2>4. CASE Goto(p, "final", st[p])
    <3>1. CopyOK("final", op[p], st[p], action[p], row', OurStop')
      BY <1>1, <1>3, <1>4 DEF CopyOK
    <3> QED
      BY <1>1, <2>1, <2>4, <3>1, GotoSerial
  <2> QED
    BY <1>4, <2>2, <2>3, <2>4 DEF ReturnTrue
<1>5. CASE row' = row /\ Goto(p, "compensate", st[p])
  <2>1. CopyOK("compensate", op[p], st[p], action[p], row', OurStop')
    BY <1>1, <1>2, <1>5 DEF CopyOK
  <2> QED
    BY <1>1, <1>2, <1>5, <2>1, GotoSerial
<1>6. CASE row' = row /\ pc[p] = "commit" /\ Goto(p, "recommit", st[p])
  <2>1. CopyOK("recommit", op[p], st[p], action[p], row', OurStop')
    BY <1>1, <1>2, <1>6 DEF CopyOK
  <2> QED
    BY <1>1, <1>2, <1>6, <2>1, GotoSerial
<1>7. CASE row' = row /\ Leave(p)
  BY <1>1, <1>2, <1>7, LeaveSerial
<1> QED
  BY <1>4, <1>5, <1>6, <1>7 DEF Commit, Recommit, Save, SaveFails

(* stop undoes a stop it could not record. *)
LEMMA CompensateSerial ==
    ASSUME IInv, SerialInv, NEW p \in Processes, Compensate(p)
    PROVE  SerialInv'
<1>1. pc[p] = "compensate" /\ pc[p] \notin QuietPoints
  BY DEF Compensate, QuietPoints
<1>2. st[p] \in ProfileStates /\ (OurStop => Remembers(row))
  BY CopyFacts
<1>3. CommandSucceeds("start_operator") => row' = row /\ OurStop' = FALSE
  BY DEF CommandSucceeds, OurStop, StartActions
<1>4. CommandFails("start_operator") => row' = row /\ (OurStop' => OurStop)
  BY <1>3 DEF CommandFails, OurStop
<1>5. CASE CommandSucceeds("start_operator") /\ Goto(p, "refuse", Compensated(st[p]))
  <2>1. CopyOK("refuse", op[p], Compensated(st[p]), action[p], row', OurStop')
    BY <1>2, SuspendTells, TellingCopy
  <2> QED
    BY <1>1, <1>3, <1>5, <2>1, GotoSerial
<1>6. CASE CommandFails("start_operator") /\ Leave(p)
  BY <1>1, <1>2, <1>4, <1>6, LeaveSerial
<1> QED
  BY <1>5, <1>6 DEF Compensate

(* The saves of a refused action and of the end of an operation. *)
LEMMA LastSaveSerial ==
    ASSUME IInv, SerialInv, NEW p \in Processes, Refuse(p) \/ Final(p)
    PROVE  SerialInv'
<1>1. /\ pc[p] \in {"refuse", "final"} /\ OurStop' = OurStop
      /\ pc[p] \notin QuietPoints /\ pc[p] \in CopyPoints
  BY DEF Refuse, Final, QuietPoints, CopyPoints, Points, OurStop, Save, SaveFails, world
<1>2. /\ CopyOK(pc[p], op[p], st[p], action[p], row, OurStop)
      /\ OurStop => Remembers(row)
  BY CopyFacts
<1>3. OurStop => Remembers(st[p])
  BY <1>1, <1>2 DEF CopyOK
<1>4. row' \in {row, st[p]}
  BY DEF Refuse, Final, Save, SaveFails
<1>5. (OurStop => Remembers(row))'
  BY <1>1, <1>2, <1>3, <1>4
<1>6. CASE Leave(p)
  BY <1>1, <1>5, <1>6, LeaveSerial
<1>7. CASE row' = st[p] /\ Goto(p, "final", st[p])
  <2>1. CopyOK("final", op[p], st[p], action[p], row', OurStop')
    BY <1>1, <1>3, <1>7 DEF CopyOK
  <2> QED
    BY <1>1, <1>5, <1>7, <2>1, GotoSerial
<1> QED
  BY <1>6, <1>7 DEF Refuse, Final, Save, ReturnFalse

-----------------------------------------------------------------------------
(* Reading the row, alone.                                                 *)

(* Without overlap a process reads the row only while the other one has no *)
(* copy.                                                                   *)
LEMMA ReaderAlone ==
    ASSUME Overlap = FALSE, NEW p \in Processes, MayRead(p)
    PROVE  \A q \in Processes : q # p => pc[q] \in QuietPoints
BY DEF MayRead, QuietPoints

(* A copy of the row remembers and overrides what the row does. *)
LEMMA RowCopy ==
    ASSUME NEW at \in {"evaluate", "decide"}, NEW o, NEW a, NEW r, NEW ours,
           ours => Remembers(r)
    PROVE  CopyOK(at, o, r, a, r, ours) /\ CopyOK("resume_query", o, r, r.pending_action, r, ours)
BY DEF CopyOK

(* The daemon or the command reads the row. *)
LEMMA ReadRowSerial ==
    ASSUME Overlap = FALSE, IInv, SerialInv, NEW p \in Processes, MayRead(p),
           NEW next \in {"probe", "evaluate", "decide"}, ReadRow(p, next),
           row' = row, OurStop' = OurStop
    PROVE  SerialInv'
<1>1. OurStop => Remembers(row)
  BY CopyFacts
<1>2. \A q \in Processes : q # p => pc[q] \in QuietPoints
  BY ReaderAlone
<1>3. \A q \in Processes : q # p => pc'[q] \in QuietPoints
  BY <1>2 DEF ReadRow, IInv, TypeOK
<1>4. CASE row.pending_action # "none"
  <2>1. pc'[p] = "resume_query" /\ st'[p] = row /\ action'[p] = row.pending_action
    BY <1>4 DEF ReadRow, IInv, TypeOK
  <2>2. CopyOK("resume_query", op'[p], row, row.pending_action, row, OurStop)
    BY <1>1, RowCopy
  <2> QED
    BY <1>1, <1>3, <2>1, <2>2, AloneSerial
<1>5. CASE row.pending_action = "none" /\ next # "probe"
  <2>1. pc'[p] = next /\ st'[p] = row
    BY <1>5 DEF ReadRow, IInv, TypeOK
  <2>2. CopyOK(next, op'[p], row, action'[p], row, OurStop)
    BY <1>1, <1>5, RowCopy
  <2> QED
    BY <1>1, <1>3, <2>1, <2>2, AloneSerial
<1>6. CASE row.pending_action = "none" /\ next = "probe"
  <2>1. pc'[p] \in QuietPoints
    BY <1>6 DEF ReadRow, IInv, TypeOK, QuietPoints
  <2>2. CopyOK(pc'[p], op'[p], st'[p], action'[p], row', OurStop')
    BY <2>1, QuietCopyOK
  <2> QED
    BY <1>1, <1>3, <2>2, AloneSerial
<1> QED
  BY <1>4, <1>5, <1>6

(* An operation ends at a point without a copy, and the next one begins. *)
LEMMA QuietLeaveSerial ==
    ASSUME IInv, SerialInv, NEW p \in Processes, pc[p] \in QuietPoints,
           Leave(p), row' = row, OurStop' = OurStop
    PROVE  SerialInv'
<1>1. /\ pc'[p] \in QuietPoints
      /\ \A q \in Processes : q # p => /\ pc'[q] = pc[q] /\ op'[q] = op[q]
                                       /\ st'[q] = st[q] /\ action'[q] = action[q]
  BY DEF Leave, IInv, TypeOK, QuietPoints
<1> QED
  BY <1>1, QuietSerial

(* The daemon loads the mode, reads the row, pings and reads it again. *)
LEMMA DaemonReadsSerial ==
    ASSUME Overlap = FALSE, IInv, SerialInv, Load \/ Get \/ Probe
    PROVE  SerialInv'
<1>1. /\ "daemon" \in Processes /\ row' = row /\ OurStop' = OurStop
  BY DEF Processes, Load, Get, Probe, world, OurStop
<1>2. CASE Load
  <2>1. /\ pc'["daemon"] \in QuietPoints
        /\ \A q \in Processes : q # "daemon" => /\ pc'[q] = pc[q] /\ op'[q] = op[q]
                                                /\ st'[q] = st[q] /\ action'[q] = action[q]
    BY <1>2 DEF Load, IInv, TypeOK, QuietPoints, Processes
  <2> QED
    BY <1>1, <2>1, QuietSerial
<1>3. CASE Get /\ Leave("daemon")
  <2>1. pc["daemon"] \in QuietPoints
    BY <1>3 DEF Get, QuietPoints
  <2> QED
    BY <1>1, <1>3, <2>1, QuietLeaveSerial
<1>4. CASE MayRead("daemon") /\ ReadRow("daemon", "probe")
  BY <1>1, <1>4, ReadRowSerial
<1>5. CASE MayRead("daemon") /\ ReadRow("daemon", "evaluate")
  BY <1>1, <1>5, ReadRowSerial
<1> QED
  BY <1>2, <1>3, <1>4, <1>5 DEF Get, Probe

-----------------------------------------------------------------------------
(* The check and the commands, alone.                                      *)

(* The daemon evaluates a check: it forgets neither a stop nor an          *)
(* override.                                                               *)
LEMMA EvaluateSerial ==
    ASSUME IInv, SerialInv, NEW recent \in BOOLEAN, NEW elapsed \in BOOLEAN,
           Evaluate(recent, elapsed)
    PROVE  SerialInv'
<1> DEFINE noted == [st["daemon"] EXCEPT !.check_status = result]
           before == ServiceCompared(noted, recent)
           checked == IF result = "success" THEN SuccessfulCheck(before, elapsed)
                                            ELSE FailedCheck(before)
           intent == CheckIntent(before, checked, snap["daemon"])
           Kept(s) == /\ row.manual_override => s.manual_override
                      /\ OurStop => Remembers(s)
<1>1. /\ "daemon" \in Processes /\ pc["daemon"] = "evaluate" /\ row' = row
      /\ OurStop' = OurStop /\ pc["daemon"] \notin QuietPoints /\ pc["daemon"] \in CopyPoints
  BY DEF Processes, Evaluate, world, OurStop, QuietPoints, CopyPoints, Points
<1>2. /\ st["daemon"] \in ProfileStates /\ active \in BOOLEAN
      /\ CopyOK(pc["daemon"], op["daemon"], st["daemon"], action["daemon"], row, OurStop)
      /\ OurStop => Remembers(row)
  BY <1>1, CopyFacts
<1>3. Kept(st["daemon"]) /\ (op["daemon"] = "process")
  BY <1>1, <1>2 DEF CopyOK, IInv, LocalOK
<1>4. Settled(noted) /\ noted \in ProfileStates /\ Kept(noted)
  <2>1. Settled(st["daemon"]) /\ result \in CheckStatuses
    BY <1>1 DEF IInv, TypeOK, LocalOK, SettledPoints, Settled
  <2>2. Settled(noted) /\ noted \in ProfileStates
    BY <2>1, NotedSettled DEF Settled, Sound
  <2> QED
    BY <1>2, <1>3, <2>2, SeenTells
<1> HIDE DEF noted
<1>5. Settled(before) /\ before \in ProfileStates /\ Kept(before)
  <2>1. Settled(ReconcileService(noted, active))
    BY <1>2, <1>4, ReconcileServiceSettled
  <2>2. Kept(ReconcileService(noted, active))
    BY <1>2, <1>4, ReconciledTells DEF OurStop
  <2> QED
    BY <1>4, <2>1, <2>2 DEF ServiceCompared, Settled, Sound
<1> HIDE DEF before
<1>6. checked \in ProfileStates /\ Kept(checked)
  BY <1>5, CheckedTells, SuccessfulCheckSettled, FailedCheckSettled DEF Settled, Sound
<1> HIDE DEF checked
<1>7. (OurStop => Remembers(row))'
  BY <1>1, <1>2
<1>8. ASSUME NEW s, Kept(s), Goto("daemon", "final", s)
      PROVE  SerialInv'
  <2>1. CopyOK("final", op["daemon"], s, action["daemon"], row, OurStop)
    BY <1>8 DEF CopyOK
  <2> QED
    BY <1>1, <1>7, <1>8, <2>1, GotoSerial
<1>9. CASE intent # "none" /\ Begin("daemon", intent, checked)
  <2>1. intent \in PendingActions
    BY <1>9 DEF CheckIntent, PendingActions, StopActions, StartActions
  <2> HIDE DEF intent
  <2>2. /\ WithIntent(checked, intent).manual_override = checked.manual_override
        /\ Remembers(WithIntent(checked, intent))
    BY <1>6, <2>1, IntentTells
  <2>3. CopyOK("intent", op["daemon"], WithIntent(checked, intent), intent, row, OurStop)
    BY <1>3, <1>6, <2>2 DEF CopyOK
  <2> QED
    BY <1>1, <1>7, <1>9, <2>3, BeginSerial
<1> QED
  BY <1>4, <1>6, <1>8, <1>9 DEF Evaluate, noted, before, checked

(* Operations that just end. *)
LEMMA EndingSerial ==
    ASSUME IInv, SerialInv, EvaluateFails \/ WriteMode \/ (\E p \in Processes : Crash(p))
    PROVE  SerialInv'
<1>1. row' = row /\ OurStop' = OurStop /\ \E p \in Processes : Leave(p)
  BY DEF EvaluateFails, WriteMode, Crash, world, OurStop, Processes
<1>2. PICK p \in Processes : Leave(p)
  BY <1>1
<1>3. OurStop => Remembers(row)
  BY CopyFacts
<1> QED
  BY <1>1, <1>2, <1>3, LeaveSerial, QuietLeaveSerial

(* apply and rearm read the row. *)
LEMMA AdminReadsSerial ==
    ASSUME Overlap = FALSE, IInv, SerialInv,
           (\E o \in MaintenanceOps : Maintenance(o)) \/ Rearm
    PROVE  SerialInv'
<1>1. "admin" \in Processes /\ MayRead("admin") /\ row' = row /\ OurStop' = OurStop
  BY DEF Processes, Maintenance, Rearm, AdminBegins, world, OurStop
<1>2. CASE ReadRow("admin", "decide")
  BY <1>1, <1>2, ReadRowSerial
<1>3. CASE Rearm
  <2>1. OurStop => Remembers(row)
    BY <1>1, CopyFacts
  <2>2. /\ pc'["admin"] = "decide" /\ st'["admin"] = row
        /\ \A q \in Processes : q # "admin" => pc'[q] = pc[q]
    BY <1>1, <1>3 DEF Rearm, IInv, TypeOK
  <2>3. CopyOK("decide", op'["admin"], row, action'["admin"], row, OurStop)
    BY <2>1, RowCopy
  <2>4. \A q \in Processes : q # "admin" => pc'[q] \in QuietPoints
    BY <1>1, <2>2, ReaderAlone
  <2> QED
    BY <1>1, <2>1, <2>2, <2>3, <2>4, AloneSerial
<1> QED
  BY <1>2, <1>3 DEF Maintenance

(* set-mode reads the row and may begin a start. *)
LEMMA SetModeSerial ==
    ASSUME Overlap = FALSE, IInv, SerialInv, NEW target, NEW owned, SetMode(target, owned)
    PROVE  SerialInv'
<1> DEFINE t == WithIntent(row, "start_operator")
<1>1. /\ "admin" \in Processes /\ MayRead("admin") /\ row' = row /\ OurStop' = OurStop
      /\ op' = [op EXCEPT !["admin"] = "set-mode"]
  BY DEF Processes, SetMode, AdminBegins, world, OurStop
<1>2. row \in ProfileStates /\ (OurStop => Remembers(row))
  BY <1>1, CopyFacts DEF Sound
<1>3. Remembers(t)
  BY <1>2, IntentTells DEF PendingActions, StartActions
<1>4. \A q \in Processes : q # "admin" => pc'[q] \in QuietPoints
  <2>1. \A q \in Processes : q # "admin" => pc'[q] = pc[q]
    BY <1>1 DEF SetMode, IInv, TypeOK
  <2> QED
    BY <1>1, <2>1, ReaderAlone
<1> HIDE DEF t
<1>5. CASE pc'["admin"] = "intent" /\ st'["admin"] = t /\ action'["admin"] = "start_operator"
  <2>1. CopyOK("intent", op'["admin"], t, "start_operator", row, OurStop)
    BY <1>3 DEF CopyOK, StartActions
  <2> QED
    BY <1>1, <1>2, <1>4, <1>5, <2>1, AloneSerial
<1>6. CASE pc'["admin"] = "write_mode"
  <2>1. CopyOK("write_mode", op'["admin"], st'["admin"], action'["admin"], row', OurStop')
    BY DEF CopyOK, CopyPoints
  <2> QED
    BY <1>1, <1>2, <1>4, <1>6, <2>1, AloneSerial
<1> QED
  BY <1>1, <1>5, <1>6 DEF SetMode, IInv, TypeOK, t

(* The command decides: an exit that leaves our stop behind sets the       *)
(* override, and re-arm ends the override of an owned stop only.           *)
LEMMA DecideSerial ==
    ASSUME IInv, SerialInv, Decide
    PROVE  SerialInv'
<1> DEFINE s == SeeService(st["admin"], active)
           o == op["admin"]
           a == action["admin"]
           entered == [s EXCEPT !.maintenance = TRUE]
           rearmed == [s EXCEPT !.manual_override = FALSE]
<1>1. /\ "admin" \in Processes /\ pc["admin"] = "decide" /\ row' = row /\ OurStop' = OurStop
      /\ pc["admin"] \notin QuietPoints /\ pc["admin"] \in CopyPoints
  BY DEF Processes, Decide, world, OurStop, QuietPoints, CopyPoints, Points
<1>2. /\ st["admin"] \in ProfileStates /\ active \in BOOLEAN
      /\ CopyOK(pc["admin"], o, st["admin"], a, row, OurStop)
      /\ OurStop => Remembers(row)
  BY <1>1, CopyFacts
<1>3. (OurStop => Remembers(row))'
  BY <1>1, <1>2
<1>4. /\ s \in ProfileStates
      /\ row.manual_override => s.manual_override
      /\ OurStop => Remembers(s)
  <2>1. s \in ProfileStates
    BY <1>2 DEF ProfileStates, SeeService, Observe, Observed
  <2>2. /\ row.manual_override => st["admin"].manual_override
        /\ OurStop => Remembers(st["admin"])
    BY <1>1, <1>2 DEF CopyOK
  <2> QED
    BY <1>2, <2>1, <2>2, SeenTells
<1>5. active => ~OurStop
  BY DEF OurStop
<1> HIDE DEF s
<1>6. /\ entered \in ProfileStates /\ entered.manual_override = s.manual_override
      /\ Remembers(s) => Remembers(entered)
  <2>1. entered \in ProfileStates
    BY <1>4 DEF ProfileStates
  <2> QED
    BY <1>4, <2>1, SeenTells
<1>7. s.stopped_by_watchdog => Remembers(rearmed)
  BY <1>4 DEF ProfileStates, Remembers, Owned
<1> HIDE DEF entered, rearmed
<1>8. CASE Leave("admin")
  BY <1>1, <1>3, <1>8, LeaveSerial
<1>9. CASE Goto("admin", "final", entered)
  <2>1. CopyOK("final", o, entered, a, row, OurStop)
    BY <1>4, <1>6 DEF CopyOK
  <2> QED
    BY <1>1, <1>3, <1>9, <2>1, GotoSerial
<1>10. CASE o = "enter-stop" /\ active /\ Begin("admin", "stop_maintenance", entered)
  <2>1. /\ WithIntent(entered, "stop_maintenance").manual_override = entered.manual_override
        /\ Remembers(WithIntent(entered, "stop_maintenance"))
    BY <1>6, IntentTells DEF PendingActions, StopActions
  <2>2. CopyOK("intent", o, WithIntent(entered, "stop_maintenance"), "stop_maintenance",
               row, OurStop)
    BY <1>4, <1>6, <1>10, <2>1 DEF CopyOK
  <2> QED
    BY <1>1, <1>3, <1>10, <2>2, BeginSerial
<1>11. CASE Goto("admin", "final", ExitedNoStart(s, active))
  <2>1. /\ s.manual_override => ExitedNoStart(s, active).manual_override
        /\ ~active => ExitedNoStart(s, active).manual_override
    BY <1>2, <1>4, IntentTells DEF PendingActions, StopActions
  <2>2. CopyOK("final", o, ExitedNoStart(s, active), a, row, OurStop)
    BY <1>4, <1>5, <2>1 DEF CopyOK, Remembers
  <2> QED
    BY <1>1, <1>3, <1>11, <2>2, GotoSerial
<1>12. CASE o = "exit-start" /\ active /\ Goto("admin", "final", ExitedWithStart(s))
  <2>1. CopyOK("final", o, ExitedWithStart(s), a, row, OurStop)
    BY <1>5, <1>12 DEF CopyOK
  <2> QED
    BY <1>1, <1>3, <1>12, <2>1, GotoSerial
<1>13. CASE o = "exit-start" /\ Begin("admin", "start_maintenance", s)
  <2>1. /\ WithIntent(s, "start_maintenance").manual_override = s.manual_override
        /\ Remembers(WithIntent(s, "start_maintenance"))
    BY <1>4, IntentTells DEF PendingActions, StartActions
  <2>2. CopyOK("intent", o, WithIntent(s, "start_maintenance"), "start_maintenance",
               row, OurStop)
    BY <1>4, <2>1 DEF CopyOK, StartActions
  <2> QED
    BY <1>1, <1>3, <1>13, <2>2, BeginSerial
<1>14. CASE /\ o = "rearm" /\ (active \/ s.stopped_by_watchdog)
            /\ Goto("admin", "final", rearmed)
  <2>1. CopyOK("final", o, rearmed, a, row, OurStop)
    BY <1>5, <1>7, <1>14 DEF CopyOK
  <2> QED
    BY <1>1, <1>3, <1>14, <2>1, GotoSerial
<1> QED
  BY <1>8, <1>9, <1>10, <1>11, <1>12, <1>13, <1>14 DEF Decide, s, entered, rearmed

(* The operator, the upstream and the mode file: nobody else makes a stop  *)
(* ours.                                                                   *)
LEMMA EnvironmentSerial ==
    ASSUME SerialInv,
           ResetProfile \/ OperatorStop \/ OperatorStart \/ UpstreamChanges \/ UNCHANGED vars
    PROVE  SerialInv'
<1>1. UNCHANGED <<pc, op, st, action, row>>
  BY DEF ResetProfile, OperatorStop, OperatorStart, UpstreamChanges, vars, locals
<1>2. OurStop' => OurStop
  BY DEF ResetProfile, OperatorStop, OperatorStart, UpstreamChanges, vars, OurStop
<1> QED
  BY <1>1, <1>2, StillSerial

-----------------------------------------------------------------------------

(* Without overlap SerialInv is inductive, given IInv. *)
THEOREM SerialInductive ==
    ASSUME Overlap = FALSE
    PROVE  IInv /\ SerialInv /\ [Next]_vars => SerialInv'
<1> SUFFICES ASSUME IInv, SerialInv, [Next]_vars PROVE SerialInv'
  OBVIOUS
<1>1. ASSUME NEW p \in Processes, ActionStep(p) PROVE SerialInv'
  BY <1>1, ResumeQuerySerial, ResumeActSerial, ResumeSaveSerial, SaveIntentSerial, QuerySerial,
     ActSerial, CommitSerial, CompensateSerial, LastSaveSerial
  DEF ActionStep
<1>2. CASE DaemonStep
  BY <1>1, <1>2, DaemonReadsSerial, EvaluateSerial, EndingSerial DEF DaemonStep, Processes
<1>3. CASE AdminStep
  BY <1>1, <1>3, AdminReadsSerial, SetModeSerial, DecideSerial, EndingSerial,
     EnvironmentSerial
  DEF AdminStep, Processes
<1>4. CASE OperatorStop \/ OperatorStart \/ UpstreamChanges \/ UNCHANGED vars
  BY <1>4, EnvironmentSerial
<1>5. CASE \E p \in Processes : Crash(p)
  BY <1>5, EndingSerial
<1> QED
  BY <1>2, <1>3, <1>4, <1>5 DEF Next

(* Every behaviour without overlap satisfies SerialInv. *)
THEOREM SerialInvariance ==
    ASSUME Overlap = FALSE
    PROVE  Spec => []SerialInv
<1>1. Init => SerialInv
  <2> SUFFICES ASSUME Init PROVE SerialInv
    OBVIOUS
  <2>1. /\ \A p \in Processes : pc[p] \in QuietPoints
        /\ OurStop = FALSE
    BY DEF Init, QuietPoints, OurStop
  <2>2. \A p \in Processes : CopyOK(pc[p], op[p], st[p], action[p], row, OurStop)
    BY <2>1, QuietCopyOK
  <2> QED
    BY <2>1, <2>2 DEF SerialInv
<1>2. IInv /\ SerialInv /\ [Next]_vars => SerialInv'
  BY SerialInductive
<1> QED
  BY <1>1, <1>2, Invariance, PTL DEF Spec

(* A service that the Watchdog or maintenance stopped is never forgotten,  *)
(* whatever crashes, failed saves, failed commands and failed              *)
(* compensations happen (DurableServiceActions.stop and start).            *)
THEOREM NeverOrphanStop ==
    ASSUME Overlap = FALSE
    PROVE  Spec => []NoOrphanStop
<1>1. SerialInv => NoOrphanStop
  BY DEF SerialInv, NoOrphanStop, OurStop, Remembers
<1> QED
  BY <1>1, SerialInvariance, PTL

(* Every command runs under the intent that the row holds for it, and an   *)
(* automatic one only while the row has neither maintenance nor override.  *)
THEOREM AlwaysIntentFirst ==
    ASSUME Overlap = FALSE
    PROVE  Spec => IntentBeforeAction
<1>1. ASSUME IInv, SerialInv, NEW p \in Processes, Acts(p)
      PROVE  /\ row.pending_action = action[p]
             /\ action[p] \in AutomaticActions => ~row.maintenance /\ ~row.manual_override
  <2>1. /\ CopyOK(pc[p], op[p], st[p], action[p], row, OurStop) /\ Sound(row)
        /\ pc[p] \in {"act", "resume_act"}
    BY <1>1, CopyFacts DEF Acts
  <2>2. row.pending_action = action[p]
    BY <2>1 DEF CopyOK
  <2>3. row.pending_action \in AutomaticActions => ~row.maintenance /\ ~row.manual_override
    BY <2>1 DEF Sound, Good, IntentSound, AutomaticActions
  <2> QED
    BY <2>2, <2>3
<1>2. IInv /\ SerialInv /\ [Next]_vars =>
        [\A p \in Processes : Acts(p) =>
          /\ row.pending_action = action[p]
          /\ action[p] \in AutomaticActions => ~row.maintenance /\ ~row.manual_override]_vars
  BY <1>1
<1> QED
  BY <1>2, Invariance, SerialInvariance, PTL DEF Spec, IntentBeforeAction

(* The row changes only when a process saves its copy and goes on. *)
LEMMA RowChanges ==
    ASSUME IInv, [Next]_vars, row' # row
    PROVE  \E p \in Processes : pc[p] \in CopyPoints /\ pc'[p] # pc[p] /\ row' = st[p]
<1>1. PICK p \in Processes : ActionStep(p)
  BY DEF Next, DaemonStep, AdminStep, Load, Get, Probe, Evaluate, EvaluateFails, Maintenance,
         AdminBegins, Rearm, SetMode, Decide, WriteMode, ResetProfile, OperatorStop,
         OperatorStart, UpstreamChanges, Crash, vars, Processes
<1>2. /\ row' = st[p]
      /\ \/ ResumeSave(p) /\ ContinueAfterResume(p)
         \/ SaveIntent(p) /\ Goto(p, "query", st[p])
         \/ Commit(p) /\ ReturnTrue(p)
         \/ Recommit(p) /\ ReturnTrue(p)
         \/ Refuse(p) /\ ReturnFalse(p)
         \/ Final(p) /\ Leave(p)
  BY <1>1
  DEF ActionStep, ResumeQuery, ResumeAct, ResumeSave, SaveIntent, Query, Act, Commit, Recommit,
      Compensate, Refuse, Final, Save, SaveFails, CommandSucceeds, CommandFails
<1>3. pc[p] \in {"resume_save", "intent", "commit", "recommit", "refuse", "final"}
  BY <1>2 DEF ResumeSave, SaveIntent, Commit, Recommit, Refuse, Final
<1>4. pc'[p] # pc[p]
  BY <1>2
  DEF ResumeSave, SaveIntent, Commit, Recommit, Refuse, Final, ContinueAfterResume,
      NextAfterResume, Goto, Leave, ReturnTrue, ReturnFalse, IInv, TypeOK
<1> QED
  BY <1>2, <1>3, <1>4 DEF CopyPoints, Points, QuietPoints

(* Once saved, a manual override is only removed by the operator's re-arm  *)
(* or by a start the operator asked for.                                   *)
THEOREM OverrideAlwaysSticky ==
    ASSUME Overlap = FALSE
    PROVE  Spec => OverrideSticky
<1>1. ASSUME IInv, SerialInv, [Next]_vars, row.manual_override, ~row'.manual_override
      PROVE  \E p \in Processes : pc'[p] # pc[p] /\ ForOperator(p)
  <2>1. PICK p \in Processes : pc[p] \in CopyPoints /\ pc'[p] # pc[p] /\ row' = st[p]
    BY <1>1, RowChanges
  <2>2. CopyOK(pc[p], op[p], st[p], action[p], row, OurStop)
    BY <1>1, CopyFacts
  <2>3. ForOperator(p)
    BY <1>1, <2>1, <2>2 DEF CopyOK, ForOperator
  <2> QED
    BY <2>1, <2>3
<1>2. IInv /\ SerialInv /\ [Next]_vars =>
        [(row.manual_override /\ ~row'.manual_override)
           => \E p \in Processes : pc'[p] # pc[p] /\ ForOperator(p)]_vars
  BY <1>1
<1> QED
  BY <1>2, Invariance, SerialInvariance, PTL DEF Spec, OverrideSticky
=============================================================================
