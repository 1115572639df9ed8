---------------------------- MODULE RecoveryClock ---------------------------
(***************************************************************************)
(* The health machine of one profile with its clock: thresholds, recovery  *)
(* hold and jitter and outage times (engine.py _successful_check,          *)
(* _failed_check, _complete_recovery).  ProfileState has the same machine  *)
(* with the deadline reduced to "reached or not", and the comparisons of   *)
(* the service with the row; here the deadline is computed.                *)
(*                                                                         *)
(* The engine reads the wall clock, once per check, in whole seconds.  The *)
(* wall clock may be set back (NTP, an administrator); mono is the time    *)
(* that really passed.  A clock set forward ends the hold early: the       *)
(* deadline is a wall-clock time.                                          *)
(***************************************************************************)
EXTENDS Integers, Sequences

CONSTANTS None,         \* a timestamp field that is None
          FailureThreshold, SuccessThreshold,
          Hold,         \* RECOVERY_HOLD_SECONDS
          JitterMax,    \* RECOVERY_JITTER_MAX_SECONDS
          StepsBack,    \* by how much the wall clock may be set back
          MaxTime       \* bound: the model's last second

ASSUME ClockAssumption ==
    /\ FailureThreshold \in Nat \ {0} /\ SuccessThreshold \in Nat \ {0}
    /\ Hold \in Nat /\ JitterMax \in Nat
    /\ StepsBack \subseteq Nat /\ MaxTime \in Nat

ASSUME NoneAssumption == None \notin Int

VARIABLES
    health_state, failure_count, success_count,
    outage_started_at, recovery_ready_at,
    wall,           \* the wall clock
    mono,           \* history: the time that passed
    recent,         \* history: the last answers, as OutageSpec keeps them
    since,          \* history: when the last SuccessThreshold answers became successes
    opened,         \* history: when the open outage was declared
    reported,       \* history: the last outage, as reported and as it was
    stepped         \* history: was the wall clock stepped?

state == <<health_state, failure_count, success_count, outage_started_at,
           recovery_ready_at>>
history == <<recent, since, opened, reported>>
vars == <<state, history, wall, mono, stepped>>

Abstract == INSTANCE OutageSpec WITH
    outage <- health_state \in {"down", "recovering"}, time <- mono

Times == (-MaxTime)..(2 * MaxTime + Hold + JitterMax)

TypeOK ==
    /\ health_state \in {"unknown", "healthy", "degraded", "down", "recovering"}
    /\ failure_count \in 0..FailureThreshold
    /\ success_count \in 0..SuccessThreshold
    /\ {outage_started_at, recovery_ready_at} \subseteq Times \cup {None}
    /\ wall \in Times /\ mono \in 0..MaxTime
    /\ recent \in Seq(BOOLEAN)
    /\ {since, opened} \subseteq 0..MaxTime
    /\ reported \in [duration : Int \cup {None}, real : Nat]
    /\ stepped \in BOOLEAN

Init ==
    /\ health_state = "unknown" /\ failure_count = 0 /\ success_count = 0
    /\ outage_started_at = None /\ recovery_ready_at = None
    /\ wall = 0 /\ mono = 0
    /\ recent = <<>> /\ since = 0 /\ opened = 0
    /\ reported = [duration |-> None, real |-> 0]
    /\ stepped = FALSE

CapAt(n, limit) == IF n < limit THEN n ELSE limit

-----------------------------------------------------------------------------
(* The engine, in the order process runs it.                               *)

(* History: one more answer. *)
Remember(ok) ==
    /\ recent' = Abstract!Noted(recent, ok)
    /\ since' = IF /\ Abstract!LastAll(recent', SuccessThreshold, TRUE)
                   /\ ~Abstract!LastAll(recent, SuccessThreshold, TRUE)
                THEN mono ELSE since

(* outage_duration of a completed outage. *)
OutageDuration(started) == IF wall > started THEN wall - started ELSE 0

(* _complete_recovery *)
CompleteRecovery ==
    /\ health_state' = "healthy"
    /\ outage_started_at' = None /\ recovery_ready_at' = None
    /\ reported' = [duration |-> OutageDuration(outage_started_at),
                    real |-> mono - opened]

(* Mutants of Qualify: the jitter replaces the hold; the deadline moves on *)
(* with every success.                                                     *)
QualifyEarly(count, ready, jitter) ==
    IF count >= SuccessThreshold /\ ready = None THEN wall + jitter ELSE ready

QualifyAgain(count, ready, jitter) ==
    IF count >= SuccessThreshold THEN wall + Hold + jitter ELSE ready

(* The recovery deadline after a success: kept, or set at the threshold. *)
Qualify(count, ready, jitter) ==
    IF count >= SuccessThreshold /\ ready = None THEN wall + Hold + jitter ELSE ready

(* _successful_check *)
Success(jitter) ==
    LET recovering == health_state \in {"down", "recovering"}
        count == IF health_state = "down" THEN 1
                 ELSE CapAt(success_count + 1, SuccessThreshold)
        ready == Qualify(count, IF health_state = "down" THEN None
                                ELSE recovery_ready_at, jitter)
        complete == count >= SuccessThreshold /\ wall >= ready
    IN  /\ failure_count' = 0
        /\ success_count' = count
        /\ \/ /\ ~recovering
              /\ health_state' = "healthy"
              /\ UNCHANGED <<outage_started_at, recovery_ready_at, reported>>
           \/ /\ recovering /\ ~complete
              /\ health_state' = "recovering"
              /\ recovery_ready_at' = ready
              /\ UNCHANGED <<outage_started_at, reported>>
           \/ recovering /\ complete /\ CompleteRecovery
        /\ Remember(TRUE)
        /\ UNCHANGED <<opened, wall, mono, stepped>>

(* _failed_check: the next health state. *)
Fails(count) ==
    IF health_state = "recovering" \/ count >= FailureThreshold THEN "down"
    ELSE IF health_state \in {"unknown", "healthy"} THEN "degraded"
    ELSE health_state

(* _failed_check: outage_started_at is set. *)
Opens(count) ==
    /\ health_state # "recovering" /\ count >= FailureThreshold
    /\ outage_started_at = None

(* _failed_check *)
Failure ==
    LET count == CapAt(failure_count + 1, FailureThreshold)
    IN  /\ success_count' = 0
        /\ failure_count' = count
        /\ recovery_ready_at' = None
        /\ health_state' = Fails(count)
        /\ outage_started_at' = IF Opens(count) THEN wall ELSE outage_started_at
        /\ opened' = IF health_state \notin {"down", "recovering"} /\ health_state' = "down"
                     THEN mono ELSE opened
        /\ Remember(FALSE)
        /\ UNCHANGED <<reported, wall, mono, stepped>>

(* Time passes, or the wall clock is set back. *)
Tick ==
    /\ mono < MaxTime
    /\ mono' = mono + 1 /\ wall' = wall + 1
    /\ UNCHANGED <<state, history, stepped>>

StepClock(back) ==
    /\ wall' = wall - back /\ wall - back >= -MaxTime
    /\ stepped' = TRUE
    /\ UNCHANGED <<state, history, mono>>

Next ==
    \/ \E jitter \in 0..JitterMax : Success(jitter)
    \/ Failure
    \/ Tick
    \/ \E back \in StepsBack : StepClock(back)

Spec == Init /\ [][Next]_vars

-----------------------------------------------------------------------------
(* While the wall clock runs on steadily.                                  *)

(* A recovery is not put off: once the successes have lasted for the hold  *)
(* and the largest jitter, the outage is closed or the next successful     *)
(* check closes it (_successful_check).                                    *)
RecoveryInTime ==
    (/\ ~stepped
     /\ Abstract!LastAll(recent, SuccessThreshold, TRUE)
     /\ mono >= since + Hold + JitterMax)
        => \/ health_state = "healthy"
           \/ recovery_ready_at # None /\ recovery_ready_at <= wall

-----------------------------------------------------------------------------
(* Whether or not the wall clock is set back.                              *)

(* The counters and deadlines of the engine implement the promise about    *)
(* the checks themselves: no outage without FailureThreshold failures in a *)
(* row, no recovery without SuccessThreshold successes in a row and the    *)
(* hold.                                                                   *)
ImplementsOutageSpec == Abstract!Spec

(* The duration reported for an outage (_complete_recovery) is the time    *)
(* between the check that declared it and the check that ended it; after a *)
(* step of the clock it may be too short, but never negative or too long.  *)
DurationBounded ==
    reported.duration # None =>
        /\ reported.duration \in 0..reported.real
        /\ ~stepped => reported.duration = reported.real

(* The times of the engine are right: well formed, no recovery put off and *)
(* no outage reported longer than it was (_successful_check,               *)
(* _complete_recovery).                                                    *)
TimesRight == TypeOK /\ RecoveryInTime /\ DurationBounded
=============================================================================
