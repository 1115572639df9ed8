------------------------- MODULE RecoveryClockProofs ------------------------
(***************************************************************************)
(* What is proved of the health machine of one profile for any thresholds, *)
(* hold, jitter and interval, and any steps back of the wall clock: its    *)
(* times are right, and it implements OutageSpec.                          *)
(*                                                                         *)
(* The counters stand for the last answers, the deadline for the hold: the *)
(* inductive invariant says how.                                           *)
(***************************************************************************)
EXTENDS RecoveryClock, TLAPS

-----------------------------------------------------------------------------
(* The window of the last answers, whatever the answers are.               *)

(* The window holds k answers, or the one before the last k was this one. *)
EndsAfter(window, k, answer) ==
    \/ Len(window) = k
    \/ Len(window) > k /\ window[Len(window) - k] = answer

(* The window is as long as the larger threshold. *)
LEMMA RememberedType ==
    /\ Abstract!Remembered \in Nat \ {0}
    /\ FailureThreshold <= Abstract!Remembered /\ SuccessThreshold <= Abstract!Remembered
BY ClockAssumption DEF Abstract!Remembered

(* Noted keeps the window a window. *)
LEMMA NotedType ==
    ASSUME NEW A, NEW w \in Seq(A), NEW a \in A, Len(w) <= Abstract!Remembered
    PROVE  /\ Abstract!Noted(w, a) \in Seq(A)
           /\ Len(Abstract!Noted(w, a)) <= Abstract!Remembered
<1>1. Len(w) \in Nat /\ Abstract!Remembered \in Nat \ {0}
  BY RememberedType
<1> QED
  BY <1>1 DEF Abstract!Noted

(* A window that is not full grows by the answer. *)
LEMMA NotedOfRoom ==
    ASSUME NEW A, NEW w \in Seq(A), NEW a \in A, Len(w) < Abstract!Remembered
    PROVE  /\ Len(Abstract!Noted(w, a)) = Len(w) + 1
           /\ Abstract!Noted(w, a)[Len(w) + 1] = a
           /\ \A i \in 1..Len(w) : Abstract!Noted(w, a)[i] = w[i]
<1>1. Len(w) \in Nat /\ Abstract!Remembered \in Nat \ {0}
  BY RememberedType
<1>2. Abstract!Noted(w, a) = Append(w, a)
  BY <1>1 DEF Abstract!Noted
<1> QED
  BY <1>1, <1>2

(* A full one drops its oldest answer. *)
LEMMA NotedOfFull ==
    ASSUME NEW A, NEW w \in Seq(A), NEW a \in A, Len(w) = Abstract!Remembered
    PROVE  /\ Len(Abstract!Noted(w, a)) = Len(w)
           /\ Abstract!Noted(w, a)[Len(w)] = a
           /\ \A i \in 1..(Len(w) - 1) : Abstract!Noted(w, a)[i] = w[i + 1]
<1> DEFINE all == Append(w, a)
<1>1. Len(w) \in Nat /\ Abstract!Remembered \in Nat \ {0}
  BY RememberedType
<1>2. /\ all \in Seq(A) /\ Len(all) = Len(w) + 1 /\ all[Len(w) + 1] = a
      /\ \A i \in 1..Len(w) : all[i] = w[i]
  OBVIOUS
<1>3. Abstract!Noted(w, a) = Tail(all)
  BY <1>1, <1>2 DEF Abstract!Noted
<1> HIDE DEF all
<1>4. /\ Len(Tail(all)) = Len(all) - 1
      /\ \A i \in 1..(Len(all) - 1) : Tail(all)[i] = all[i + 1]
  BY <1>1, <1>2
<1> QED
  BY <1>1, <1>2, <1>3, <1>4

(* One more of the same answers. *)
LEMMA LastAllGrows ==
    ASSUME NEW A, NEW w \in Seq(A), NEW a \in A, NEW k \in Nat,
           Len(w) <= Abstract!Remembered, Abstract!LastAll(w, k, a),
           NEW m \in Nat, m <= k + 1, m <= Abstract!Remembered
    PROVE  Abstract!LastAll(Abstract!Noted(w, a), m, a)
<1>1. Len(w) \in Nat /\ Abstract!Remembered \in Nat \ {0}
  BY RememberedType
<1>2. Len(w) >= k /\ \A i \in (Len(w) - k + 1)..Len(w) : w[i] = a
  BY DEF Abstract!LastAll
<1>3. CASE Len(w) < Abstract!Remembered
  BY <1>1, <1>2, <1>3, NotedOfRoom, SMTT(30) DEF Abstract!LastAll
<1>4. CASE Len(w) = Abstract!Remembered
  BY <1>1, <1>2, <1>4, NotedOfFull DEF Abstract!LastAll
<1> QED
  BY <1>1, <1>3, <1>4

(* No answers are all the same. *)
LEMMA LastAllNone ==
    ASSUME NEW A, NEW w \in Seq(A), NEW a
    PROVE  Abstract!LastAll(w, 0, a)
BY DEF Abstract!LastAll

(* What comes before the last k answers comes before the last k + 1 of the *)
(* longer window, unless it is dropped.                                    *)
LEMMA EndsAfterGrows ==
    ASSUME NEW A, NEW w \in Seq(A), NEW a \in A, NEW b \in A, NEW k \in Nat,
           Len(w) <= Abstract!Remembered, EndsAfter(w, k, b), k + 1 < Abstract!Remembered
    PROVE  EndsAfter(Abstract!Noted(w, a), k + 1, b)
<1>1. Len(w) \in Nat /\ Abstract!Remembered \in Nat \ {0}
  BY RememberedType
<1>2. CASE Len(w) < Abstract!Remembered
  BY <1>1, <1>2, NotedOfRoom DEF EndsAfter
<1>3. CASE Len(w) = Abstract!Remembered
  BY <1>1, <1>3, NotedOfFull DEF EndsAfter
<1> QED
  BY <1>1, <1>2, <1>3

(* A window ends with the answer noted last. *)
LEMMA EndsAfterNoted ==
    ASSUME NEW A, NEW w \in Seq(A), NEW a \in A, Len(w) <= Abstract!Remembered
    PROVE  EndsAfter(Abstract!Noted(w, a), 0, a)
<1>1. Len(w) \in Nat /\ Abstract!Remembered \in Nat \ {0}
  BY RememberedType
<1>2. CASE Len(w) < Abstract!Remembered
  BY <1>1, <1>2, NotedOfRoom DEF EndsAfter
<1>3. CASE Len(w) = Abstract!Remembered
  BY <1>1, <1>3, NotedOfFull DEF EndsAfter
<1> QED
  BY <1>1, <1>2, <1>3

(* More than k answers are not all the same if another one came before k. *)
LEMMA EndsAfterRefutes ==
    ASSUME NEW A, NEW w \in Seq(A), NEW a \in A, NEW b \in A, a # b, NEW k \in Nat,
           EndsAfter(w, k, b), NEW n \in Nat, k < n
    PROVE  ~Abstract!LastAll(w, n, a)
<1>1. Len(w) \in Nat
  OBVIOUS
<1>2. SUFFICES ASSUME Len(w) >= n, \A i \in (Len(w) - n + 1)..Len(w) : w[i] = a
              PROVE  FALSE
  BY DEF Abstract!LastAll
<1>3. Len(w) > k /\ w[Len(w) - k] = b
  BY <1>1, <1>2 DEF EndsAfter
<1>4. Len(w) - k \in (Len(w) - n + 1)..Len(w)
  BY <1>1, <1>2
<1> QED
  BY <1>2, <1>3, <1>4

-----------------------------------------------------------------------------
(* The inductive invariant.                                                *)

Outage == health_state \in {"down", "recovering"}

(* The counters count the last answers.  Fewer successes than the          *)
(* threshold are all there were since the last failure.                    *)
WindowOK ==
    /\ recent \in Seq(BOOLEAN) /\ Len(recent) <= Abstract!Remembered
    /\ failure_count \in 0..FailureThreshold /\ success_count \in 0..SuccessThreshold
    /\ Abstract!LastAll(recent, failure_count, FALSE)
    /\ Abstract!LastAll(recent, success_count, TRUE)
    /\ success_count < SuccessThreshold => EndsAfter(recent, success_count, FALSE)

(* The deadline is there when the successes are, during an outage. *)
HealthOK ==
    /\ health_state \in {"unknown", "healthy", "degraded", "down", "recovering"}
    /\ outage_started_at # None <=> Outage
    /\ health_state = "down" => success_count = 0
    /\ health_state \in {"unknown", "degraded"} => success_count = 0
    /\ recovery_ready_at # None <=>
          health_state = "recovering" /\ success_count = SuccessThreshold

(* The wall clock is never ahead of the time that passed. *)
ClockOK ==
    /\ mono \in 0..MaxTime /\ wall \in Int /\ -MaxTime <= wall /\ wall <= mono
    /\ since \in 0..mono /\ opened \in 0..mono
    /\ stepped \in BOOLEAN
    /\ ~stepped => wall = mono

(* The deadline, in the time that passed, is not before the hold has       *)
(* passed; without a step of the clock it is not after the largest jitter. *)
ReadyOK ==
    recovery_ready_at # None =>
        /\ recovery_ready_at \in (-MaxTime)..(MaxTime + Hold + JitterMax)
        /\ recovery_ready_at + (mono - wall) >= since + Hold
        /\ ~stepped => recovery_ready_at <= since + Hold + JitterMax

(* The outage seems no longer than it is. *)
StartedOK ==
    outage_started_at # None =>
        /\ outage_started_at \in (-MaxTime)..MaxTime
        /\ wall - outage_started_at <= mono - opened
        /\ ~stepped => outage_started_at = opened

ReportOK ==
    /\ reported \in [duration : Int \cup {None}, real : Nat]
    /\ DurationBounded

IInv == WindowOK /\ HealthOK /\ ClockOK /\ ReadyOK /\ StartedOK /\ ReportOK

(* The engine's count is right about the last answers. *)
LEMMA QualifiedIff ==
    ASSUME NEW w \in Seq(BOOLEAN), NEW k \in 0..SuccessThreshold,
           Abstract!LastAll(w, k, TRUE), k < SuccessThreshold => EndsAfter(w, k, FALSE)
    PROVE  Abstract!LastAll(w, SuccessThreshold, TRUE) <=> k = SuccessThreshold
<1>1. k \in Nat /\ SuccessThreshold \in Nat /\ (k # SuccessThreshold => k < SuccessThreshold)
  BY ClockAssumption
<1>2. TRUE \in BOOLEAN /\ FALSE \in BOOLEAN /\ TRUE # FALSE
  BY Zenon
<1>3. k # SuccessThreshold => ~Abstract!LastAll(w, SuccessThreshold, TRUE)
  BY <1>1, <1>2, EndsAfterRefutes, Zenon
<1> QED
  BY <1>3, Zenon

(* A success is counted, up to the threshold. *)
LEMMA SuccessCounted ==
    ASSUME WindowOK, recent' = Abstract!Noted(recent, TRUE), failure_count' = 0,
           success_count' = CapAt(success_count + 1, SuccessThreshold)
    PROVE  WindowOK'
<1>1. /\ success_count \in 0..SuccessThreshold /\ success_count \in Nat
      /\ SuccessThreshold \in Nat \ {0} /\ FailureThreshold \in Nat
  BY ClockAssumption DEF WindowOK
<1>2. /\ recent \in Seq(BOOLEAN) /\ Len(recent) <= Abstract!Remembered
      /\ TRUE \in BOOLEAN /\ FALSE \in BOOLEAN
      /\ Abstract!LastAll(recent, success_count, TRUE)
      /\ success_count < SuccessThreshold => EndsAfter(recent, success_count, FALSE)
  BY Zenon DEF WindowOK
<1>3. recent' \in Seq(BOOLEAN) /\ Len(recent') <= Abstract!Remembered
  BY <1>2, NotedType, Zenon
<1>5. /\ success_count' \in 0..SuccessThreshold /\ success_count' \in Nat
      /\ success_count' <= success_count + 1 /\ success_count' <= Abstract!Remembered
  BY <1>1, RememberedType DEF CapAt
<1>6. Abstract!LastAll(recent', success_count', TRUE)
  BY <1>1, <1>2, <1>5, LastAllGrows, Zenon
<1>7. ASSUME success_count' < SuccessThreshold PROVE EndsAfter(recent', success_count', FALSE)
  <2>1. /\ success_count' = success_count + 1 /\ success_count < SuccessThreshold
        /\ success_count + 1 < Abstract!Remembered
    BY <1>1, <1>7, RememberedType DEF CapAt
  <2> QED
    BY <1>1, <1>2, <2>1, EndsAfterGrows, Zenon
<1>8. Abstract!LastAll(recent', 0, FALSE)
  BY <1>3, LastAllNone, Zenon
<1>9. 0 \in 0..FailureThreshold
  BY <1>1
<1> QED
  BY <1>3, <1>5, <1>6, <1>7, <1>8, <1>9, Zenon DEF WindowOK

(* So is a failure. *)
LEMMA FailureCounted ==
    ASSUME WindowOK, recent' = Abstract!Noted(recent, FALSE), success_count' = 0,
           failure_count' = CapAt(failure_count + 1, FailureThreshold)
    PROVE  WindowOK'
<1>1. /\ failure_count \in 0..FailureThreshold /\ failure_count \in Nat
      /\ FailureThreshold \in Nat \ {0} /\ SuccessThreshold \in Nat
  BY ClockAssumption DEF WindowOK
<1>2. /\ recent \in Seq(BOOLEAN) /\ Len(recent) <= Abstract!Remembered
      /\ FALSE \in BOOLEAN /\ Abstract!LastAll(recent, failure_count, FALSE)
  BY Zenon DEF WindowOK
<1>3. recent' \in Seq(BOOLEAN) /\ Len(recent') <= Abstract!Remembered
  BY <1>2, NotedType, Zenon
<1>5. /\ failure_count' \in 0..FailureThreshold /\ failure_count' \in Nat
      /\ failure_count' <= failure_count + 1 /\ failure_count' <= Abstract!Remembered
  BY <1>1, RememberedType DEF CapAt
<1>6. Abstract!LastAll(recent', failure_count', FALSE)
  BY <1>1, <1>2, <1>5, LastAllGrows, Zenon
<1>7. EndsAfter(recent', 0, FALSE)
  BY <1>2, EndsAfterNoted, Zenon
<1>8. Abstract!LastAll(recent', 0, TRUE)
  BY <1>3, LastAllNone, Zenon
<1>9. 0 \in 0..SuccessThreshold
  BY <1>1
<1> QED
  BY <1>3, <1>5, <1>6, <1>7, <1>8, <1>9, Zenon DEF WindowOK

(* The history of the successes follows the count. *)
LEMMA SinceFollows ==
    ASSUME WindowOK, WindowOK', NEW ok \in BOOLEAN, Remember(ok)
    PROVE  since' = IF success_count' = SuccessThreshold /\ success_count # SuccessThreshold
                    THEN mono ELSE since
<1>1. Abstract!LastAll(recent, SuccessThreshold, TRUE) <=> success_count = SuccessThreshold
  BY QualifiedIff, Zenon DEF WindowOK
<1>2. Abstract!LastAll(recent', SuccessThreshold, TRUE) <=> success_count' = SuccessThreshold
  BY QualifiedIff, Zenon DEF WindowOK
<1> QED
  BY <1>1, <1>2, Zenon DEF Remember

-----------------------------------------------------------------------------
(* Every step keeps the invariant.                                         *)

(* A success, with the count and the deadline read off the invariant. *)
LEMMA SuccessIs ==
    ASSUME WindowOK, HealthOK, NEW jitter \in 0..JitterMax, Success(jitter),
           NEW ready, ready = Qualify(success_count', recovery_ready_at, jitter)
    PROVE  /\ success_count' = CapAt(success_count + 1, SuccessThreshold)
           /\ \/ /\ ~Outage /\ health_state' = "healthy"
                 /\ UNCHANGED <<outage_started_at, recovery_ready_at, reported>>
              \/ /\ Outage /\ ~(success_count' >= SuccessThreshold /\ wall >= ready)
                 /\ health_state' = "recovering" /\ recovery_ready_at' = ready
                 /\ UNCHANGED <<outage_started_at, reported>>
              \/ /\ Outage /\ success_count' >= SuccessThreshold /\ wall >= ready
                 /\ CompleteRecovery
<1>1. SuccessThreshold \in Nat \ {0} /\ success_count \in 0..SuccessThreshold
  BY ClockAssumption DEF WindowOK
<1>2. health_state = "down" => recovery_ready_at = None /\ success_count = 0
  BY DEF HealthOK
<1>3. success_count' = CapAt(success_count + 1, SuccessThreshold)
  BY <1>1, <1>2 DEF Success, CapAt
<1> QED
  BY <1>2, <1>3 DEF Success, Outage

(* The times of a closed outage are right. *)
LEMMA DurationRight ==
    ASSUME ClockOK, StartedOK, Outage, HealthOK, CompleteRecovery, UNCHANGED stepped
    PROVE  ReportOK'
<1>1. mono \in Nat /\ wall \in Int /\ opened \in 0..mono /\ MaxTime \in Nat
  BY ClockAssumption DEF ClockOK
<1>2. /\ outage_started_at \in Int /\ wall - outage_started_at <= mono - opened
      /\ ~stepped => wall = mono /\ outage_started_at = opened
  BY <1>1 DEF StartedOK, HealthOK, ClockOK
<1> DEFINE duration == OutageDuration(outage_started_at)
<1>3. /\ duration \in 0..(mono - opened)
      /\ ~stepped => duration = mono - opened
  BY <1>1, <1>2 DEF OutageDuration
<1>4. reported' = [duration |-> duration, real |-> mono - opened]
  BY DEF CompleteRecovery
<1> HIDE DEF duration
<1> QED
  BY <1>1, <1>3, <1>4 DEF ReportOK, DurationBounded

(* An invariant of the report that nothing it is about changes. *)
LEMMA ReportUnchanged ==
    ASSUME ReportOK, reported' = reported, stepped' = stepped \/ stepped' = TRUE
    PROVE  ReportOK'
BY DEF ReportOK, DurationBounded

(* _successful_check *)
LEMMA SuccessKeeps ==
    ASSUME IInv, NEW jitter \in 0..JitterMax, Success(jitter)
    PROVE  IInv'
<1> DEFINE ready == Qualify(success_count', recovery_ready_at, jitter)
<1>1. WindowOK /\ HealthOK /\ ClockOK /\ ReadyOK /\ StartedOK /\ ReportOK
  BY Zenon DEF IInv
<1>2. /\ failure_count' = 0 /\ Remember(TRUE)
      /\ UNCHANGED <<opened, wall, mono, stepped>>
  BY DEF Success
<1>3. /\ success_count' = CapAt(success_count + 1, SuccessThreshold)
      /\ \/ /\ ~Outage /\ health_state' = "healthy"
            /\ UNCHANGED <<outage_started_at, recovery_ready_at, reported>>
         \/ /\ Outage /\ ~(success_count' >= SuccessThreshold /\ wall >= ready)
            /\ health_state' = "recovering" /\ recovery_ready_at' = ready
            /\ UNCHANGED <<outage_started_at, reported>>
         \/ /\ Outage /\ success_count' >= SuccessThreshold /\ wall >= ready
            /\ CompleteRecovery
  BY <1>1, SuccessIs
<1>4. WindowOK'
  <2>1. recent' = Abstract!Noted(recent, TRUE)
    BY <1>2, Zenon DEF Remember
  <2> QED
    BY <1>1, <1>2, <1>3, <2>1, SuccessCounted
<1>5. since' = IF success_count' = SuccessThreshold /\ success_count # SuccessThreshold
               THEN mono ELSE since
  BY <1>1, <1>2, <1>4, SinceFollows
<1>6. /\ mono \in Nat /\ wall \in Int /\ MaxTime \in Nat /\ Hold \in Nat /\ jitter \in Nat
      /\ jitter <= JitterMax /\ JitterMax \in Nat /\ SuccessThreshold \in Nat \ {0}
      /\ success_count \in 0..SuccessThreshold /\ success_count' \in 1..SuccessThreshold
      /\ mono <= MaxTime /\ -MaxTime <= wall /\ wall <= mono /\ since \in 0..mono
      /\ success_count = SuccessThreshold => success_count' = SuccessThreshold
      /\ success_count' = SuccessThreshold => success_count' >= SuccessThreshold
  BY <1>1, <1>3, ClockAssumption DEF WindowOK, ClockOK, CapAt
<1>7. ClockOK'
  BY <1>1, <1>2, <1>5 DEF ClockOK
<1>8. ready = IF success_count' = SuccessThreshold /\ recovery_ready_at = None
              THEN wall + Hold + jitter ELSE recovery_ready_at
  BY <1>6 DEF Qualify
<1> HIDE DEF ready
<1>9. HealthOK'
  BY <1>1, <1>3, <1>6, <1>8, NoneAssumption DEF HealthOK, Outage, CompleteRecovery
<1>10. ReadyOK'
  <2>1. CASE ~Outage
    BY <1>1, <1>3, <2>1 DEF HealthOK, ReadyOK, Outage
  <2>2. CASE CompleteRecovery
    BY <2>2 DEF CompleteRecovery, ReadyOK
  <2>3. CASE Outage /\ recovery_ready_at' = ready
    <3>1. CASE recovery_ready_at # None
      <4>1. since' = since /\ recovery_ready_at' = recovery_ready_at
        BY <1>1, <1>5, <1>8, <2>3, <3>1 DEF HealthOK
      <4> QED
        BY <1>1, <1>2, <4>1 DEF ReadyOK
    <3>2. CASE recovery_ready_at = None /\ success_count' = SuccessThreshold
      <4>1. since' = mono
        BY <1>1, <1>5, <2>3, <3>2, <1>6 DEF HealthOK, Outage
      <4>2. recovery_ready_at' = wall + Hold + jitter
        BY <1>8, <2>3, <3>2
      <4>3. ~stepped => wall = mono
        BY <1>1 DEF ClockOK
      <4> QED
        BY <1>2, <1>6, <4>1, <4>2, <4>3 DEF ReadyOK
    <3>3. CASE recovery_ready_at = None /\ success_count' # SuccessThreshold
      BY <1>8, <2>3, <3>3 DEF ReadyOK
    <3> QED
      BY <3>1, <3>2, <3>3
  <2> QED
    BY <1>3, <2>1, <2>2, <2>3
<1>11. StartedOK'
  BY <1>1, <1>2, <1>3 DEF StartedOK, CompleteRecovery
<1>12. ReportOK'
  BY <1>1, <1>2, <1>3, DurationRight, ReportUnchanged
<1> QED
  BY <1>4, <1>7, <1>9, <1>10, <1>11, <1>12, Zenon DEF IInv

(* _failed_check *)
LEMMA FailureKeeps ==
    ASSUME IInv, Failure
    PROVE  IInv'
<1>1. WindowOK /\ HealthOK /\ ClockOK /\ ReadyOK /\ StartedOK /\ ReportOK
  BY Zenon DEF IInv
<1>2. /\ failure_count' = CapAt(failure_count + 1, FailureThreshold) /\ success_count' = 0
      /\ recovery_ready_at' = None /\ Remember(FALSE)
      /\ UNCHANGED <<reported, wall, mono, stepped>>
  BY DEF Failure
<1>3. WindowOK'
  <2>1. recent' = Abstract!Noted(recent, FALSE)
    BY <1>2, Zenon DEF Remember
  <2> QED
    BY <1>1, <1>2, <2>1, FailureCounted
<1>4. /\ mono \in Nat /\ wall \in Int /\ MaxTime \in Nat /\ SuccessThreshold \in Nat \ {0}
      /\ mono <= MaxTime /\ -MaxTime <= wall /\ wall <= mono
  BY <1>1, ClockAssumption DEF ClockOK
<1>5. since' = since
  BY <1>1, <1>2, <1>3, <1>4, SinceFollows
<1>6. \/ Outage /\ health_state' = "down" /\ UNCHANGED <<outage_started_at, opened>>
      \/ /\ ~Outage /\ health_state' = "down"
         /\ outage_started_at' = wall /\ opened' = mono
      \/ /\ ~Outage /\ health_state' = "degraded"
         /\ UNCHANGED <<outage_started_at, opened>>
  BY <1>1 DEF Failure, Fails, Opens, HealthOK, Outage
<1>7. ClockOK'
  BY <1>1, <1>2, <1>4, <1>5, <1>6 DEF ClockOK
<1>8. HealthOK'
  BY <1>1, <1>2, <1>4, <1>6, NoneAssumption DEF HealthOK, Outage
<1>9. ReadyOK'
  BY <1>2 DEF ReadyOK
<1>10. StartedOK'
  <2>1. ~stepped => wall = mono
    BY <1>1 DEF ClockOK
  <2> QED
    BY <1>1, <1>2, <1>4, <1>6, <2>1 DEF StartedOK
<1>11. ReportOK'
  BY <1>1, <1>2, ReportUnchanged
<1> QED
  BY <1>3, <1>7, <1>8, <1>9, <1>10, <1>11, Zenon DEF IInv

(* The counters and the window stay. *)
LEMMA StateUnchanged ==
    ASSUME IInv, UNCHANGED <<state, history>>
    PROVE  WindowOK' /\ HealthOK'
<1>1. WindowOK'
  BY Zenon DEF IInv, WindowOK, state, history
<1>2. HealthOK'
  BY DEF IInv, HealthOK, Outage, state
<1> QED
  BY <1>1, <1>2

(* A second passes. *)
LEMMA TickKeeps ==
    ASSUME IInv, Tick
    PROVE  IInv'
<1>1. ClockOK /\ ReadyOK /\ StartedOK /\ ReportOK
  BY Zenon DEF IInv
<1>2. /\ mono' = mono + 1 /\ wall' = wall + 1 /\ mono < MaxTime
      /\ UNCHANGED <<recovery_ready_at, outage_started_at, stepped,
                     since, opened, reported>>
  BY DEF Tick, state, history
<1>3. /\ mono \in Nat /\ wall \in Int /\ MaxTime \in Nat /\ Hold \in Nat /\ JitterMax \in Nat
      /\ since \in 0..mono /\ opened \in 0..mono
  BY <1>1, ClockAssumption DEF ClockOK
<1>4. ClockOK'
  BY <1>1, <1>2, <1>3 DEF ClockOK
<1>5. ReadyOK'
  BY <1>1, <1>2, <1>3 DEF ReadyOK
<1>6. StartedOK'
  BY <1>1, <1>2, <1>3 DEF StartedOK
<1>7. ReportOK'
  BY <1>1, <1>2, ReportUnchanged
<1>8. WindowOK' /\ HealthOK'
  BY StateUnchanged DEF Tick
<1> QED
  BY <1>4, <1>5, <1>6, <1>7, <1>8, Zenon DEF IInv

(* The wall clock is set back: what was due is due later, what lasted      *)
(* seems to have lasted less.                                              *)
LEMMA StepClockKeeps ==
    ASSUME IInv, NEW back \in StepsBack, StepClock(back)
    PROVE  IInv'
<1>1. ClockOK /\ ReadyOK /\ StartedOK /\ ReportOK
  BY Zenon DEF IInv
<1>2. /\ wall' = wall - back /\ wall - back >= -MaxTime /\ stepped' = TRUE
      /\ UNCHANGED <<recovery_ready_at, outage_started_at, mono,
                     since, opened, reported>>
  BY DEF StepClock, state, history
<1>3. /\ mono \in Nat /\ wall \in Int /\ MaxTime \in Nat /\ Hold \in Nat /\ back \in Nat
      /\ since \in 0..mono /\ opened \in 0..mono /\ JitterMax \in Nat
  BY <1>1, ClockAssumption DEF ClockOK
<1>4. ClockOK'
  BY <1>1, <1>2, <1>3 DEF ClockOK
<1>5. ReadyOK'
  BY <1>1, <1>2, <1>3 DEF ReadyOK
<1>6. StartedOK'
  BY <1>1, <1>2, <1>3 DEF StartedOK
<1>7. ReportOK'
  BY <1>1, <1>2, ReportUnchanged
<1>8. WindowOK' /\ HealthOK'
  BY StateUnchanged DEF StepClock
<1> QED
  BY <1>4, <1>5, <1>6, <1>7, <1>8, Zenon DEF IInv

(* The first state. *)
LEMMA InvInit == Init => IInv
<1> SUFFICES ASSUME Init PROVE IInv
  OBVIOUS
<1>1. /\ FailureThreshold \in Nat /\ SuccessThreshold \in Nat \ {0} /\ MaxTime \in Nat
      /\ Abstract!Remembered \in Nat
  BY ClockAssumption, RememberedType
<1>2. <<>> \in Seq(BOOLEAN) /\ Len(<<>>) = 0
  OBVIOUS
<1>3. Abstract!LastAll(<<>>, 0, FALSE) /\ Abstract!LastAll(<<>>, 0, TRUE)
  BY <1>2, LastAllNone, Zenon
<1>4. 0 \in 0..FailureThreshold /\ 0 \in 0..SuccessThreshold /\ 0 <= Abstract!Remembered
  BY <1>1
<1>5. EndsAfter(<<>>, 0, FALSE)
  BY <1>2, Zenon DEF EndsAfter
<1>6. WindowOK
  BY <1>2, <1>3, <1>4, <1>5, Zenon DEF Init, WindowOK
<1>7. HealthOK
  BY <1>1 DEF Init, HealthOK, Outage
<1>9. ClockOK
  <2>1. stepped \in BOOLEAN /\ (~stepped => wall = mono)
    BY Zenon DEF Init
  <2>2. /\ mono \in 0..MaxTime /\ wall \in Int /\ -MaxTime <= wall /\ wall <= mono
        /\ since \in 0..mono /\ opened \in 0..mono
    BY <1>1 DEF Init
  <2> QED
    BY <2>1, <2>2, Zenon DEF ClockOK
<1>8. ReadyOK /\ StartedOK /\ ReportOK
  BY DEF Init, ReadyOK, StartedOK, ReportOK, DurationBounded
<1> QED
  BY <1>6, <1>7, <1>8, <1>9, Zenon DEF IInv

(* Every step, or none. *)
LEMMA InvStep == IInv /\ [Next]_vars => IInv'
<1> SUFFICES ASSUME IInv, [Next]_vars PROVE IInv'
  OBVIOUS
<1>1. CASE UNCHANGED vars
  <2>1. /\ UNCHANGED <<state, history>> /\ UNCHANGED <<wall, mono, stepped, since, opened>>
        /\ UNCHANGED <<recovery_ready_at, outage_started_at>>
        /\ UNCHANGED reported
    BY <1>1 DEF vars, state, history
  <2>2. ClockOK /\ ReadyOK /\ StartedOK /\ ReportOK
    BY Zenon DEF IInv
  <2>3. ClockOK' /\ ReadyOK' /\ StartedOK'
    BY <2>1, <2>2 DEF ClockOK, ReadyOK, StartedOK
  <2>4. ReportOK'
    BY <2>1, <2>2, ReportUnchanged
  <2>5. WindowOK' /\ HealthOK'
    BY <2>1, StateUnchanged
  <2> QED
    BY <2>3, <2>4, <2>5, Zenon DEF IInv
<1> QED
  BY <1>1, SuccessKeeps, FailureKeeps, TickKeeps, StepClockKeeps, Zenon DEF Next

(* The invariant holds of every behaviour. *)
LEMMA InvAlways == Spec => []IInv
BY InvInit, InvStep, PTL DEF Spec

-----------------------------------------------------------------------------
(* The theorems.                                                           *)

(* What the invariant says of the times. *)
LEMMA TimesRightByInv == IInv => TimesRight
<1> SUFFICES ASSUME IInv PROVE TimesRight
  OBVIOUS
<1>1. WindowOK /\ HealthOK /\ ClockOK /\ ReadyOK /\ StartedOK /\ ReportOK
  BY Zenon DEF IInv
<1>2. /\ MaxTime \in Nat /\ Hold \in Nat /\ JitterMax \in Nat /\ SuccessThreshold \in Nat \ {0}
      /\ mono \in Nat /\ mono <= MaxTime /\ wall \in Int /\ -MaxTime <= wall /\ wall <= mono
      /\ since \in 0..mono
  BY <1>1, ClockAssumption DEF ClockOK
<1>3. TypeOK
  <2>1. {outage_started_at, recovery_ready_at} \subseteq Times \cup {None}
    BY <1>1, <1>2 DEF ReadyOK, StartedOK, Times
  <2>2. /\ wall \in Times /\ mono \in 0..MaxTime /\ {since, opened} \subseteq 0..MaxTime
        /\ health_state \in {"unknown", "healthy", "degraded", "down", "recovering"}
    BY <1>1, <1>2 DEF ClockOK, Times, HealthOK
  <2>3. /\ failure_count \in 0..FailureThreshold /\ success_count \in 0..SuccessThreshold
        /\ recent \in Seq(BOOLEAN) /\ stepped \in BOOLEAN
        /\ reported \in [duration : Int \cup {None}, real : Nat]
    BY <1>1, Zenon DEF WindowOK, ClockOK, ReportOK
  <2> QED
    BY <2>1, <2>2, <2>3, Zenon DEF TypeOK
<1>4. RecoveryInTime
  <2>1. SUFFICES ASSUME ~stepped, Abstract!LastAll(recent, SuccessThreshold, TRUE),
                        mono >= since + Hold + JitterMax
                 PROVE  \/ health_state = "healthy"
                        \/ recovery_ready_at # None /\ recovery_ready_at <= wall
    BY Zenon DEF RecoveryInTime
  <2>2. success_count = SuccessThreshold
    BY <1>1, <2>1, QualifiedIff, Zenon DEF WindowOK
  <2>3. CASE health_state = "recovering"
    <3>1. recovery_ready_at # None
      BY <1>1, <2>2, <2>3 DEF HealthOK
    <3>2. recovery_ready_at \in Int /\ recovery_ready_at <= since + Hold + JitterMax
      BY <1>1, <1>2, <2>1, <3>1 DEF ReadyOK
    <3>3. wall = mono
      BY <1>1, <2>1 DEF ClockOK
    <3> QED
      BY <1>2, <2>1, <3>1, <3>2, <3>3
  <2>4. CASE health_state # "recovering"
    BY <1>1, <1>2, <2>2, <2>4 DEF HealthOK
  <2> QED
    BY <2>3, <2>4
<1>5. DurationBounded
  BY <1>1 DEF ReportOK
<1> QED
  BY <1>3, <1>4, <1>5, Zenon DEF TimesRight

(* The times of the engine are right whatever the thresholds, the hold and *)
(* the jitter: while the wall clock runs steadily no recovery is put off   *)
(* beyond hold and jitter, and a reported outage is never longer than it   *)
(* was, even when the clock is set back (_successful_check,                *)
(* _complete_recovery).                                                    *)
THEOREM TimesAlwaysRight == Spec => []TimesRight
BY InvAlways, TimesRightByInv, PTL

-----------------------------------------------------------------------------
(* The refinement of OutageSpec.                                           *)

(* A success is a check that succeeded; if it closes the outage, the last  *)
(* SuccessThreshold checks succeeded and the hold has passed.              *)
LEMMA SuccessImplements ==
    ASSUME IInv, IInv', NEW jitter \in 0..JitterMax, Success(jitter)
    PROVE  Abstract!Check(TRUE)
<1> DEFINE ready == Qualify(success_count', recovery_ready_at, jitter)
<1>1. WindowOK /\ HealthOK /\ ClockOK /\ ReadyOK /\ WindowOK'
  BY Zenon DEF IInv
<1>2. /\ \/ ~Outage /\ health_state' = "healthy"
         \/ Outage /\ health_state' = "recovering"
         \/ /\ Outage /\ success_count' >= SuccessThreshold /\ wall >= ready
            /\ health_state' = "healthy"
      /\ success_count' = CapAt(success_count + 1, SuccessThreshold)
  BY <1>1, SuccessIs DEF CompleteRecovery
<1>3. Remember(TRUE) /\ UNCHANGED mono
  BY DEF Success
<1>4. since' = IF success_count' = SuccessThreshold /\ success_count # SuccessThreshold
               THEN mono ELSE since
  BY <1>1, <1>3, SinceFollows
<1>5. /\ mono \in Nat /\ wall \in Int /\ Hold \in Nat /\ jitter \in Nat /\ since \in 0..mono
      /\ MaxTime \in Nat /\ JitterMax \in Nat /\ SuccessThreshold \in Nat \ {0}
      /\ success_count \in 0..SuccessThreshold /\ wall <= mono
  BY <1>1, ClockAssumption DEF WindowOK, ClockOK
<1>6. ASSUME Outage, success_count' >= SuccessThreshold, wall >= ready
      PROVE  /\ Abstract!LastAll(recent', SuccessThreshold, TRUE)
             /\ mono >= since' + Hold
  <2>1. success_count' = SuccessThreshold
    BY <1>2, <1>5, <1>6 DEF CapAt
  <2>2. Abstract!LastAll(recent', SuccessThreshold, TRUE)
    BY <1>1, <2>1, Zenon DEF WindowOK
  <2>3. CASE recovery_ready_at = None
    <3>1. ready = wall + Hold + jitter
      BY <1>6, <2>3 DEF Qualify
    <3>2. Hold = 0 /\ jitter = 0
      BY <1>5, <1>6, <3>1
    <3>3. success_count # SuccessThreshold
      BY <1>1, <1>5, <1>6, <2>3 DEF HealthOK, Outage
    <3>4. mono >= since' + Hold
      BY <1>4, <1>5, <2>1, <3>2, <3>3
    <3> QED
      BY <2>2, <3>4, Zenon
  <2>4. CASE recovery_ready_at # None
    <3>1. ready = recovery_ready_at /\ success_count = SuccessThreshold
      BY <1>1, <2>4 DEF Qualify, HealthOK
    <3>2. recovery_ready_at \in Int /\ recovery_ready_at + (mono - wall) >= since + Hold
      BY <1>1, <1>5, <2>4 DEF ReadyOK
    <3>3. mono >= since + Hold
      BY <1>5, <1>6, <3>1, <3>2
    <3> QED
      BY <1>4, <2>2, <3>1, <3>3
  <2> QED
    BY <2>3, <2>4
<1> HIDE DEF ready
<1>7. \/ Outage' = Outage
      \/ Outage /\ ~Outage' /\ success_count' >= SuccessThreshold /\ wall >= ready
  BY <1>2 DEF Outage
<1>8. /\ recent' = Abstract!Noted(recent, TRUE) /\ mono' = mono
      /\ since' = IF /\ Abstract!LastAll(recent', SuccessThreshold, TRUE)
                     /\ ~Abstract!LastAll(recent, SuccessThreshold, TRUE)
                  THEN mono ELSE since
  BY <1>3, Zenon DEF Remember
<1>9. CASE Outage' = Outage
  BY <1>8, <1>9, Zenon DEF Abstract!Check, Outage
<1>10. CASE Outage /\ ~Outage' /\ success_count' >= SuccessThreshold /\ wall >= ready
  <2>1. Outage' = FALSE
    BY <1>10, SMT DEF Outage
  <2> QED
    BY <1>6, <1>8, <1>10, <2>1, Zenon DEF Abstract!Check, Outage
<1> QED
  BY <1>7, <1>9, <1>10

(* A failure is a check that failed; if it declares an outage, the last    *)
(* FailureThreshold checks failed.                                         *)
LEMMA FailureImplements ==
    ASSUME IInv, IInv', Failure
    PROVE  Abstract!Check(FALSE)
<1>1. WindowOK /\ HealthOK /\ WindowOK'
  BY Zenon DEF IInv
<1>2. /\ Remember(FALSE) /\ UNCHANGED mono
      /\ failure_count' = CapAt(failure_count + 1, FailureThreshold)
      /\ health_state' = Fails(failure_count')
  BY DEF Failure
<1>3. FailureThreshold \in Nat \ {0} /\ failure_count \in 0..FailureThreshold
  BY <1>1, ClockAssumption DEF WindowOK
<1>4. \/ Outage' = Outage
      \/ ~Outage /\ Outage' /\ failure_count' = FailureThreshold
  BY <1>1, <1>2, <1>3 DEF Fails, Outage, HealthOK, CapAt
<1>5. failure_count' = FailureThreshold => Abstract!LastAll(recent', FailureThreshold, FALSE)
  BY <1>1, Zenon DEF WindowOK
<1> QED
  BY <1>2, <1>4, <1>5, Zenon DEF Abstract!Check, Remember, Outage

(* Every step of the engine is a step of the promise, or none. *)
LEMMA StepImplements ==
    ASSUME IInv, IInv', [Next]_vars
    PROVE  [Abstract!Next]_(Abstract!vars)
<1>1. CASE \E jitter \in 0..JitterMax : Success(jitter)
  <2>1. Abstract!Check(TRUE)
    BY <1>1, SuccessImplements, Zenon
  <2> QED
    BY <2>1, Zenon DEF Abstract!Next
<1>2. CASE Failure
  <2>1. Abstract!Check(FALSE)
    BY <1>2, FailureImplements, Zenon
  <2> QED
    BY <2>1, Zenon DEF Abstract!Next
<1>3. CASE Tick
  <2>1. mono \in Nat /\ mono' = mono + 1
    BY <1>3 DEF Tick, IInv, ClockOK
  <2>2. mono' > mono
    BY <2>1
  <2>3. Abstract!Pass
    BY <1>3, <2>2, Zenon DEF Tick, Abstract!Pass, state, history
  <2> QED
    BY <2>3, Zenon DEF Abstract!Next
<1>4. CASE \E back \in StepsBack : StepClock(back)
  BY <1>4, Zenon DEF StepClock, Abstract!vars, state, history
<1>5. CASE UNCHANGED vars
  BY <1>5, Zenon DEF vars, Abstract!vars, state, history
<1> QED
  BY <1>1, <1>2, <1>3, <1>4, <1>5, Zenon DEF Next

(* The engine's counters and deadlines implement the promise about the     *)
(* checks themselves: no outage without FailureThreshold failures in a     *)
(* row, no recovery without SuccessThreshold successes in a row that       *)
(* lasted for the hold, however often the wall clock is set back.          *)
THEOREM ImplementsOutages == Spec => ImplementsOutageSpec
<1>1. Init => Abstract!Init
  BY DEF Init, Abstract!Init
<1>2. IInv /\ IInv' /\ [Next]_vars => [Abstract!Next]_(Abstract!vars)
  BY StepImplements
<1> QED
  BY <1>1, <1>2, InvAlways, PTL DEF Spec, ImplementsOutageSpec, Abstract!Spec
=============================================================================
