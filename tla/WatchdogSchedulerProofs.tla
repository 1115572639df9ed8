----------------------- MODULE WatchdogSchedulerProofs ----------------------
(***************************************************************************)
(* The scheduler's deadlines, for any profiles, intervals and delays: late *)
(* cycles neither shift a profile's grid nor replay missed periods.        *)
(*                                                                         *)
(* advance_deadline is only right for a deadline that has been reached; a  *)
(* profile is due only when that is so, and the clock does not go back     *)
(* between the cycle's beginning and the profile's turn.  IInv carries     *)
(* that fact and the grid; TInv adds how late the daemon can be and who it *)
(* wakes up for.                                                           *)
(***************************************************************************)
EXTENDS WatchdogScheduler, TLAPS, WellFoundedInduction

(* Quotient and remainder, for the two lemmas below. *)
LEMMA Division ==
    ASSUME NEW x \in Nat, NEW d \in Nat \ {0}
    PROVE  /\ x \div d \in Nat
           /\ (x \div d) * d <= x
           /\ x < (x \div d) * d + d
OBVIOUS

(* A multiple leaves no remainder. *)
LEMMA MultipleMod ==
    ASSUME NEW k \in Int, NEW d \in Nat \ {0}
    PROVE  (k * d) % d = 0
OBVIOUS

(* advance_deadline finds the first instant after current that is a whole  *)
(* number of intervals after previous.                                     *)
LEMMA AdvanceDeadlineCorrect ==
    ASSUME NEW previous \in Nat, NEW interval \in Nat \ {0}, NEW current \in Nat,
           previous <= current
    PROVE  LET next == AdvanceDeadline(previous, interval, current)
           IN  /\ next \in Nat
               /\ next > current
               /\ next <= current + interval
               /\ \E k \in Int : next = previous + k * interval
<1> DEFINE first == previous + interval
           q == (current - first) \div interval
           next == AdvanceDeadline(previous, interval, current)
<1>1. CASE first > current
  <2>1. next = first /\ first = previous + 1 * interval
    BY <1>1 DEF AdvanceDeadline
  <2> QED
    BY <1>1, <2>1
<1>2. CASE ~(first > current)
  <2>1. current - first \in Nat
    BY <1>2
  <2>2. q \in Nat /\ q * interval <= current - first /\ current - first < q * interval + interval
    BY <2>1, Division
  <2>3. next = first + (q + 1) * interval
    BY <1>2 DEF AdvanceDeadline
  <2>4. (q + 1) * interval = q * interval + interval /\ q * interval \in Nat
    BY <2>2
  <2>5. first + (q + 1) * interval = previous + (q + 2) * interval
    BY <2>2
  <2>6. next \in Nat /\ next > current /\ next <= current + interval
    BY <2>2, <2>3, <2>4
  <2>7. q + 2 \in Int /\ next = previous + (q + 2) * interval
    BY <2>2, <2>3, <2>5
  <2> QED
    BY <2>6, <2>7
<1> QED
  BY <1>1, <1>2

-----------------------------------------------------------------------------

(* t is a whole number of the intervals in force after origin[p]. *)
OnGrid(p, t) == \E k \in Int : t = origin[p] + k * used[p]

(* The inductive invariant. *)
IInv ==
    /\ clock \in Nat /\ started \in Nat /\ started <= clock
    /\ DOMAIN next_due \subseteq Profiles
    /\ \A p \in DOMAIN next_due : /\ next_due[p] \in Nat /\ OnGrid(p, next_due[p])
                                  /\ used[p] # 0
    /\ due \subseteq Profiles
    /\ phase = "sleeping" => due = {}
    /\ enabled \subseteq Profiles
    /\ fallback \in Intervals /\ setting \in [Profiles -> Intervals \cup {0}]
    /\ used \in [Profiles -> Intervals \cup {0}]
    /\ origin \in [Profiles -> Nat]
    /\ \A p \in due : IF p \in DOMAIN next_due THEN next_due[p] <= started
                                               ELSE used[p] = 0

(* The interval a profile is given is one that may be configured. *)
LEMMA IntervalConfigured ==
    ASSUME IInv, NEW p \in Profiles
    PROVE  IntervalOf(p) \in Intervals /\ IntervalOf(p) \in Nat \ {0}
BY SchedulerAssumption DEF IInv, IntervalOf

(* The interval of a deadline is a number. *)
LEMMA UsedInterval ==
    ASSUME IInv, NEW p \in Profiles
    PROVE  used[p] \in Nat
<1>1. used[p] \in Intervals \cup {0}
  BY DEF IInv
<1>2. \A i \in Intervals : i \in Nat
  BY SchedulerAssumption
<1> QED
  BY <1>1, <1>2

(* A due profile's next deadline: on the old grid, or one interval into a  *)
(* new one that begins at the deadline before.                             *)
LEMMA ProcessDeadline ==
    ASSUME IInv, NEW p \in Profiles, Process(p)
    PROVE  /\ next_due'[p] \in Nat /\ OnGrid(p, next_due[p])' /\ origin'[p] \in Nat
           /\ next_due'[p] > clock /\ next_due'[p] <= clock + IntervalOf(p)
           /\ used'[p] = IntervalOf(p)
           /\ DOMAIN next_due' = DOMAIN next_due \cup {p}
           /\ \A q \in DOMAIN next_due \ {p} : next_due'[q] = next_due[q]
           /\ \A q \in Profiles \ {p} : used'[q] = used[q] /\ origin'[q] = origin[q]
<1> DEFINE previous == IF p \in DOMAIN next_due THEN next_due[p] ELSE started
           interval == IntervalOf(p)
           next == AdvanceDeadline(previous, interval, clock)
<1>1. p \in due /\ origin[p] \in Nat /\ interval \in Nat \ {0}
  BY IntervalConfigured DEF IInv, Process
<1>2. previous \in Nat /\ previous <= clock
  BY <1>1 DEF IInv
<1>3. /\ next_due' = [q \in DOMAIN next_due \cup {p} |-> IF q = p THEN next ELSE next_due[q]]
      /\ used' = [used EXCEPT ![p] = interval]
      /\ origin' = [origin EXCEPT ![p] = IF interval = used[p] THEN @ ELSE previous]
  BY DEF Process
<1>4. /\ used'[p] = interval
      /\ origin'[p] = IF interval = used[p] THEN origin[p] ELSE previous
      /\ \A q \in Profiles \ {p} : used'[q] = used[q] /\ origin'[q] = origin[q]
  BY <1>3 DEF IInv
<1>5. \E j \in Int : previous = origin'[p] + j * interval
  <2>1. CASE interval = used[p]
    <3>1. p \in DOMAIN next_due
      BY <1>1, <2>1 DEF IInv
    <3> QED
      BY <1>4, <2>1, <3>1 DEF IInv, OnGrid
  <2>2. CASE interval # used[p]
    <3>1. previous = origin'[p] + 0 * interval
      BY <1>1, <1>2, <1>4, <2>2
    <3> QED
      BY <3>1
  <2> QED
    BY <2>1, <2>2
<1>6. origin'[p] \in Nat
  BY <1>1, <1>2, <1>4
<1> HIDE DEF previous, interval
<1>7. /\ next \in Nat /\ next > clock /\ next <= clock + interval
      /\ \E k \in Int : next = previous + k * interval
  BY <1>1, <1>2, AdvanceDeadlineCorrect DEF IInv
<1>8. \E k \in Int : next = origin'[p] + k * interval
  <2>1. PICK j \in Int : previous = origin'[p] + j * interval
    BY <1>5
  <2>2. PICK k \in Int : next = previous + k * interval
    BY <1>7
  <2> HIDE DEF next
  <2>3. j * interval + k * interval = (j + k) * interval
    BY <1>1
  <2>4. j + k \in Int /\ next = origin'[p] + (j + k) * interval
    BY <1>6, <1>1, <2>1, <2>2, <2>3
  <2> QED
    BY <2>4
<1> HIDE DEF next
<1>9. next_due'[p] = next
  BY <1>3
<1>10. OnGrid(p, next_due[p])'
  BY <1>4, <1>8, <1>9 DEF OnGrid
<1>11. /\ DOMAIN next_due' = DOMAIN next_due \cup {p}
       /\ \A q \in DOMAIN next_due \ {p} : next_due'[q] = next_due[q]
  BY <1>3
<1> QED
  BY <1>4, <1>6, <1>7, <1>9, <1>10, <1>11 DEF interval

(* IInv is inductive. *)
THEOREM SchedulerInductive == IInv /\ [Next]_vars => IInv'
<1> SUFFICES ASSUME IInv, [Next]_vars PROVE IInv'
  OBVIOUS
<1>1. ASSUME NEW failed \in SUBSET Profiles, BeginCycle(failed) PROVE IInv'
  <2> DEFINE active == (enabled \cap readable) \ failed
             kept == [p \in DOMAIN next_due \cap active |-> next_due[p]]
  <2>1. /\ next_due' = kept /\ started' = clock /\ clock' = clock
        /\ due' = {p \in active : p \in DOMAIN kept => clock >= kept[p]}
        /\ origin' = [p \in Profiles |-> IF p \in DOMAIN kept THEN origin[p] ELSE 0]
        /\ used' = [p \in Profiles |-> IF p \in DOMAIN kept THEN used[p] ELSE 0]
        /\ phase' = "cycle" /\ UNCHANGED <<enabled, fallback, setting>>
    BY <1>1 DEF BeginCycle, config
  <2>2. /\ DOMAIN kept \subseteq Profiles /\ origin' \in [Profiles -> Nat]
        /\ used' \in [Profiles -> Intervals \cup {0}]
    BY <2>1 DEF IInv
  <2>3. \A p \in DOMAIN kept : /\ kept[p] = next_due[p] /\ origin'[p] = origin[p]
                               /\ used'[p] = used[p] /\ used[p] # 0
                               /\ kept[p] \in Nat /\ OnGrid(p, kept[p])
    BY <2>1, <2>2 DEF IInv
  <2>4. due' \subseteq Profiles
    BY <2>1 DEF IInv
  <2>5. \A p \in due' : IF p \in DOMAIN kept THEN kept[p] <= clock ELSE used'[p] = 0
    BY <2>1, <2>3, <2>4 DEF IInv
  <2> HIDE DEF kept, active
  <2>6. (\A p \in DOMAIN next_due : /\ next_due[p] \in Nat /\ OnGrid(p, next_due[p])
                                    /\ used[p] # 0)'
    BY <2>1, <2>3 DEF OnGrid
  <2>7. /\ clock' \in Nat /\ started' \in Nat /\ started' <= clock' /\ enabled' \subseteq Profiles
        /\ fallback' \in Intervals /\ setting' \in [Profiles -> Intervals \cup {0}]
    BY <2>1 DEF IInv
  <2>8. \A p \in due' : IF p \in DOMAIN next_due' THEN next_due'[p] <= started'
                                                   ELSE used'[p] = 0
    BY <2>1, <2>5
  <2>9. DOMAIN next_due' \subseteq Profiles /\ (phase' = "sleeping" => due' = {})
    BY <2>1, <2>2
  <2> QED
    BY <2>2, <2>4, <2>6, <2>7, <2>8, <2>9 DEF IInv
<1>2. ASSUME NEW p \in Profiles, Process(p) PROVE IInv'
  <2>1. /\ UNCHANGED <<clock, started, phase, enabled, fallback, setting>>
        /\ due' = due \ {p} /\ phase = "cycle"
    BY <1>2 DEF Process, config
  <2> DEFINE interval == IntervalOf(p)
             pending == IF p \in DOMAIN next_due THEN next_due[p] ELSE started
  <2>2. /\ next_due'[p] \in Nat /\ OnGrid(p, next_due[p])' /\ origin'[p] \in Nat
        /\ used'[p] = interval
    BY <1>2, ProcessDeadline
  <2>3. /\ DOMAIN next_due' = DOMAIN next_due \cup {p}
        /\ \A q \in DOMAIN next_due \ {p} : next_due'[q] = next_due[q]
        /\ \A q \in Profiles \ {p} : used'[q] = used[q] /\ origin'[q] = origin[q]
    BY <1>2, ProcessDeadline
  <2>4. /\ used' \in [Profiles -> Intervals \cup {0}] /\ origin' \in [Profiles -> Nat]
        /\ used'[p] # 0
    <3>1. interval \in Intervals /\ interval # 0
      BY IntervalConfigured
    <3>2. /\ used' = [used EXCEPT ![p] = interval]
          /\ origin' = [origin EXCEPT ![p] = IF interval = used[p] THEN @ ELSE pending]
      BY <1>2 DEF Process
    <3> HIDE DEF interval, pending
    <3>3. used' \in [Profiles -> Intervals \cup {0}] /\ used'[p] # 0
      BY <2>2, <3>1, <3>2 DEF IInv
    <3>4. origin' = [origin EXCEPT ![p] = origin'[p]]
      BY <3>2 DEF IInv
    <3> QED
      BY <2>2, <3>3, <3>4 DEF IInv
  <2>5. (\A q \in DOMAIN next_due : /\ next_due[q] \in Nat /\ OnGrid(q, next_due[q])
                                    /\ used[q] # 0)'
    <3> SUFFICES ASSUME NEW q \in DOMAIN next_due'
                 PROVE  (next_due[q] \in Nat /\ OnGrid(q, next_due[q]) /\ used[q] # 0)'
      OBVIOUS
    <3>1. CASE q = p
      BY <2>2, <2>4, <3>1
    <3>2. CASE q # p
      <4>1. /\ q \in DOMAIN next_due /\ q \in Profiles /\ next_due'[q] = next_due[q]
            /\ used'[q] = used[q] /\ origin'[q] = origin[q]
        BY <2>3, <3>2 DEF IInv
      <4> QED
        BY <4>1 DEF IInv, OnGrid
    <3> QED
      BY <3>1, <3>2
  <2>6. DOMAIN next_due' \subseteq Profiles
    BY <2>3 DEF IInv
  <2>7. ASSUME NEW q \in due'
        PROVE  IF q \in DOMAIN next_due' THEN next_due'[q] <= started' ELSE used'[q] = 0
    <3>1. q # p /\ q \in due /\ q \in Profiles
      BY <2>1 DEF IInv
    <3>2. /\ used'[q] = used[q] /\ (q \in DOMAIN next_due' <=> q \in DOMAIN next_due)
          /\ q \in DOMAIN next_due => next_due'[q] = next_due[q]
      BY <2>3, <3>1
    <3> QED
      BY <2>1, <3>1, <3>2 DEF IInv
  <2> QED
    BY <2>1, <2>4, <2>5, <2>6, <2>7 DEF IInv
<1>3. CASE CycleWithoutConfig \/ EndCycle \/ Tick \/ UNCHANGED vars
  <2>1. /\ clock' \in {clock, clock + 1} /\ started' \in {0, started}
        /\ UNCHANGED <<next_due, due, origin, used, enabled, fallback, setting>>
        /\ phase' = "sleeping" => due = {}
        /\ started' = started \/ due = {}
    BY <1>3 DEF IInv, CycleWithoutConfig, EndCycle, Tick, vars, config, history
  <2> QED
    BY <2>1 DEF IInv, OnGrid
<1>4. CASE Configure
  <2>1. /\ UNCHANGED <<clock, phase, started, next_due, due, origin, used>>
    BY <1>4 DEF Configure, history
  <2>2. /\ enabled' \subseteq Profiles /\ fallback' \in Intervals
        /\ setting' \in [Profiles -> Intervals \cup {0}]
    BY <1>4 DEF IInv, Configure, SetMode, ConfigureProfile, ResetProfile, SetGlobal, SpoilOrRepair
  <2> QED
    BY <2>1, <2>2 DEF IInv, OnGrid
<1> QED
  BY <1>1, <1>2, <1>3, <1>4 DEF Next

(* Every behaviour satisfies the inductive invariant. *)
THEOREM SchedulerInvariance == Spec => []IInv
<1>1. Init => IInv
  BY DEF Init, IInv
<1> QED
  BY <1>1, SchedulerInductive, PTL DEF Spec

(* Late cycles never shift a profile's schedule: whatever intervals are    *)
(* configured and whenever they change, the deadlines computed with one    *)
(* interval lie whole periods after the one it began at.                   *)
THEOREM DeadlinesStayOnGrid == Spec => []DeadlineOnGrid
<1>1. IInv => DeadlineOnGrid
  <2> SUFFICES ASSUME IInv, NEW p \in DOMAIN next_due
               PROVE  (next_due[p] - origin[p]) % used[p] = 0
    BY DEF DeadlineOnGrid
  <2>1. /\ p \in Profiles /\ used[p] \in Nat \ {0} /\ origin[p] \in Nat
        /\ next_due[p] \in Nat
    BY SchedulerAssumption DEF IInv
  <2>2. PICK k \in Int : next_due[p] = origin[p] + k * used[p]
    BY DEF IInv, OnGrid
  <2>3. next_due[p] - origin[p] = k * used[p]
    BY <2>1, <2>2
  <2> QED
    BY <2>1, <2>3, MultipleMod
<1> QED
  BY <1>1, SchedulerInvariance, PTL

(* A processed profile is due again after the present instant and within   *)
(* one interval: missed periods are skipped, never replayed.               *)
THEOREM MissedPeriodsSkipped == Spec => NextPeriod
<1> DEFINE Skips == \A p \in due \ due' : /\ next_due'[p] > clock
                                          /\ next_due'[p] <= clock + IntervalOf(p)
<1>1. IInv /\ [Next]_vars => [Skips]_vars
  <2> SUFFICES ASSUME IInv, Next, NEW p \in due \ due'
               PROVE  next_due'[p] > clock /\ next_due'[p] <= clock + IntervalOf(p)
    OBVIOUS
  <2>1. CASE \E q \in Profiles : Process(q)
    <3>1. PICK q \in Profiles : Process(q)
      BY <2>1
    <3>2. p = q
      BY <3>1 DEF Process
    <3> QED
      BY <3>1, <3>2, ProcessDeadline
  <2>2. CASE \E failed \in SUBSET Profiles : BeginCycle(failed)
    BY <2>2 DEF BeginCycle, IInv
  <2>3. CASE CycleWithoutConfig \/ EndCycle \/ Tick \/ Configure
    BY <2>3 DEF CycleWithoutConfig, EndCycle, Tick, Configure
  <2> QED
    BY <2>1, <2>2, <2>3 DEF Next
<1> QED
  BY <1>1, SchedulerInvariance, PTL DEF Spec, NextPeriod

-----------------------------------------------------------------------------
(* Nobody is left behind.                                                  *)

(* Every set of instants has a first one. *)
LEMMA MinOfInstants ==
    ASSUME NEW S \in SUBSET Nat, S # {}
    PROVE  Min(S) \in S /\ \A t \in S : Min(S) <= t
<1>1. PICK x \in S : \A y \in S : ~(<<y, x>> \in OpToRel(<, Nat))
  BY NatLessThanWellFounded, WFMin, Zenon
<1>2. \A y \in S : x <= y
  <2> SUFFICES ASSUME NEW y \in S PROVE x <= y
    OBVIOUS
  <2>1. <<y, x>> \notin OpToRel(<, Nat)
    BY <1>1
  <2>2. ~(y < x)
    BY <2>1 DEF OpToRel
  <2> QED
    BY <2>2
<1> QED
  BY <1>2 DEF Min

(* The scheduler's variables. *)
TypeInv ==
    /\ clock \in 0..MaxTime /\ started \in 0..MaxTime /\ deadline \in Nat
    /\ phase \in {"sleeping", "cycle"}
    /\ enabled \subseteq Profiles /\ readable \subseteq Profiles
    /\ origin \in [Profiles -> 0..MaxTime] /\ checked \in [Profiles -> 0..MaxTime]
    /\ global_ok \in BOOLEAN /\ steady \in [Profiles -> BOOLEAN]

(* How late the daemon can be: asleep, one wake-up and the cycle before;   *)
(* in a cycle, that cycle.  Who had his turn is due after the cycle.       *)
LateInv ==
    /\ phase = "sleeping" => clock <= deadline + MaxLate + MaxCycle
    /\ phase = "cycle" =>
          /\ clock <= started + MaxCycle
          /\ \A p \in DOMAIN next_due \ due : next_due[p] > started

(* A profile that took part in every cycle is due within its interval, and *)
(* the daemon wakes up for it.                                             *)
SteadyInv ==
    \A p \in Profiles : steady[p] =>
        /\ p \in DOMAIN next_due /\ next_due[p] <= checked[p] + used[p]
        /\ phase = "sleeping" => deadline <= next_due[p]
        /\ phase = "cycle" /\ p \in due =>
              started <= checked[p] + used[p] + MaxLate + MaxCycle

(* The inductive invariant about lateness. *)
TInv == IInv /\ TypeInv /\ LateInv /\ SteadyInv

(* What the proofs use of the constants. *)
LEMMA Constants ==
    /\ MaxCycle \in Nat /\ MaxLate \in Nat /\ MaxTime \in Nat
    /\ Intervals \subseteq Nat \ {0} /\ ErrorDelay \in Nat \ {0}
BY SchedulerAssumption

(* A cycle begins: it is late by one wake-up and one cycle at most. *)
LEMMA BeginCycleInTime ==
    ASSUME TInv, NEW failed \in SUBSET Profiles, BeginCycle(failed)
    PROVE  TypeInv' /\ LateInv' /\ SteadyInv'
<1> DEFINE active == (enabled \cap readable) \ failed
           kept == [p \in DOMAIN next_due \cap active |-> next_due[p]]
<1>1. /\ phase = "sleeping" /\ next_due' = kept /\ phase' = "cycle"
      /\ UNCHANGED <<clock, deadline, enabled, readable>> /\ started' = clock
      /\ due' = {p \in active : p \in DOMAIN kept => clock >= kept[p]}
      /\ checked' = [p \in Profiles |-> IF p \in active THEN checked[p] ELSE 0]
      /\ used' = [p \in Profiles |-> IF p \in DOMAIN kept THEN used[p] ELSE 0]
      /\ origin' = [p \in Profiles |-> IF p \in DOMAIN kept THEN origin[p] ELSE 0]
  BY DEF BeginCycle, config
<1>2. UNCHANGED global_ok /\ steady' = [p \in Profiles |-> steady[p] /\ p \in active]
  BY Zenon DEF BeginCycle, config
<1>3. /\ DOMAIN kept = DOMAIN next_due \cap active
      /\ \A p \in DOMAIN kept : kept[p] = next_due[p]
  OBVIOUS
<1> HIDE DEF kept
<1>4. DOMAIN next_due \subseteq Profiles /\ \A p \in DOMAIN next_due : next_due[p] \in Nat
  BY DEF TInv, IInv
<1>5. /\ clock \in Nat /\ clock <= MaxTime /\ deadline \in Nat
      /\ clock <= deadline + MaxLate + MaxCycle
  BY <1>1, Constants DEF TInv, TypeInv, LateInv
<1>6. TypeInv'
  <2>1. global_ok' \in BOOLEAN /\ steady' \in [Profiles -> BOOLEAN]
    BY <1>2, Zenon DEF TInv, TypeInv
  <2>2. /\ clock' \in 0..MaxTime /\ started' \in 0..MaxTime /\ deadline' \in Nat
        /\ phase' \in {"sleeping", "cycle"}
        /\ enabled' \subseteq Profiles /\ readable' \subseteq Profiles
    BY <1>1 DEF TInv, TypeInv
  <2>3. origin' \in [Profiles -> 0..MaxTime] /\ checked' \in [Profiles -> 0..MaxTime]
    BY <1>1, <1>5, Constants DEF TInv, TypeInv
  <2> QED
    BY <2>1, <2>2, <2>3, Zenon DEF TypeInv
<1>7. LateInv'
  <2>1. ASSUME NEW p \in DOMAIN next_due' \ due' PROVE next_due'[p] > started'
    BY <1>1, <1>3, <1>4, <1>5
  <2> QED
    BY <1>1, <1>5, <2>1, Constants DEF LateInv
<1>8. SteadyInv'
  <2> SUFFICES ASSUME NEW p \in Profiles, steady'[p]
               PROVE  /\ p \in DOMAIN next_due'
                      /\ next_due'[p] <= checked'[p] + used'[p]
                      /\ started' <= checked'[p] + used'[p] + MaxLate + MaxCycle
    BY <1>1 DEF SteadyInv
  <2>1. steady[p] /\ p \in active
    BY <1>2, Zenon
  <2>2. /\ p \in DOMAIN next_due /\ next_due[p] <= checked[p] + used[p]
        /\ deadline <= next_due[p]
    BY <1>1, <2>1 DEF TInv, SteadyInv
  <2>3. /\ next_due'[p] = next_due[p] /\ p \in DOMAIN next_due'
        /\ checked'[p] = checked[p] /\ used'[p] = used[p]
    BY <1>1, <1>3, <2>1, <2>2
  <2>4. checked[p] \in Nat /\ used[p] \in Nat /\ next_due[p] \in Nat
    BY <1>4, <2>2, UsedInterval DEF TInv, TypeInv
  <2> QED
    BY <1>1, <1>5, <2>2, <2>3, <2>4, Constants
<1> QED
  BY <1>6, <1>7, <1>8

(* A check: the next one is due within the interval. *)
LEMMA ProcessInTime ==
    ASSUME TInv, NEW p \in Profiles, Process(p)
    PROVE  TypeInv' /\ LateInv' /\ SteadyInv'
<1>1. /\ UNCHANGED <<clock, phase, started, deadline, enabled, readable>>
      /\ phase = "cycle" /\ p \in due /\ due' = due \ {p}
      /\ checked' = [checked EXCEPT ![p] = clock]
  BY DEF Process, config
<1>2. UNCHANGED global_ok /\ steady' = [steady EXCEPT ![p] = TRUE]
  BY Zenon DEF Process, config
<1>3. /\ next_due'[p] \in Nat
      /\ next_due'[p] > clock /\ next_due'[p] <= clock + used'[p]
      /\ DOMAIN next_due' = DOMAIN next_due \cup {p}
      /\ \A q \in DOMAIN next_due \ {p} : next_due'[q] = next_due[q]
      /\ \A q \in Profiles \ {p} : used'[q] = used[q]
  BY ProcessDeadline DEF TInv
<1>4. /\ clock \in Nat /\ clock <= MaxTime /\ started \in Nat /\ started <= clock
      /\ clock <= started + MaxCycle
      /\ \A q \in DOMAIN next_due \ due : next_due[q] > started
      /\ \A q \in DOMAIN next_due : next_due[q] \in Nat
  BY <1>1, Constants DEF TInv, IInv, TypeInv, LateInv
<1>5. /\ checked'[p] = clock /\ checked' \in [Profiles -> 0..MaxTime]
      /\ \A q \in Profiles \ {p} : checked'[q] = checked[q]
  BY <1>1, <1>4, Constants DEF TInv, TypeInv
<1>6. TypeInv'
  <2>1. global_ok' \in BOOLEAN /\ steady' \in [Profiles -> BOOLEAN]
    BY <1>2, Zenon DEF TInv, TypeInv
  <2>2. /\ clock' \in 0..MaxTime /\ started' \in 0..MaxTime /\ deadline' \in Nat
        /\ phase' \in {"sleeping", "cycle"}
        /\ enabled' \subseteq Profiles /\ readable' \subseteq Profiles
    BY <1>1 DEF TInv, TypeInv
  <2>3. origin' \in [Profiles -> 0..MaxTime]
    <3> DEFINE pending == IF p \in DOMAIN next_due THEN next_due[p] ELSE started
    <3>1. /\ origin' = [origin EXCEPT ![p] = IF IntervalOf(p) = used[p] THEN @ ELSE pending]
          /\ pending \in Nat /\ pending <= clock
      BY <1>1, <1>4 DEF Process, TInv, IInv
    <3> HIDE DEF pending
    <3>2. pending \in 0..MaxTime
      BY <1>4, <3>1, Constants
    <3> QED
      BY <3>1, <3>2 DEF TInv, TypeInv
  <2> QED
    BY <1>5, <2>1, <2>2, <2>3, Zenon DEF TypeInv
<1>7. LateInv'
  <2>1. ASSUME NEW q \in DOMAIN next_due' \ due' PROVE next_due'[q] > started'
    BY <1>1, <1>3, <1>4
  <2> QED
    BY <1>1, <1>4, <2>1 DEF LateInv
<1>8. SteadyInv'
  <2> SUFFICES ASSUME NEW q \in Profiles, steady'[q]
               PROVE  /\ q \in DOMAIN next_due'
                      /\ next_due'[q] <= checked'[q] + used'[q]
                      /\ q \in due' =>
                            started' <= checked'[q] + used'[q] + MaxLate + MaxCycle
    BY <1>1 DEF SteadyInv
  <2>1. CASE q = p
    BY <1>1, <1>3, <1>5, <2>1
  <2>2. CASE q # p
    <3>1. steady[q]
      BY <1>2, <2>2, Zenon DEF TInv, TypeInv
    <3>2. /\ q \in DOMAIN next_due /\ next_due[q] <= checked[q] + used[q]
          /\ q \in due => started <= checked[q] + used[q] + MaxLate + MaxCycle
      BY <1>1, <3>1 DEF TInv, SteadyInv
    <3> QED
      BY <1>1, <1>3, <1>5, <2>2, <3>2
  <2> QED
    BY <2>1, <2>2
<1> QED
  BY <1>6, <1>7, <1>8

(* A cycle ends: the daemon wakes up for the first deadline, and that is   *)
(* after the cycle's beginning.                                            *)
LEMMA EndCycleInTime ==
    ASSUME TInv, EndCycle
    PROVE  TypeInv' /\ LateInv' /\ SteadyInv'
<1> DEFINE deadlines == {next_due[p] : p \in DOMAIN next_due}
<1>1. /\ UNCHANGED <<clock, next_due, due, enabled, readable, checked, used, origin>>
      /\ started' = 0 /\ phase = "cycle" /\ due = {} /\ phase' = "sleeping" /\ deadline' = Wake(deadlines)
  BY DEF EndCycle, config, history
<1>2. UNCHANGED <<global_ok, steady>>
  BY Zenon DEF EndCycle, config, history
<1>3. /\ clock \in Nat /\ started \in Nat /\ clock <= started + MaxCycle
      /\ deadlines \in SUBSET Nat /\ \A t \in deadlines : t > started
  BY <1>1, Constants DEF TInv, IInv, TypeInv, LateInv
<1>4. /\ deadline' \in Nat /\ deadline' > started
      /\ \A t \in deadlines : deadline' <= t
  <2>1. CASE deadlines = {}
    <3>1. fallback \in Nat /\ fallback > 0
      BY Constants DEF TInv, IInv
    <3> QED
      BY <1>1, <1>3, <2>1, <3>1 DEF Wake
  <2>2. CASE deadlines # {}
    <3> HIDE DEF deadlines
    <3>1. Min(deadlines) \in deadlines /\ \A t \in deadlines : Min(deadlines) <= t
      BY <1>3, <2>2, MinOfInstants
    <3> QED
      BY <1>1, <1>3, <2>2, <3>1 DEF Wake
  <2> QED
    BY <2>1, <2>2
<1>5. TypeInv'
  <2>1. global_ok' \in BOOLEAN /\ steady' \in [Profiles -> BOOLEAN]
    BY <1>2, Zenon DEF TInv, TypeInv
  <2>2. /\ clock' \in 0..MaxTime /\ started' \in 0..MaxTime
        /\ phase' \in {"sleeping", "cycle"}
        /\ enabled' \subseteq Profiles /\ readable' \subseteq Profiles
        /\ origin' \in [Profiles -> 0..MaxTime] /\ checked' \in [Profiles -> 0..MaxTime]
    BY <1>1, Constants DEF TInv, TypeInv
  <2> QED
    BY <1>4, <2>1, <2>2, Zenon DEF TypeInv
<1>6. LateInv'
  BY <1>1, <1>3, <1>4, Constants DEF LateInv
<1>7. SteadyInv'
  <2> SUFFICES ASSUME NEW p \in Profiles, steady'[p]
               PROVE  /\ p \in DOMAIN next_due'
                      /\ next_due'[p] <= checked'[p] + used'[p]
                      /\ deadline' <= next_due'[p]
    BY <1>1 DEF SteadyInv
  <2>1. steady[p]
    BY <1>2, Zenon
  <2>2. p \in DOMAIN next_due /\ next_due[p] <= checked[p] + used[p]
    BY <2>1 DEF TInv, SteadyInv
  <2> QED
    BY <1>1, <1>4, <2>2
<1> QED
  BY <1>5, <1>6, <1>7

(* Time passes. *)
LEMMA TickInTime ==
    ASSUME TInv, Tick
    PROVE  TypeInv' /\ LateInv' /\ SteadyInv'
<1>1. /\ UNCHANGED <<phase, started, deadline, next_due, due, enabled, readable>>
      /\ UNCHANGED <<checked, used, origin>> /\ clock' = clock + 1 /\ clock < MaxTime
      /\ \/ phase = "sleeping" /\ clock < deadline + MaxLate
         \/ phase = "cycle" /\ clock < started + MaxCycle
  BY DEF Tick, config, history
<1>2. UNCHANGED <<global_ok, steady>>
  BY Zenon DEF Tick, config, history
<1>3. clock \in Nat /\ started \in Nat /\ deadline \in Nat
  BY Constants DEF TInv, TypeInv
<1>4. TypeInv'
  <2>1. global_ok' \in BOOLEAN /\ steady' \in [Profiles -> BOOLEAN]
    BY <1>2, Zenon DEF TInv, TypeInv
  <2>2. /\ clock' \in 0..MaxTime /\ started' \in 0..MaxTime /\ deadline' \in Nat
        /\ phase' \in {"sleeping", "cycle"}
        /\ enabled' \subseteq Profiles /\ readable' \subseteq Profiles
        /\ origin' \in [Profiles -> 0..MaxTime] /\ checked' \in [Profiles -> 0..MaxTime]
    BY <1>1, <1>3, Constants DEF TInv, TypeInv
  <2> QED
    BY <2>1, <2>2, Zenon DEF TypeInv
<1>5. LateInv'
  BY <1>1, <1>3, Constants DEF TInv, LateInv
<1>6. SteadyInv'
  BY <1>1, <1>2 DEF TInv, SteadyInv
<1> QED
  BY <1>4, <1>5, <1>6

(* An unreadable global configuration: nobody is steady any more. *)
LEMMA NoConfigInTime ==
    ASSUME TInv, CycleWithoutConfig
    PROVE  TypeInv' /\ LateInv' /\ SteadyInv'
<1>1. /\ UNCHANGED <<clock, phase, started, next_due, due, used, origin, enabled, readable>>
      /\ deadline' = clock + ErrorDelay /\ phase = "sleeping"
      /\ checked' = [p \in Profiles |-> 0]
  BY DEF CycleWithoutConfig, config
<1>2. global_ok' = global_ok /\ steady' = [p \in Profiles |-> FALSE]
  BY Zenon DEF CycleWithoutConfig, config
<1>3. clock \in Nat
  BY Constants DEF TInv, TypeInv
<1>4. TypeInv'
  <2>1. global_ok' \in BOOLEAN /\ steady' \in [Profiles -> BOOLEAN]
    BY <1>2, Zenon DEF TInv, TypeInv
  <2>2. /\ clock' \in 0..MaxTime /\ started' \in 0..MaxTime /\ deadline' \in Nat
        /\ phase' \in {"sleeping", "cycle"}
        /\ enabled' \subseteq Profiles /\ readable' \subseteq Profiles
        /\ origin' \in [Profiles -> 0..MaxTime] /\ checked' \in [Profiles -> 0..MaxTime]
    BY <1>1, <1>3, Constants DEF TInv, TypeInv
  <2> QED
    BY <2>1, <2>2, Zenon DEF TypeInv
<1>5. LateInv'
  BY <1>1, <1>3, Constants DEF LateInv
<1>6. SteadyInv'
  BY <1>2, Zenon DEF SteadyInv
<1> QED
  BY <1>4, <1>5, <1>6

(* A change of the configuration: the deadlines stay as they are. *)
LEMMA ConfigInTime ==
    ASSUME TInv, Configure \/ UNCHANGED vars
    PROVE  TypeInv' /\ LateInv' /\ SteadyInv'
<1>1. UNCHANGED <<clock, phase, started, deadline, next_due, due, checked, used, origin>>
  BY DEF Configure, vars, history
<1>2. steady' = steady
  BY Zenon DEF Configure, vars, history
<1>3. enabled' \subseteq Profiles /\ readable' \subseteq Profiles
  BY DEF TInv, TypeInv, Configure, SetMode, ConfigureProfile, ResetProfile, SetGlobal,
         SpoilOrRepair, vars, config
<1>4. global_ok' \in BOOLEAN
  <2>1. global_ok' = global_ok \/ global_ok' = ~global_ok
    BY Zenon DEF Configure, vars, config
  <2> QED
    BY <2>1, Zenon DEF TInv, TypeInv
<1>5. TypeInv'
  <2>1. /\ clock' \in 0..MaxTime /\ started' \in 0..MaxTime /\ deadline' \in Nat
        /\ phase' \in {"sleeping", "cycle"}
        /\ origin' \in [Profiles -> 0..MaxTime] /\ checked' \in [Profiles -> 0..MaxTime]
    BY <1>1 DEF TInv, TypeInv
  <2>2. steady' \in [Profiles -> BOOLEAN]
    BY <1>2, Zenon DEF TInv, TypeInv
  <2> QED
    BY <1>3, <1>4, <2>1, <2>2, Zenon DEF TypeInv
<1>6. LateInv'
  BY <1>1 DEF TInv, LateInv
<1>7. SteadyInv'
  BY <1>1, <1>2 DEF TInv, SteadyInv
<1> QED
  BY <1>5, <1>6, <1>7

(* The lateness invariant holds of every behaviour. *)
THEOREM LatenessInvariance == Spec => []TInv
<1>1. Init => TInv
  <2> SUFFICES ASSUME Init PROVE TInv
    OBVIOUS
  <2>1. IInv
    BY DEF Init, IInv
  <2>2. global_ok \in BOOLEAN /\ steady \in [Profiles -> BOOLEAN] /\ \A p \in Profiles : ~steady[p]
    BY Zenon DEF Init
  <2>3. /\ clock \in 0..MaxTime /\ started \in 0..MaxTime /\ deadline \in Nat
        /\ phase \in {"sleeping", "cycle"}
        /\ enabled \subseteq Profiles /\ readable \subseteq Profiles
        /\ origin \in [Profiles -> 0..MaxTime] /\ checked \in [Profiles -> 0..MaxTime]
    BY Constants DEF Init
  <2>4. TypeInv
    BY <2>2, <2>3, Zenon DEF TypeInv
  <2>5. LateInv
    BY Constants DEF Init, LateInv
  <2>6. SteadyInv
    BY <2>2, Zenon DEF SteadyInv
  <2> QED
    BY <2>1, <2>4, <2>5, <2>6 DEF TInv
<1>2. TInv /\ [Next]_vars => TInv'
  <2> SUFFICES ASSUME TInv, [Next]_vars PROVE TInv'
    OBVIOUS
  <2>1. IInv'
    BY SchedulerInductive DEF TInv
  <2>2. TypeInv' /\ LateInv' /\ SteadyInv'
    BY BeginCycleInTime, ProcessInTime, EndCycleInTime, TickInTime, NoConfigInTime,
       ConfigInTime, Zenon DEF Next
  <2> QED
    BY <2>1, <2>2, Zenon DEF TInv
<1> QED
  BY <1>1, <1>2, PTL DEF Spec

(* Whatever the intervals and their changes, the length of the cycles and  *)
(* the delays of the process, a profile that takes part in every cycle is  *)
(* checked again within the interval of its last check, one late wake-up   *)
(* and two cycles: run_cycle never leaves a profile behind.                *)
THEOREM ScheduleAlwaysKept == Spec => []ScheduleKept
<1>1. TInv => ScheduleKept
  <2> SUFFICES ASSUME TInv PROVE ScheduleKept
    OBVIOUS
  <2>1. TypeOK
    BY DEF TInv, TypeInv, IInv, TypeOK
  <2>2. ASSUME NEW p \in Profiles, steady[p]
        PROVE  clock <= checked[p] + used[p] + 2 * MaxCycle + MaxLate
    <3>1. /\ clock \in Nat /\ started \in Nat /\ deadline \in Nat
          /\ checked[p] \in Nat /\ used[p] \in Nat
          /\ phase \in {"sleeping", "cycle"}
          /\ MaxCycle \in Nat /\ MaxLate \in Nat
      BY UsedInterval, Constants DEF TInv, TypeInv
    <3>2. /\ p \in DOMAIN next_due /\ next_due[p] <= checked[p] + used[p]
          /\ phase = "sleeping" => deadline <= next_due[p]
          /\ phase = "cycle" /\ p \in due =>
                started <= checked[p] + used[p] + MaxLate + MaxCycle
      BY <2>2 DEF TInv, SteadyInv
    <3>3. next_due[p] \in Nat
      BY <3>2 DEF TInv, IInv
    <3>4. CASE phase = "sleeping"
      BY <3>1, <3>2, <3>3, <3>4 DEF TInv, LateInv
    <3>5. CASE phase = "cycle"
      BY <3>1, <3>2, <3>3, <3>5 DEF TInv, LateInv
    <3> QED
      BY <3>1, <3>4, <3>5
  <2> QED
    BY <2>1, <2>2 DEF ScheduleKept, CheckedInTime
<1> QED
  BY <1>1, LatenessInvariance, PTL
=============================================================================
