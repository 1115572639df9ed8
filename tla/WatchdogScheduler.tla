-------------------------- MODULE WatchdogScheduler -------------------------
(***************************************************************************)
(* The scheduler of the Watchdog daemon (daemon.py run_cycle, run and      *)
(* advance_deadline): which profiles a cycle checks, when each is due      *)
(* again and when the daemon wakes up.                                     *)
(*                                                                         *)
(* Time is the monotonic clock in units the model chooses.  What a check   *)
(* does to its profile is module Watchdog; here it takes time and may      *)
(* fail.  The configuration is read once, at the beginning of a cycle.     *)
(***************************************************************************)
EXTENDS Integers, FiniteSets, FiniteSetsExt

CONSTANTS Profiles,     \* discovered iran-N profiles
          Intervals,    \* the values CHECK_INTERVAL_SECONDS is given
          ErrorDelay,   \* the pause after an unreadable global configuration
          MaxCycle,     \* bound: how long a cycle may take
          MaxLate,      \* bound: how late the process may be woken
          MaxTime       \* bound: the model's last instant

ASSUME SchedulerAssumption ==
    /\ Intervals \subseteq Nat \ {0} /\ ErrorDelay \in Nat \ {0}
    /\ MaxCycle \in Nat /\ MaxLate \in Nat /\ MaxTime \in Nat

VARIABLES
    clock,          \* the monotonic clock
    phase,          \* "sleeping" or "cycle"
    started,        \* monotonic_now of the cycle, 0 between two cycles
    deadline,       \* when the next cycle is to begin
    next_due,       \* next_due[p], for the profiles that have one
    due,            \* due profiles of the cycle not yet processed
    enabled,        \* configuration: profiles whose mode is not disabled
    readable,       \* configuration: profiles that load without error
    global_ok,      \* configuration: the global file loads
    fallback,       \* configuration: the global CHECK_INTERVAL_SECONDS
    setting,        \* configuration: p's own CHECK_INTERVAL_SECONDS, 0 for none
    steady,         \* history: p was part of every cycle since its last check
    checked,        \* history: when that was, 0 if it is not so
    used,           \* history: the interval next_due[p] was computed with, or 0
    origin          \* history: the deadline from which p keeps that interval, or 0

config == <<enabled, readable, global_ok, fallback, setting>>
history == <<steady, checked, used, origin>>
vars == <<clock, phase, started, deadline, next_due, due, config, history>>

TypeOK ==
    /\ clock \in 0..MaxTime
    /\ phase \in {"sleeping", "cycle"}
    /\ started \in 0..MaxTime
    /\ deadline \in Nat
    /\ DOMAIN next_due \subseteq Profiles /\ \A p \in DOMAIN next_due : next_due[p] \in Nat
    /\ due \subseteq Profiles
    /\ enabled \subseteq Profiles /\ readable \subseteq Profiles /\ global_ok \in BOOLEAN
    /\ fallback \in Intervals /\ setting \in [Profiles -> Intervals \cup {0}]
    /\ used \in [Profiles -> Intervals \cup {0}]
    /\ checked \in [Profiles -> 0..MaxTime]
    /\ steady \in [Profiles -> BOOLEAN]
    /\ origin \in [Profiles -> 0..MaxTime]

Init ==
    /\ clock = 0 /\ phase = "sleeping" /\ started = 0 /\ deadline = 0
    /\ next_due = [p \in {} |-> 0]
    /\ due = {}
    /\ enabled \in SUBSET Profiles /\ readable = Profiles /\ global_ok = TRUE
    /\ fallback \in Intervals /\ setting \in [Profiles -> Intervals \cup {0}]
    /\ used = [p \in Profiles |-> 0]
    /\ checked = [p \in Profiles |-> 0]
    /\ steady = [p \in Profiles |-> FALSE]
    /\ origin = [p \in Profiles |-> 0]

-----------------------------------------------------------------------------

(* profile_config_from_mapping: a profile without an interval of its own   *)
(* has the global one.                                                     *)
IntervalOf(p) == IF setting[p] # 0 THEN setting[p] ELSE fallback

(* Mutants of AdvanceDeadline: no catching up; one period too many. *)
AdvanceOnce(previous, interval, current) == previous + interval

AdvanceFrom(previous, interval, current) ==
    IF previous + interval > current THEN previous + interval ELSE current + interval

(* advance_deadline: the first instant after current on previous's grid. *)
AdvanceDeadline(previous, interval, current) ==
    LET next == previous + interval
        missed == (current - next) \div interval + 1
    IN  IF next > current THEN next ELSE next + missed * interval

(* run_cycle when the global configuration does not load. *)
CycleWithoutConfig ==
    /\ phase = "sleeping" /\ clock >= deadline
    /\ ~global_ok
    /\ deadline' = clock + ErrorDelay
    /\ steady' = [p \in Profiles |-> FALSE]
    /\ checked' = [p \in Profiles |-> 0]
    /\ UNCHANGED <<clock, phase, started, next_due, due, config, used, origin>>

(* run_cycle up to the ping checks; failed: the profiles whose pending     *)
(* action could not be reconciled (of a disabled one that changes nothing  *)
(* here: it is left out anyway).                                           *)
BeginCycle(failed) ==
    LET active == (enabled \cap readable) \ failed
        kept == [p \in DOMAIN next_due \cap active |-> next_due[p]]
        is_due(p) == p \in DOMAIN kept => clock >= kept[p]
    IN  /\ phase = "sleeping" /\ clock >= deadline
        /\ global_ok
        /\ failed \subseteq enabled \cap readable
        /\ phase' = "cycle"
        /\ started' = clock
        /\ next_due' = kept
        /\ due' = {p \in active : is_due(p)}
        /\ steady' = [p \in Profiles |-> steady[p] /\ p \in active]
        /\ checked' = [p \in Profiles |-> IF p \in active THEN checked[p] ELSE 0]
        /\ used' = [p \in Profiles |-> IF p \in DOMAIN kept THEN used[p] ELSE 0]
        /\ origin' = [p \in Profiles |-> IF p \in DOMAIN kept THEN origin[p] ELSE 0]
        /\ UNCHANGED <<clock, deadline, config>>

(* engine.process of one due profile, whether it raises or not, and the    *)
(* profile's next deadline.  A changed interval starts a grid of its own   *)
(* at the deadline that was pending.                                       *)
Process(p) ==
    LET previous == IF p \in DOMAIN next_due THEN next_due[p] ELSE started
        next == AdvanceDeadline(previous, IntervalOf(p), clock)
    IN  /\ phase = "cycle" /\ p \in due
        /\ due' = due \ {p}
        /\ next_due' = [q \in DOMAIN next_due \cup {p} |-> IF q = p THEN next ELSE next_due[q]]
        /\ checked' = [checked EXCEPT ![p] = clock]
        /\ used' = [used EXCEPT ![p] = IntervalOf(p)]
        /\ steady' = [steady EXCEPT ![p] = TRUE]
        /\ origin' = [origin EXCEPT ![p] = IF IntervalOf(p) = used[p] THEN @ ELSE previous]
        /\ UNCHANGED <<clock, phase, started, deadline, config>>

(* Mutant of Wake: the daemon sleeps until the last deadline.             *)
WakeLast(deadlines) ==
    IF deadlines # {} THEN Max(deadlines) ELSE started + fallback

(* What run_cycle returns: when to begin the next cycle. *)
Wake(deadlines) ==
    IF deadlines # {} THEN Min(deadlines) ELSE started + fallback

EndCycle ==
    /\ phase = "cycle" /\ due = {}
    /\ phase' = "sleeping"
    /\ deadline' = Wake({next_due[p] : p \in DOMAIN next_due})
    /\ started' = 0
    /\ UNCHANGED <<clock, next_due, due, config, history>>

-----------------------------------------------------------------------------
(* The environment.                                                        *)

(* Time passes: while the daemon sleeps, and while a cycle pings, waits    *)
(* for systemd or writes the database.                                     *)
Tick ==
    /\ clock < MaxTime
    /\ \/ phase = "sleeping" /\ clock < deadline + MaxLate
       \/ phase = "cycle" /\ clock < started + MaxCycle
    /\ clock' = clock + 1
    /\ UNCHANGED <<phase, started, deadline, next_due, due, config, history>>

(* An administrator changes the configuration while the daemon sleeps (a   *)
(* change during a cycle is seen by the next one).  The commands refuse an *)
(* invalid global file, and all but reset-profile an invalid profile.      *)

(* set-mode *)
SetMode(p) ==
    /\ p \in readable
    /\ enabled' = (enabled \ {p}) \cup ({p} \ enabled)
    /\ UNCHANGED <<readable, fallback, setting>>

(* configure-profile *)
ConfigureProfile(p) ==
    /\ p \in readable
    /\ \E i \in Intervals : setting' = [setting EXCEPT ![p] = i]
    /\ UNCHANGED <<enabled, readable, fallback>>

(* reset-profile replaces the profile's file, valid or not. *)
ResetProfile(p) ==
    /\ setting' = [setting EXCEPT ![p] = 0]
    /\ enabled' = enabled \ {p}
    /\ readable' = readable \cup {p}
    /\ UNCHANGED fallback

(* set-global *)
SetGlobal ==
    /\ fallback' \in Intervals
    /\ UNCHANGED <<enabled, readable, setting>>

(* A profile becomes invalid or valid again: its files, or a ping timeout  *)
(* above the interval it inherits.                                         *)
SpoilOrRepair(p) ==
    /\ readable' = (readable \ {p}) \cup ({p} \ readable)
    /\ UNCHANGED <<enabled, fallback, setting>>

Configure ==
    /\ phase = "sleeping"
    /\ \/ /\ global_ok
          /\ \/ \E p \in Profiles : SetMode(p) \/ ConfigureProfile(p) \/ ResetProfile(p)
             \/ SetGlobal
          /\ UNCHANGED global_ok
       \/ \E p \in Profiles : SpoilOrRepair(p) /\ UNCHANGED global_ok
       \/ global_ok' = ~global_ok /\ UNCHANGED <<enabled, readable, fallback, setting>>
    /\ UNCHANGED <<clock, phase, started, deadline, next_due, due, history>>

Next ==
    \/ CycleWithoutConfig
    \/ \E failed \in SUBSET Profiles : BeginCycle(failed)
    \/ \E p \in Profiles : Process(p)
    \/ EndCycle
    \/ Tick
    \/ Configure

Spec == Init /\ [][Next]_vars

-----------------------------------------------------------------------------

(* A profile that takes part in every cycle is checked again within the    *)
(* interval it had at its last check, however the cycles of other profiles, *)
(* slow pings, late wake-ups and changes of the configuration interleave:  *)
(* the delay is at most one late wake-up and two cycles, never a lost      *)
(* period.  An interval configured since then counts from the next check.  *)
CheckedInTime ==
    \A p \in Profiles : steady[p] =>
        clock <= checked[p] + used[p] + 2 * MaxCycle + MaxLate

(* The schedule of run_cycle is well formed and no profile is left behind. *)
ScheduleKept == TypeOK /\ CheckedInTime

(* Late cycles do not shift a profile's schedule: as long as its interval  *)
(* is not changed, every deadline stays on the grid of the first one, and  *)
(* a new interval goes on from the deadline that was pending.              *)
DeadlineOnGrid ==
    \A p \in DOMAIN next_due : (next_due[p] - origin[p]) % used[p] = 0

(* A check is never due again at the moment it was made, and never later   *)
(* than one interval after it: missed periods are skipped, not replayed.   *)
NextPeriod ==
    [][\A p \in due \ due' : /\ next_due'[p] > clock
                             /\ next_due'[p] <= clock + IntervalOf(p)]_vars
=============================================================================
