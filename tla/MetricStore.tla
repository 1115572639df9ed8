---------------------------- MODULE MetricStore ----------------------------
(***************************************************************************)
(* The history of one metric in the monitoring database (schema.py):       *)
(* samples, the minute rollups made of them, the rollup watermark and      *)
(* retention, written by the collector's cycles and by                     *)
(* gost-monitor-admin maintenance, which takes no lock (admin_cli.py).     *)
(*                                                                         *)
(* A cycle fixes its timestamp when it begins and commits later.           *)
(* Maintenance runs inside the transaction of a cycle with the cycle's     *)
(* timestamp, or by itself with the time of the clock.                     *)
(*                                                                         *)
(* A sample is [id, ts, value]; value None is a sample of quality          *)
(* unavailable.  A rollup row is the set of the samples it was computed    *)
(* from: its counts and extremes are functions of that set.                *)
(***************************************************************************)
EXTENDS Integers, Sequences, FiniteSets, FiniteSetsExt

CONSTANTS None,             \* no value, no watermark, no cycle
          Minute,           \* units of time in a minute
          RawRetention,     \* RAW_RETENTION_SECONDS
          RollupRetention,  \* ROLLUP_RETENTION_SECONDS
          BatchMinutes,     \* ROLLUP_BATCH_MINUTES
          Measured,         \* bound: what the cycles measure, one after the other
          Start,            \* bound: the first time of the clock
          MaxTime,          \* bound: the last one
          MaxOpen,          \* bound: units of time a cycle stays open
          MaxSteps          \* bound: times the clock is set

(* A cycle takes seconds and raw samples are kept for six hours. *)
ASSUME StoreAssumption ==
    /\ {Minute, RawRetention, RollupRetention, BatchMinutes, Start} \subseteq Nat \ {0}
    /\ {MaxTime, MaxOpen, MaxSteps} \subseteq Nat
    /\ Minute <= Start /\ Start <= MaxTime /\ Minute + MaxOpen <= RawRetention
    /\ None \notin Int /\ Measured \in Seq(Int \cup {None})

VARIABLES
    now,         \* the wall clock
    points,      \* metric_points
    rollups,     \* minute_rollups: minute -> the samples it was computed from
    watermark,   \* minute_rollup_watermark
    cycle,       \* the timestamp of the cycle that has begun
    committed,   \* ghost: every sample ever committed
    late,        \* ghost: samples committed below the watermark
    overlapped,  \* ghost: maintenance ran by itself while a cycle was open
    lagged,      \* ghost: maintenance was further behind than a batch can catch up
    steps        \* ghost: times the clock was set

vars == <<now, points, rollups, watermark, cycle, committed, late, overlapped, lagged, steps>>

Times == Start..MaxTime
Floor(t) == (t \div Minute) * Minute
Ceil(t) == -Floor(-t)
Minutes == {Floor(t) : t \in Times}
Samples == {[id |-> i, ts |-> t, value |-> Measured[i]] : i \in DOMAIN Measured, t \in Times}

Within(from, to) == {p \in points : from <= p.ts /\ p.ts < to}

TypeOK ==
    /\ now \in Times
    /\ points \subseteq committed /\ committed \subseteq Samples
    /\ \A p, q \in committed : p.id = q.id => p = q
    /\ DOMAIN rollups \subseteq Minutes
    /\ \A m \in DOMAIN rollups :
          rollups[m] # {} /\ rollups[m] \subseteq {p \in committed : Floor(p.ts) = m}
    /\ watermark \in {None} \cup Minutes
    /\ cycle \in Times \cup {None}
    /\ late \subseteq committed
    /\ overlapped \in BOOLEAN /\ lagged \in BOOLEAN
    /\ steps \in 0..MaxSteps

Init ==
    /\ now = Start
    /\ points = {} /\ rollups = <<>> /\ watermark = None /\ cycle = None
    /\ committed = {} /\ late = {}
    /\ overlapped = FALSE /\ lagged = FALSE /\ steps = 0

-----------------------------------------------------------------------------
(* Maintenance, on a database [points, rollups, watermark] at time t *)

Db == [points |-> points, rollups |-> rollups, watermark |-> watermark]

(* Minutes that end after t are not complete. *)
CompleteBefore(t) == Floor(t)

(* The first minute not rolled up: the watermark, or the oldest sample's. *)
RollupFrom(db) ==
    IF db.watermark = None THEN Floor(Min({p.ts : p \in db.points})) ELSE db.watermark

(* Mutant: the watermark is left where the batch began. *)
RollupBatchAgain(db, from, to) ==
    LET batch == {p \in db.points : from <= p.ts /\ p.ts < to}
        kept == DOMAIN db.rollups \cup {Floor(p.ts) : p \in batch}
    IN [db EXCEPT !.rollups = [m \in kept |->
                                  IF \E p \in batch : Floor(p.ts) = m
                                  THEN {p \in batch : Floor(p.ts) = m} ELSE db.rollups[m]],
                  !.watermark = from]

(* INSERT OR REPLACE of the minutes that have samples in [from, to). *)
RollupBatch(db, from, to) ==
    LET batch == {p \in db.points : from <= p.ts /\ p.ts < to}
        touched == {Floor(p.ts) : p \in batch}
    IN [db EXCEPT !.rollups = [m \in DOMAIN db.rollups \cup touched |->
                                  IF m \in touched
                                  THEN {p \in batch : Floor(p.ts) = m} ELSE db.rollups[m]],
                  !.watermark = to]

RollupCompletedMinutes(db, t) ==
    IF db.points = {} THEN [db EXCEPT !.watermark = CompleteBefore(t)]
    ELSE LET from == RollupFrom(db)
             to == Min({CompleteBefore(t), from + BatchMinutes * Minute})
         IN IF to <= from THEN db ELSE RollupBatch(db, from, to)

ApplyRetention(db, t) ==
    LET kept == {m \in DOMAIN db.rollups : m >= t - RollupRetention}
    IN [db EXCEPT !.points = {p \in @ : p.ts >= t - RawRetention},
                  !.rollups = [m \in kept |-> db.rollups[m]]]

(* Mutant: the old samples are deleted first. *)
RunMaintenanceSwapped(db, t) == RollupCompletedMinutes(ApplyRetention(db, t), t)

RunMaintenance(db, t) == ApplyRetention(RollupCompletedMinutes(db, t), t)

(* The backlog is longer than what is kept and a batch together. *)
Lags(db, t) ==
    db.points # {} /\ t - RollupFrom(db) > RawRetention + BatchMinutes * Minute

Store(db) == points' = db.points /\ rollups' = db.rollups /\ watermark' = db.watermark

-----------------------------------------------------------------------------
(* Actions *)

Tick ==
    /\ now < MaxTime /\ (cycle # None => now < cycle + MaxOpen)
    /\ now' = now + 1
    /\ UNCHANGED <<points, rollups, watermark, cycle, committed, late, overlapped, lagged, steps>>

(* The clock of the host is set back (ahead is the same as Tick). *)
SetClock(t) ==
    /\ steps < MaxSteps
    /\ now' = t
    /\ steps' = steps + 1
    /\ UNCHANGED <<points, rollups, watermark, cycle, committed, late, overlapped, lagged>>

(* A unit of time is not longer than the shortest sample interval: one     *)
(* cycle begins in each.                                                   *)
BeginCycle ==
    /\ cycle = None /\ Cardinality(committed) < Len(Measured)
    /\ \A p \in committed : p.ts # now \/ steps > 0
    /\ cycle' = now
    /\ UNCHANGED <<now, points, rollups, watermark, committed, late, overlapped, lagged, steps>>

(* The transaction of a cycle: maintenance, when it is due and does not    *)
(* fail (a failure goes back to its savepoint), then the sample, in place  *)
(* of one that has its time (the clock was set back).                      *)
CommitCycle(maintained) ==
    LET n == Cardinality(committed) + 1
        p == [id |-> n, ts |-> cycle, value |-> Measured[n]]
        db == IF maintained THEN RunMaintenance(Db, cycle) ELSE Db
    IN /\ cycle # None
       /\ Store([db EXCEPT !.points = {q \in @ : q.ts # cycle} \cup {p}])
       /\ cycle' = None
       /\ committed' = committed \cup {p}
       /\ late' = IF db.watermark # None /\ cycle < db.watermark THEN late \cup {p} ELSE late
       /\ lagged' = (lagged \/ (maintained /\ Lags(Db, cycle)))
       /\ UNCHANGED <<now, overlapped, steps>>

(* The transaction fails, or the collector is stopped before its commit. *)
AbandonCycle ==
    /\ cycle # None
    /\ cycle' = None
    /\ UNCHANGED <<now, points, rollups, watermark, committed, late, overlapped, lagged, steps>>

(* gost-monitor-admin maintenance *)
AdminMaintenance ==
    /\ Store(RunMaintenance(Db, now))
    /\ overlapped' = (overlapped \/ cycle # None)
    /\ lagged' = (lagged \/ Lags(Db, now))
    /\ UNCHANGED <<now, cycle, committed, late, steps>>

Next ==
    \/ Tick
    \/ \E t \in Times \cap {now - Minute} : SetClock(t)
    \/ BeginCycle
    \/ \E maintained \in BOOLEAN : CommitCycle(maintained)
    \/ AbandonCycle
    \/ AdminMaintenance

Spec == Init /\ [][Next]_vars

-----------------------------------------------------------------------------
(* Properties of the store *)

(* rollup_completed_minutes and apply_retention: a sample deleted by raw   *)
(* retention is in the rollup of its minute until that rollup is too old,  *)
(* unless it came late, maintenance was behind by more than raw retention  *)
(* and one batch, or the clock was set.                                    *)
NothingDropped ==
    \A p \in committed \ (points \cup late) :
        \/ Floor(p.ts) \in DOMAIN rollups /\ p \in rollups[Floor(p.ts)]
        \/ Floor(p.ts) < now - RollupRetention
        \/ lagged \/ steps > 0

(* Maintenance inside a cycle uses the cycle's timestamp: no sample is     *)
(* committed below the watermark, where no rollup takes it any more,       *)
(* unless maintenance ran by itself during a cycle or the clock was set.   *)
LateOnlyUnlocked == late # {} => overlapped \/ steps > 0

(* The store is well formed and loses nothing between raw and rollup. *)
StoreComplete == TypeOK /\ NothingDropped /\ LateOnlyUnlocked

(* A rollup is written once: a later batch never replaces it with what     *)
(* raw retention has left of its minute, as long as the clock is not set.  *)
(* The watermark returns neither, unless maintenance ran by itself during  *)
(* a cycle (it may mark an empty history later than the cycle's own).      *)
RollupFinal ==
    [][steps' = 0 =>
          /\ \A m \in DOMAIN rollups \cap DOMAIN rollups' : rollups'[m] = rollups[m]
          /\ watermark # None /\ ~overlapped' => watermark' >= watermark]_vars
=============================================================================
