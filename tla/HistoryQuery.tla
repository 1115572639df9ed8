---------------------------- MODULE HistoryQuery ----------------------------
(***************************************************************************)
(* Queries and exports of the history kept by MetricStore (query_window.py,*)
(* query_db.py, query_engine.py, exporters.py): the window, the plan that  *)
(* takes finished minutes from rollups and the rest from raw samples, the  *)
(* two raw summaries (in memory and streaming), the rollup summary, their  *)
(* combination, and the rows of an export.                                 *)
(*                                                                         *)
(* A query reads one snapshot of the database (one read transaction), so   *)
(* it is an operator on the state.  Its window was resolved earlier, when  *)
(* the clock showed up to MaxLag units less.  One series of a gauge; the   *)
(* averages of rollups, which are floating point, are left out.            *)
(***************************************************************************)
EXTENDS MetricStore, SequencesExt

CONSTANTS MaxQueryRows,         \* QueryLimits.max_query_rows
          MaxStreamScanRows,    \* QueryLimits.max_stream_scan_rows
          MaxMaterializedRows,  \* QueryLimits.max_materialized_rows
          MaxExportRows,        \* QueryLimits.max_export_rows
          AutoRaw,              \* the longest window exported raw by itself
          Cadences,             \* units of time between samples, of each metric
          MaxSeed,              \* QueryLimits.max_seed_seconds
          MaxLag                \* bound: time from a window to its reading

ASSUME QueryAssumption ==
    /\ Cadences \subseteq Nat \ {0} /\ Cadences # {} /\ IsFiniteSet(Cadences)
    /\ {MaxQueryRows, MaxMaterializedRows, MaxExportRows, AutoRaw} \subseteq Nat
    /\ {MaxSeed, MaxLag} \subseteq Nat
    /\ MaxStreamScanRows \in Nat /\ MaxQueryRows <= MaxStreamScanRows

CeilDiv(a, b) == (a + b - 1) \div b
SumOver(f(_), S) == MapThenSumSet(f, S)

(* max_gap_multiplier is 2.5; times are whole. *)
MaxGap(cadence) == (5 * cadence) \div 2

(* The query reads back as far as its longest gap, whatever the metric. *)
Seed == Min({MaxSeed, MaxGap(Max(Cadences))})

(* The samples due in a stretch of time, a part of one counting as one. *)
Due(time, cadence) == Max({1, CeilDiv(time, cadence)})
DueMissing(time, cadence) == IF time > 0 THEN Due(time, cadence) ELSE 0

-----------------------------------------------------------------------------
(* The window and the plan *)

(* resolve_window at time t: the window, in a set; the empty set when it   *)
(* is refused.                                                             *)
ResolveWindow(t, from, to) ==
    LET oldest == t - RollupRetention
        w == [start |-> Max({from, oldest}), end |-> Min({to, t})]
    IN IF /\ from < to /\ from < t
          /\ to - from <= RollupRetention
          /\ to > oldest
          /\ w.start < w.end
       THEN {w} ELSE {}

(* The windows of the queries that may be reading now.  An open cycle is   *)
(* not seen, and AbandonCycle leaves the same database: a query is asked   *)
(* when none is open.                                                      *)
Requests == {r \in Times \X Times : r[1] < r[2]}
Windows ==
    IF cycle # None THEN {}
    ELSE UNION {ResolveWindow(t, r[1], r[2]) : t \in (now - MaxLag)..now, r \in Requests}

(* rollup_watermark_status *)
ValidWatermark ==
    IF watermark # None /\ watermark <= Floor(now) THEN watermark ELSE None

(* The complete minutes of [from, to) that have a rollup. *)
RollupRows(from, to) == {m \in DOMAIN rollups : Ceil(from) <= m /\ m < Floor(to)}

(* Mutant: every minute of the window is taken from the rollups. *)
CostAwarePlanAllRollups(w) ==
    LET small == /\ w.start >= now - RawRetention
                 /\ Cardinality(Within(w.start, w.end)) <= MaxQueryRows
    IN IF small THEN [rollupEnd |-> w.start, rawStart |-> w.start, stream |-> FALSE, refused |-> FALSE]
       ELSE [rollupEnd |-> w.end, rawStart |-> w.end, stream |-> FALSE, refused |-> FALSE]

(* Rollups are read in [w.start, rollupEnd), raw samples in                *)
(* [rawStart, w.end); an empty interval is not read.                       *)
CostAwarePlan(w) ==
    LET cutoff == now - RawRetention
        small == w.start >= cutoff /\ Cardinality(Within(w.start, w.end)) <= MaxQueryRows
        finalized == IF ValidWatermark = None THEN w.start
                     ELSE Min({w.end, Max({w.start, ValidWatermark})})
        rawStart == IF ValidWatermark # None /\ finalized < cutoff
                    THEN Min({w.end, cutoff}) ELSE finalized
        rawCount == Cardinality(Within(rawStart, w.end))
        remaining == Max({0, MaxMaterializedRows - rawCount})
        stream == \/ rawCount > MaxQueryRows
                  \/ /\ rawStart < w.end
                     /\ Cardinality(RollupRows(w.start, finalized)) > remaining
    IN IF small
       THEN [rollupEnd |-> w.start, rawStart |-> w.start, stream |-> FALSE, refused |-> FALSE]
       ELSE [rollupEnd |-> finalized, rawStart |-> rawStart, stream |-> stream,
             refused |-> rawCount > MaxStreamScanRows]

SourceMode(w, plan) ==
    IF plan.rollupEnd = w.start THEN "raw"
    ELSE IF plan.rawStart < w.end THEN "hybrid" ELSE "rollup"

(* raw_points and iter_raw_points: the samples of the interval and the     *)
(* last one before it, if it is recent enough.                             *)
RawPoints(from, to) ==
    LET before == Within(from - Seed, from)
    IN Within(from, to) \cup {p \in before : \A q \in before : q.ts <= p.ts /\ (q.ts = p.ts => q.id <= p.id)}

-----------------------------------------------------------------------------
(* Summaries *)

Unavailable(S) == Cardinality({p \in S : p.value = None})
Available(S) == {p.value : p \in {q \in S : q.value # None}}
MinOrNone(S) == IF S = {} THEN None ELSE Min(S)
MaxOrNone(S) == IF S = {} THEN None ELSE Max(S)

Ordered(S) ==
    SetToSortSeq(S, LAMBDA p, q : p.ts < q.ts \/ (p.ts = q.ts /\ p.id < q.id))

(* How long a sample stands for its value: until the next one, the end of  *)
(* the interval or the longest gap.                                        *)
Weight(p, next, from, to, gap) ==
    IF p.value = None \/ (p.ts < from /\ from - p.ts > gap) THEN 0
    ELSE Max({0, Min({to, next, p.ts + gap}) - Max({from, p.ts})})

(* _raw_summary *)
RawSummary(S, from, to, cadence) ==
    LET ordered == Ordered(S)
        inside == {p \in S : from <= p.ts /\ p.ts < to}
        times == {p.ts : p \in inside}
        next(i) == IF i < Len(ordered) THEN ordered[i + 1].ts ELSE to
        weight(i) == Weight(ordered[i], next(i), from, to, MaxGap(cadence))
        total(i) == IF weight(i) = 0 THEN 0 ELSE ordered[i].value * weight(i)
    IN [samples |-> Cardinality(inside),
        expected |-> Due(to - from, cadence),
        unavailable |-> Unavailable(inside),
        first |-> MinOrNone(times), last |-> MaxOrNone(times),
        latest |-> IF inside = {} THEN None ELSE ordered[Len(ordered)].value,
        minimum |-> MinOrNone(Available(inside)), maximum |-> MaxOrNone(Available(inside)),
        seconds |-> SumOver(weight, DOMAIN ordered),
        total |-> SumOver(total, DOMAIN ordered)]

(* _StreamingRawSummary._segment *)
Segment(s, next, from, to, gap) ==
    IF s.previous = None THEN s
    ELSE LET weight == Weight(s.previous, next, from, to, gap)
         IN IF weight = 0 THEN s
            ELSE [s EXCEPT !.seconds = @ + weight, !.total = @ + s.previous.value * weight]

Least(a, b) == IF a = None THEN b ELSE IF b = None THEN a ELSE Min({a, b})
Greatest(a, b) == IF a = None THEN b ELSE IF b = None THEN a ELSE Max({a, b})

(* _StreamingRawSummary.add *)
StreamAdd(s, p, from, to, gap) ==
    LET weighed == Segment(s, p.ts, from, to, gap)
        counted == [weighed EXCEPT
            !.samples = @ + 1,
            !.unavailable = IF p.value = None THEN @ + 1 ELSE @,
            !.first = IF @ = None THEN p.ts ELSE @, !.last = p.ts, !.latest = p.value,
            !.minimum = Least(@, p.value), !.maximum = Greatest(@, p.value)]
    IN [(IF from <= p.ts /\ p.ts < to THEN counted ELSE weighed) EXCEPT !.previous = p]

(* _StreamingRawSummary.finish *)
StreamFinish(s, from, to, gap) == Segment(s, to, from, to, gap)

StreamingSummary(S, from, to, cadence) ==
    LET gap == MaxGap(cadence)
        empty == [samples |-> 0, expected |-> Due(to - from, cadence),
                  unavailable |-> 0, first |-> None, last |-> None, latest |-> None,
                  minimum |-> None, maximum |-> None, seconds |-> 0, total |-> 0,
                  previous |-> None]
        add(s, p) == StreamAdd(s, p, from, to, gap)
        done == StreamFinish(FoldLeft(add, empty, Ordered(S)), from, to, gap)
    IN [k \in DOMAIN done \ {"previous"} |-> done[k]]

(* _rollup_summary, of the minutes rows; each was written with the number  *)
(* of samples due in it.                                                   *)
RollupSummary(rows, from, to, cadence) ==
    LET samples == UNION {rollups[m] : m \in rows}
        missing == Max({0, to - from - Cardinality(rows) * Minute})
        size(m) == Cardinality(rollups[m])
        bad(m) == Unavailable(rollups[m])
    IN [samples |-> SumOver(size, rows),
        expected |-> Cardinality(rows) * Due(Minute, cadence) + DueMissing(missing, cadence),
        unavailable |-> SumOver(bad, rows),
        first |-> Min(rows), last |-> Max(rows) + Minute - 1, latest |-> None,
        minimum |-> MinOrNone(Available(samples)), maximum |-> MaxOrNone(Available(samples))]

(* Mutant: time that neither part stands for is not expected. *)
CombineHybridNothingMissing(raw, roll, w, plan, cadence) ==
    [samples |-> roll.samples + raw.samples, expected |-> roll.expected + raw.expected,
     unavailable |-> roll.unavailable + raw.unavailable,
     first |-> Least(roll.first, raw.first), last |-> Greatest(roll.last, raw.last),
     latest |-> raw.latest,
     minimum |-> Least(roll.minimum, raw.minimum), maximum |-> Greatest(roll.maximum, raw.maximum)]

(* A part without a row of the series. *)
NoPart == [samples |-> 0, expected |-> 0, unavailable |-> 0, first |-> None, last |-> None,
           latest |-> None, minimum |-> None, maximum |-> None]

(* _combine_hybrid *)
CombineHybrid(raw, roll, w, plan, cadence) ==
    LET represented == (IF roll = NoPart THEN 0 ELSE plan.rollupEnd - w.start)
                       + (IF raw = NoPart THEN 0 ELSE w.end - plan.rawStart)
        missing == Max({0, w.end - w.start - represented})
    IN [samples |-> roll.samples + raw.samples,
        expected |-> roll.expected + raw.expected + DueMissing(missing, cadence),
        unavailable |-> roll.unavailable + raw.unavailable,
        first |-> Least(roll.first, raw.first), last |-> Greatest(roll.last, raw.last),
        latest |-> raw.latest,
        minimum |-> Least(roll.minimum, raw.minimum), maximum |-> Greatest(roll.maximum, raw.maximum)]

(* What a query reads: raw samples, rollup rows, and whether it is refused *)
(* for a limit (one series: the seed is the only row beyond the raw limit).*)
Read(w) ==
    LET plan == CostAwarePlan(w)
        raw == IF plan.rawStart < w.end THEN RawPoints(plan.rawStart, w.end) ELSE {}
        rows == RollupRows(w.start, plan.rollupEnd)
        buffered == IF plan.stream THEN Cardinality({p \in raw : \A q \in raw : p.id <= q.id})
                    ELSE Cardinality(raw)
    IN [plan |-> plan, raw |-> raw, rows |-> rows,
        refused |-> \/ plan.refused
                    \/ Cardinality(rows) > MaxQueryRows
                    \/ buffered + Cardinality(rows) > MaxMaterializedRows]

(* summary, of a query that is not refused and finds the series *)
Summary(w, read, cadence) ==
    LET plan == read.plan
        from == plan.rawStart
        raw == IF read.raw = {} THEN NoPart
               ELSE LET s == IF plan.stream THEN StreamingSummary(read.raw, from, w.end, cadence)
                             ELSE RawSummary(read.raw, from, w.end, cadence)
                    IN [k \in DOMAIN NoPart |-> s[k]]
        roll == IF read.rows = {} THEN NoPart
                ELSE RollupSummary(read.rows, w.start, plan.rollupEnd, cadence)
    IN IF SourceMode(w, plan) = "hybrid" THEN CombineHybrid(raw, roll, w, plan, cadence)
       ELSE IF read.raw # {} THEN raw ELSE roll

Answered(w, read) == ~read.refused /\ (read.raw # {} \/ read.rows # {})

-----------------------------------------------------------------------------
(* Exports *)

(* The granularity auto takes the samples themselves for short windows. *)
SelectsRaw(w, plan, granularity) ==
    \/ granularity = "raw"
    \/ /\ granularity = "auto"
       /\ SourceMode(w, plan) = "raw" /\ ~plan.stream /\ w.end - w.start <= AutoRaw

(* Mutant: the first minute is taken though the window cuts it. *)
ExportSelectionCut(w, plan, granularity) ==
    IF SelectsRaw(w, plan, granularity)
    THEN [raw |-> Within(w.start, w.end), rollup |-> {}, rawMinute |-> {}]
    ELSE [raw |-> {},
          rollup |-> {m \in DOMAIN rollups : Floor(w.start) <= m /\ m < Floor(plan.rollupEnd)},
          rawMinute |-> IF plan.rawStart < w.end THEN Within(plan.rawStart, w.end) ELSE {}]

(* _export_selection: the rows of each source *)
ExportSelection(w, plan, granularity) ==
    IF SelectsRaw(w, plan, granularity)
    THEN [raw |-> Within(w.start, w.end), rollup |-> {}, rawMinute |-> {}]
    ELSE [raw |-> {},
          rollup |-> RollupRows(w.start, plan.rollupEnd),
          rawMinute |-> IF plan.rawStart < w.end THEN Within(plan.rawStart, w.end) ELSE {}]

(* _point_rows and iter_export_rows: a row for each sample, or for each    *)
(* minute, with the samples it stands for                                  *)
PointRows(selection) ==
    {[source |-> "raw", at |-> p.ts, samples |-> {p}] : p \in selection.raw}
    \cup {[source |-> "rollup", at |-> m, samples |-> rollups[m]] : m \in selection.rollup}
    \cup {[source |-> "raw_minute", at |-> m,
            samples |-> {p \in selection.rawMinute : Floor(p.ts) = m}] :
              m \in {Floor(p.ts) : p \in selection.rawMinute}}

(* _export_selection and _count_point_rows *)
ExportRefused(w, plan, granularity) ==
    LET selection == ExportSelection(w, plan, granularity)
    IN \/ plan.refused
       \/ granularity = "raw" /\ (SourceMode(w, plan) # "raw" \/ plan.stream)
       \/ Cardinality(selection.rawMinute) > MaxStreamScanRows
       \/ Cardinality(PointRows(selection)) > MaxExportRows

-----------------------------------------------------------------------------
(* Properties of the queries *)

(* The samples an answer stands for. *)
Counted(w, read) ==
    {p \in read.raw : read.plan.rawStart <= p.ts /\ p.ts < w.end}
    \cup UNION {rollups[m] : m \in read.rows}

(* _cost_aware_plan and summary: whatever the watermark, the limits and    *)
(* the clock, the counts of an answer are those of the samples it stands   *)
(* for (none is counted from its rollup and from raw), all of them in the  *)
(* window, and its extremes and first and last times are theirs.           *)
AnswerExact(w, counted, s) ==
    /\ s.samples = Cardinality(counted)
    /\ s.unavailable = Unavailable(counted)
    /\ s.minimum = MinOrNone(Available(counted))
    /\ s.maximum = MaxOrNone(Available(counted))
    /\ \A p \in counted :
          /\ w.start <= p.ts /\ p.ts < w.end
          /\ s.first <= p.ts /\ p.ts <= s.last

(* Maintenance has not fallen behind what the query reads as raw. *)
Current(w) ==
    watermark = None \/ watermark >= now - RawRetention \/ w.start >= now - RawRetention

(* An answer leaves out no retained sample of its window but those of the  *)
(* minutes the window cuts, when it reads rollups there, and late ones, as *)
(* long as maintenance has kept up and the clock was not set.              *)
AnswerComplete ==
    steps = 0 =>
    \A w \in {v \in Windows : Current(v)} :
        LET read == Read(w)
            whole(p) == \/ p.ts >= read.plan.rawStart
                        \/ Ceil(w.start) <= p.ts /\ p.ts < Floor(read.plan.rollupEnd)
            kept(p) == Floor(p.ts) >= now - RollupRetention
        IN ~read.refused =>
              \A p \in committed \ late :
                 w.start <= p.ts /\ p.ts < w.end /\ kept(p) /\ whole(p) =>
                    p \in Counted(w, read) \/ lagged

(* The parts of an answer whose samples due are rounded up on their own:   *)
(* each minute of the rollups, unless it holds a whole number of samples,  *)
(* the minutes that have no rollup, together, and the time read as raw.    *)
RoundedParts(w, read, cadence) ==
    (IF Minute % cadence = 0 THEN 0 ELSE Cardinality(read.rows))
    + (IF read.plan.rollupEnd - w.start > Cardinality(read.rows) * Minute THEN 1 ELSE 0)
    + (IF read.plan.rawStart < w.end THEN 1 ELSE 0)

(* expected_sample_count, the denominator of the coverage that is shown:   *)
(* however the answer is put together and whichever part has no row, all   *)
(* of the window is counted, never less than the samples due in it, and    *)
(* none of it twice: what goes beyond is less than one for each part that  *)
(* is rounded up.  As long as maintenance has kept up.                     *)
ExpectedFits(w, read, s, cadence) ==
    Current(w) =>
        LET due == Due(w.end - w.start, cadence)
        IN /\ due <= s.expected
           /\ s.expected <= due + Max({0, RoundedParts(w, read, cadence) - 1})

(* _StreamingRawSummary is _raw_summary of the same rows.                  *)
StreamingAgrees(w) ==
    LET S == RawPoints(w.start, w.end)
    IN S # {} => \A cadence \in Cadences :
          StreamingSummary(S, w.start, w.end, cadence) = RawSummary(S, w.start, w.end, cadence)

(* A summary is right in every figure, and the same from either of its two *)
(* implementations (summary), for a metric of any cadence.                 *)
AnswerRight ==
    \A w \in Windows :
        LET read == Read(w)
            counted == Counted(w, read)
        IN /\ Answered(w, read) =>
                \A cadence \in Cadences :
                   LET s == Summary(w, read, cadence)
                   IN AnswerExact(w, counted, s) /\ ExpectedFits(w, read, s, cadence)
           /\ StreamingAgrees(w)

(* An export of points or minutes has one row for a time, also after the   *)
(* clock was set back, and its rows together stand for the samples the     *)
(* summary of the same window counts, as long as maintenance has kept up   *)
(* (a raw export reads the whole window, the summary only what raw         *)
(* retention keeps).                                                       *)
ExportAgrees ==
    \A w \in {v \in Windows : Current(v)} :
        LET read == Read(w)
            size(r) == Cardinality(r.samples)
        IN Answered(w, read) =>
              \A granularity \in {"raw", "minute", "auto"} :
                 LET rows == PointRows(ExportSelection(w, read.plan, granularity))
                 IN ~ExportRefused(w, read.plan, granularity) =>
                       /\ SumOver(size, rows) = Summary(w, read, Max(Cadences)).samples
                       /\ \A r, q \in rows : r.at = q.at => r = q
=============================================================================
