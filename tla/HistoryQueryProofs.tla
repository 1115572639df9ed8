------------------------- MODULE HistoryQueryProofs ------------------------
(***************************************************************************)
(* The monitoring database loses nothing between samples and rollups, for  *)
(* every minute, retention, batch and history: a sample that raw retention *)
(* deletes is in the rollup of its minute, no rollup is replaced by what   *)
(* is left of its minute, and only maintenance beside a cycle makes a      *)
(* sample come too late.                                                   *)
(*                                                                         *)
(* That is not inductive.  SteadyInv adds, while the clock is not set, how *)
(* timestamps, open cycle and watermark lie to each other, that what is    *)
(* younger than raw retention is still there, that rollups lie below the   *)
(* watermark, and that below it everything is rolled up (AtWatermark).     *)
(*                                                                         *)
(* Queries and exports read one state of that database.  What they read    *)
(* follows from the invariant and from where the plan of a query puts the  *)
(* border between rollups and raw samples (PlanFacts): every sample it     *)
(* covers is found, and none is found twice.                               *)
(***************************************************************************)
EXTENDS HistoryQuery, TLAPS, FiniteSetTheorems, WellFoundedInduction

-----------------------------------------------------------------------------
(* Minutes and minima *)

(* What the code's (t // 60) * 60 is: the last whole minute not after t. *)
LEMMA FloorBounds ==
    ASSUME NEW t \in Int
    PROVE  Floor(t) \in Int /\ Floor(t) <= t /\ t < Floor(t) + Minute
<1>1. Minute \in Nat \ {0}
  BY StoreAssumption
<1> QED
  BY <1>1, SMT DEF Floor

(* Two different whole minutes are a minute apart. *)
LEMMA FloorGap ==
    ASSUME NEW s \in Int, NEW t \in Int, Floor(s) < Floor(t)
    PROVE  Floor(s) + Minute <= Floor(t)
<1>1. Minute \in Nat \ {0} /\ s \div Minute \in Int /\ t \div Minute \in Int
  BY StoreAssumption, SMT
<1> DEFINE a == s \div Minute
           b == t \div Minute
<1>2. a \in Int /\ b \in Int /\ a * Minute < b * Minute
  BY <1>1 DEF Floor
<1> HIDE DEF a, b
<1>3. a < b
  <2> SUFFICES ASSUME a >= b PROVE FALSE
    BY <1>2
  <2>1. a * Minute >= b * Minute
    BY <1>1, <1>2, SMT
  <2> QED BY <1>1, <1>2, <2>1, SMT
<1>4. (b - a - 1) \in Nat
  BY <1>2, <1>3
<1>5. (b - a - 1) * Minute >= 0
  BY <1>1, <1>4, SMT
<1>6. (b - a - 1) * Minute = b * Minute - a * Minute - Minute
  BY <1>1, <1>2, SMT
<1> QED
  BY <1>1, <1>2, <1>5, <1>6, SMT DEF Floor, a, b

(* Floor respects the order of times. *)
LEMMA FloorMonotone ==
    ASSUME NEW s \in Int, NEW t \in Int, s <= t
    PROVE  Floor(s) <= Floor(t)
<1>1. /\ Floor(s) \in Int /\ Floor(s) <= s
      /\ Floor(t) \in Int /\ t < Floor(t) + Minute
  BY FloorBounds
<1>2. Floor(t) < Floor(s) => Floor(t) + Minute <= Floor(s)
  BY FloorGap
<1>3. Minute \in Nat
  BY StoreAssumption
<1> QED
  BY <1>1, <1>2, <1>3

(* A whole minute is its own Floor, and so is one a batch later. *)
LEMMA FloorWhole ==
    ASSUME NEW t \in Int, NEW n \in Int
    PROVE  /\ Floor(Floor(t)) = Floor(t)
           /\ Floor(Floor(t) + n * Minute) = Floor(t) + n * Minute
<1>1. Minute \in Nat \ {0} /\ t \div Minute \in Int
  BY StoreAssumption, SMT
<1>2. \A k \in Int : (k * Minute) \div Minute = k
  BY <1>1, SMT
<1>3. Floor(t) + n * Minute = ((t \div Minute) + n) * Minute
  BY <1>1, SMT DEF Floor
<1>4. (((t \div Minute) + n) * Minute) \div Minute = (t \div Minute) + n
  BY <1>1, <1>2
<1> QED
  BY <1>1, <1>2, <1>3, <1>4 DEF Floor

(* The least of a set of naturals. *)
LEMMA MinNat ==
    ASSUME NEW S, S \subseteq Nat, S # {}
    PROVE  Min(S) \in S /\ \A x \in S : Min(S) <= x
<1> DEFINE R == OpToRel(<, Nat)
<1>1. \E x \in S : \A y \in S : ~ (<<y, x>> \in R)
  <2>1. IsWellFoundedOn(R, Nat)
    BY NatLessThanWellFounded
  <2> HIDE DEF R
  <2> QED BY <2>1, WFMin
<1>2. PICK x \in S : \A y \in S : ~ (<<y, x>> \in R)
  BY <1>1
<1>3. \A y \in S : <<y, x>> \in Nat \X Nat /\ (y < x => <<y, x>> \in R)
  BY DEF OpToRel
<1>4. \A y \in S : x <= y
  <2> SUFFICES ASSUME NEW y \in S PROVE x <= y
    OBVIOUS
  <2>1. ~ (y < x)
    BY <1>2, <1>3
  <2>2. x \in Nat /\ y \in Nat
    OBVIOUS
  <2> QED BY <2>1, <2>2
<1> QED
  BY <1>4 DEF Min

(* The earlier of two times. *)
LEMMA MinPair ==
    ASSUME NEW a \in Int, NEW b \in Int
    PROVE  Min({a, b}) = IF a <= b THEN a ELSE b
<1>1. \E x \in {a, b} : \A y \in {a, b} : x <= y
  OBVIOUS
<1>2. Min({a, b}) \in {a, b} /\ \A y \in {a, b} : Min({a, b}) <= y
  BY <1>1 DEF Min
<1> QED
  BY <1>2

-----------------------------------------------------------------------------
(* The inductive invariant *)

(* The sample is in the rollup of its minute, in a table of rollups r. *)
RolledUp(r, p) == Floor(p.ts) \in DOMAIN r /\ p \in r[Floor(p.ts)]

(* A rollup of the sample would be too old to be kept. *)
Expired(p) == Floor(p.ts) < now - RollupRetention

(* Samples are numbered as they come, and an open cycle has one to measure. *)
CountInv ==
    /\ IsFiniteSet(committed)
    /\ \A p \in committed : p.id <= Cardinality(committed)
    /\ cycle # None => Cardinality(committed) < Len(Measured)

(* Without a watermark nothing is rolled up. *)
UnsetInv == watermark = None => DOMAIN rollups = {}

(* No sample and no watermark is in the future, and none beyond the open   *)
(* cycle unless maintenance ran beside it.                                 *)
ClockInv ==
    /\ \A p \in committed : p.ts <= now
    /\ cycle # None => /\ cycle <= now /\ now <= cycle + MaxOpen
                       /\ \A p \in committed : p.ts <= cycle
    /\ watermark # None => watermark <= now
    /\ (watermark # None /\ cycle # None) => watermark <= cycle \/ overlapped

(* Samples younger than raw retention are there, all of them before the    *)
(* first maintenance.                                                      *)
RawInv ==
    /\ \A p \in committed : p.ts >= now - RawRetention => p \in points
    /\ watermark = None => points = committed

(* Rollups lie below the watermark, and everything below it is rolled up. *)
AtWatermark ==
    /\ \A m \in DOMAIN rollups : m < watermark
    /\ ~lagged => \A p \in committed \ late :
          watermark # None /\ p.ts < watermark => RolledUp(rollups, p) \/ Expired(p)

SteadyInv == steps = 0 => ClockInv /\ RawInv /\ AtWatermark

IInv == StoreComplete /\ CountInv /\ UnsetInv /\ SteadyInv

(* Samples and times have the types of their parts. *)
LEMMA SampleTypes == ASSUME TypeOK
    PROVE  /\ Times \subseteq Nat /\ now \in Nat
           /\ \A p \in committed : p.ts \in Times /\ p.ts \in Nat /\ p.id \in Nat
           /\ \A p \in points : p \in committed
           /\ \A m \in Minutes : m \in Int /\ Floor(m) = m
<1>1. Start \in Nat /\ MaxTime \in Nat
  BY StoreAssumption
<1>2. Times \subseteq Nat
  BY <1>1 DEF Times
<1>3. \A m \in Minutes : m \in Int /\ Floor(m) = m
  <2>1. ASSUME NEW m \in Minutes PROVE m \in Int /\ Floor(m) = m
    <3>1. PICK t \in Times : m = Floor(t)
      BY DEF Minutes
    <3>2. t \in Int
      BY <1>2
    <3>3. Floor(t) \in Int /\ Floor(Floor(t)) = Floor(t)
      BY <3>2, FloorBounds, FloorWhole
    <3> QED BY <3>1, <3>3
  <2> QED BY <2>1
<1>4. \A p \in Samples : p.ts \in Times /\ p.id \in DOMAIN Measured
  BY DEF Samples
<1>5. DOMAIN Measured \subseteq Nat
  <2>1. Measured \in Seq(Int \cup {None})
    BY StoreAssumption
  <2>2. DOMAIN Measured = 1..Len(Measured) /\ Len(Measured) \in Nat
    BY <2>1
  <2> QED BY <2>2
<1>6. now \in Times /\ points \subseteq committed /\ committed \subseteq Samples
  BY DEF TypeOK
<1> QED
  BY <1>2, <1>3, <1>4, <1>5, <1>6

-----------------------------------------------------------------------------
(* Maintenance *)

From == RollupFrom(Db)

(* What a batch that ends at to makes of the rollups. *)
Batched(to) ==
    [m \in DOMAIN rollups \cup {Floor(p.ts) : p \in {q \in points : From <= q.ts /\ q.ts < to}} |->
        IF m \in {Floor(p.ts) : p \in {q \in points : From <= q.ts /\ q.ts < to}}
        THEN {p \in {q \in points : From <= q.ts /\ q.ts < to} : Floor(p.ts) = m}
        ELSE rollups[m]]

(* The next minute to roll up is whole; it is the watermark, or not later  *)
(* than any sample.                                                        *)
LEMMA FromType ==
    ASSUME TypeOK, points # {}
    PROVE  /\ From \in Minutes /\ From \in Int /\ Floor(From) = From
           /\ watermark # None => From = watermark
           /\ watermark = None => \A p \in points : From <= p.ts
<1> USE SampleTypes
<1>1. CASE watermark # None
  <2>1. From = watermark
    BY <1>1 DEF From, RollupFrom, Db
  <2>2. watermark \in Minutes
    BY <1>1 DEF TypeOK
  <2> QED BY <1>1, <2>1, <2>2
<1>2. CASE watermark = None
  <2> DEFINE S == {p.ts : p \in points}
  <2>1. From = Floor(Min(S))
    BY <1>2 DEF From, RollupFrom, Db
  <2>2. S \subseteq Nat /\ S # {} /\ S \subseteq Times
    OBVIOUS
  <2>3. Min(S) \in S /\ \A x \in S : Min(S) <= x
    <3> HIDE DEF S
    <3> QED BY <2>2, MinNat
  <2>4. Min(S) \in Times /\ Min(S) \in Int
    BY <2>2, <2>3
  <2>5. Floor(Min(S)) \in Int /\ Floor(Min(S)) <= Min(S)
    <3> HIDE DEF S
    <3> QED BY <2>4, FloorBounds
  <2>6. From \in Minutes
    <3> HIDE DEF S
    <3> QED BY <2>1, <2>4 DEF Minutes
  <2>7. ASSUME NEW p \in points PROVE From <= p.ts
    <3>1. Min(S) <= p.ts
      BY <2>3
    <3> HIDE DEF S
    <3> QED BY <2>1, <2>4, <2>5, <3>1
  <2> QED BY <1>2, <2>6, <2>7
<1> QED
  BY <1>1, <1>2

(* The three outcomes of rollup_completed_minutes: an empty history only   *)
(* moves the watermark, there may be nothing to do, or a batch is made.    *)
LEMMA RollupCases ==
    ASSUME TypeOK, NEW t \in Times, NEW r, r = RollupCompletedMinutes(Db, t)
    PROVE  /\ r.points = points
           /\ \/ points = {} /\ r.rollups = rollups /\ r.watermark = Floor(t)
              \/ /\ points # {} /\ r.rollups = rollups /\ r.watermark = watermark
                 /\ Floor(t) <= From
              \/ /\ points # {} /\ From < r.watermark /\ r.watermark <= Floor(t)
                 /\ r.watermark \in Minutes
                 /\ r.watermark \in {Floor(t), From + BatchMinutes * Minute}
                 /\ r.rollups = Batched(r.watermark)
<1> USE SampleTypes
<1>1. CASE points = {}
  BY <1>1 DEF RollupCompletedMinutes, Db, CompleteBefore
<1>2. CASE points # {}
  <2> DEFINE end == From + BatchMinutes * Minute
             to == Min({Floor(t), end})
  <2>1. /\ From \in Minutes /\ From \in Int /\ Floor(From) = From
    BY <1>2, FromType
  <2>2. t \in Int /\ Floor(t) \in Int /\ Floor(t) <= t
    BY FloorBounds
  <2>3. /\ BatchMinutes \in Nat \ {0} /\ Minute \in Nat \ {0}
        /\ Start \in Nat /\ MaxTime \in Nat
    BY StoreAssumption
  <2>4. BatchMinutes * Minute \in Nat /\ BatchMinutes * Minute > 0
    BY <2>3, SMT
  <2>5. end \in Int /\ From < end
    BY <2>1, <2>4
  <2>6. to = IF Floor(t) <= end THEN Floor(t) ELSE end
    <3> HIDE DEF end
    <3> QED BY <2>2, <2>5, MinPair
  <2>7. r = IF to <= From THEN Db ELSE RollupBatch(Db, From, to)
    <3>1. Db.points = points
      BY DEF Db
    <3> QED BY <1>2, <3>1 DEF RollupCompletedMinutes, CompleteBefore, From
  <2>8. CASE to <= From
    <3>1. Floor(t) <= From
      <4> HIDE DEF end, to
      <4> QED BY <2>1, <2>2, <2>5, <2>6, <2>8
    <3>2. r = Db
      BY <2>7, <2>8
    <3> QED BY <1>2, <3>1, <3>2 DEF Db
  <2>9. CASE ~ (to <= From)
    <3>1. r = RollupBatch(Db, From, to)
      BY <2>7, <2>9
    <3>2. /\ r.points = points /\ r.watermark = to /\ r.rollups = Batched(to)
      <4> HIDE DEF to
      <4> QED BY <3>1, ZenonT(40) DEF RollupBatch, Db, Batched
    <3>3. From < to /\ to <= Floor(t) /\ to \in {Floor(t), end}
      <4> HIDE DEF end, to
      <4> QED BY <2>1, <2>2, <2>5, <2>6, <2>9
    <3>4. to \in Minutes
      <4>1. Floor(end) = end
        BY <2>1, <2>3, FloorWhole
      <4>2. Floor(Floor(t)) = Floor(t)
        BY <2>2, <2>3, FloorWhole
      <4>3. to \in Int /\ Floor(to) = to
        <5> HIDE DEF end, to
        <5> QED BY <2>2, <2>5, <2>6, <4>1, <4>2
      <4>4. PICK s \in Times : From = Floor(s)
        BY <2>1 DEF Minutes
      <4>5. s \in Int /\ s < Floor(s) + Minute
        BY FloorBounds
      <4>6. Floor(s) < Floor(to)
        BY <3>3, <4>3, <4>4
      <4>7. Floor(s) + Minute <= Floor(to)
        <5> HIDE DEF to
        <5> QED BY <4>3, <4>5, <4>6, FloorGap
      <4>8. Start <= s /\ t <= MaxTime
        BY <2>3 DEF Times
      <4>9. to \in Start..MaxTime
        <5> HIDE DEF to
        <5> QED BY <2>1, <2>2, <2>3, <3>3, <4>3, <4>4, <4>5, <4>7, <4>8
      <4> HIDE DEF to
      <4> QED BY <4>3, <4>9 DEF Minutes, Times
    <3> HIDE DEF to
    <3> QED BY <1>2, <3>2, <3>3, <3>4
  <2> QED BY <2>8, <2>9
<1> QED
  BY <1>1, <1>2

(* A database whose rollups are made of committed samples of their minute. *)
WellFormed(d) ==
    /\ d.points \subseteq points /\ DOMAIN d.rollups \subseteq Minutes
    /\ \A m \in DOMAIN d.rollups :
          d.rollups[m] # {} /\ d.rollups[m] \subseteq {p \in committed : Floor(p.ts) = m}
    /\ d.watermark \in {None} \cup Minutes
    /\ d.watermark = None => DOMAIN d.rollups = {}

(* The watermark and the rollups of d continue those of the database, as   *)
(* maintenance at time t may change them.                                  *)
Continues(d, t) ==
    /\ d.watermark # None => d.watermark <= now
    /\ (d.watermark # None /\ (watermark = None \/ watermark <= t)) => d.watermark <= t
    /\ watermark # None => d.watermark # None
    /\ (watermark # None /\ watermark <= t) => watermark <= d.watermark
    /\ \A m \in DOMAIN d.rollups : m < d.watermark
    /\ \A m \in DOMAIN d.rollups \cap DOMAIN rollups : d.rollups[m] = rollups[m]

(* A sample that is gone from d or lies below its watermark is in a rollup. *)
Covered(d) ==
    \A p \in committed \ late :
        (p \notin d.points \/ (d.watermark # None /\ p.ts < d.watermark)) =>
            RolledUp(d.rollups, p) \/ Expired(p)

(* A batch makes rollups of the samples of whole minutes. *)
LEMMA BatchWellFormed ==
    ASSUME TypeOK, NEW to
    PROVE  /\ DOMAIN Batched(to) \subseteq Minutes
           /\ \A m \in DOMAIN Batched(to) :
                /\ Batched(to)[m] # {}
                /\ Batched(to)[m] \subseteq {p \in committed : Floor(p.ts) = m}
<1> DEFINE batch == {q \in points : From <= q.ts /\ q.ts < to}
           touched == {Floor(p.ts) : p \in batch}
<1>1. /\ DOMAIN Batched(to) = DOMAIN rollups \cup touched
      /\ \A m \in DOMAIN rollups \cup touched :
            Batched(to)[m] = IF m \in touched THEN {p \in batch : Floor(p.ts) = m}
                             ELSE rollups[m]
  BY DEF Batched
<1>2. \A p \in batch : p \in committed /\ p.ts \in Times
  BY SampleTypes
<1>3. touched \subseteq Minutes
  BY <1>2 DEF Minutes
<1>4. \A m \in touched : \E p \in batch : Floor(p.ts) = m
  OBVIOUS
<1>5. /\ DOMAIN rollups \subseteq Minutes
      /\ \A m \in DOMAIN rollups :
            rollups[m] # {} /\ rollups[m] \subseteq {p \in committed : Floor(p.ts) = m}
  BY DEF TypeOK
<1> HIDE DEF batch, touched
<1>6. ASSUME NEW m \in DOMAIN Batched(to)
      PROVE  /\ Batched(to)[m] # {}
             /\ Batched(to)[m] \subseteq {p \in committed : Floor(p.ts) = m}
  <2>1. CASE m \in touched
    <3>1. Batched(to)[m] = {p \in batch : Floor(p.ts) = m}
      BY <1>1, <2>1
    <3> QED BY <1>2, <1>4, <2>1, <3>1
  <2>2. CASE m \notin touched
    <3>1. Batched(to)[m] = rollups[m] /\ m \in DOMAIN rollups
      BY <1>1, <2>2
    <3> QED BY <1>5, <3>1
  <2> QED BY <2>1, <2>2
<1> QED
  BY <1>1, <1>3, <1>5, <1>6

(* rollup_completed_minutes leaves a well-formed database. *)
LEMMA RollupWellFormed ==
    ASSUME TypeOK, UnsetInv, NEW t \in Times, NEW r, r = RollupCompletedMinutes(Db, t)
    PROVE  WellFormed(r) /\ r.points = points
<1>1. r.points = points
  BY RollupCases
<1>2. /\ DOMAIN rollups \subseteq Minutes /\ watermark \in {None} \cup Minutes
      /\ \A m \in DOMAIN rollups :
            rollups[m] # {} /\ rollups[m] \subseteq {p \in committed : Floor(p.ts) = m}
  BY DEF TypeOK
<1>3. None \notin Minutes
  <2>1. None \notin Int
    BY StoreAssumption
  <2> QED BY <2>1, SampleTypes
<1>4. CASE points = {} /\ r.rollups = rollups /\ r.watermark = Floor(t)
  <2>1. Floor(t) \in Minutes
    BY DEF Minutes
  <2> QED BY <1>1, <1>2, <1>3, <1>4, <2>1 DEF WellFormed
<1>5. CASE r.rollups = rollups /\ r.watermark = watermark
  BY <1>1, <1>2, <1>5 DEF WellFormed, UnsetInv
<1>6. CASE r.watermark \in Minutes /\ r.rollups = Batched(r.watermark)
  BY <1>1, <1>3, <1>6, BatchWellFormed DEF WellFormed
<1> QED
  BY <1>4, <1>5, <1>6, RollupCases

(* apply_retention keeps the database well formed. *)
LEMMA RetentionWellFormed ==
    ASSUME NEW r, r.points = points, WellFormed(r), NEW t, NEW d, d = ApplyRetention(r, t),
           r = [points |-> r.points, rollups |-> r.rollups, watermark |-> r.watermark]
    PROVE  /\ WellFormed(d)
           /\ d.watermark = r.watermark
           /\ d.points = {p \in points : p.ts >= t - RawRetention}
           /\ DOMAIN d.rollups = {m \in DOMAIN r.rollups : m >= t - RollupRetention}
           /\ \A m \in DOMAIN d.rollups : d.rollups[m] = r.rollups[m]
           /\ d = [points |-> d.points, rollups |-> d.rollups, watermark |-> d.watermark]
<1>1. /\ d.watermark = r.watermark
      /\ d.points = {p \in points : p.ts >= t - RawRetention}
      /\ d.rollups = [m \in {n \in DOMAIN r.rollups : n >= t - RollupRetention} |-> r.rollups[m]]
      /\ d = [points |-> d.points, rollups |-> d.rollups, watermark |-> d.watermark]
  BY DEF ApplyRetention
<1>2. /\ DOMAIN d.rollups = {m \in DOMAIN r.rollups : m >= t - RollupRetention}
      /\ \A m \in DOMAIN d.rollups : d.rollups[m] = r.rollups[m]
  BY <1>1
<1>3. WellFormed(d)
  BY <1>1, <1>2 DEF WellFormed
<1> QED
  BY <1>1, <1>2, <1>3

(* rollup_completed_minutes returns a database of the same three parts. *)
LEMMA RollupRecord ==
    ASSUME NEW t, NEW r, r = RollupCompletedMinutes(Db, t)
    PROVE  r = [points |-> r.points, rollups |-> r.rollups, watermark |-> r.watermark]
<1> DEFINE to == Min({CompleteBefore(t), From + BatchMinutes * Minute})
<1>1. \/ r = [Db EXCEPT !.watermark = CompleteBefore(t)]
      \/ r = Db
      \/ r = RollupBatch(Db, From, to)
  BY DEF RollupCompletedMinutes, From
<1> HIDE DEF to
<1>2. CASE r = [Db EXCEPT !.watermark = CompleteBefore(t)]
  BY <1>2 DEF Db
<1>3. CASE r = Db
  BY <1>3 DEF Db
<1>4. CASE r = RollupBatch(Db, From, to)
  BY <1>4 DEF RollupBatch, Db
<1> QED
  BY <1>1, <1>2, <1>3, <1>4

(* Maintenance runs at the time of the clock or of the open cycle. *)
Moment(t) == t \in Times /\ t <= now /\ (t = now \/ t = cycle)

(* A batch leaves the rollups that are there alone: they lie below it. *)
LEMMA BatchContinues ==
    ASSUME TypeOK, UnsetInv, AtWatermark, points # {}, NEW to \in Minutes, From < to
    PROVE  /\ \A m \in DOMAIN Batched(to) : m < to
           /\ \A m \in DOMAIN rollups : m \in DOMAIN Batched(to) /\ Batched(to)[m] = rollups[m]
           /\ \A p \in points : From <= p.ts /\ p.ts < to => RolledUp(Batched(to), p)
<1> DEFINE batch == {q \in points : From <= q.ts /\ q.ts < to}
           touched == {Floor(p.ts) : p \in batch}
<1>1. /\ DOMAIN Batched(to) = DOMAIN rollups \cup touched
      /\ \A m \in DOMAIN rollups \cup touched :
            Batched(to)[m] = IF m \in touched THEN {p \in batch : Floor(p.ts) = m}
                             ELSE rollups[m]
  BY DEF Batched
<1>2. /\ From \in Int /\ Floor(From) = From
      /\ watermark # None => From = watermark
  BY FromType
<1>3. to \in Int /\ Floor(to) = to
  BY SampleTypes
<1>4. ASSUME NEW p \in batch PROVE From <= Floor(p.ts) /\ Floor(p.ts) < to
  <2>1. p.ts \in Int /\ From <= p.ts /\ p.ts < to
    BY SampleTypes
  <2>2. Floor(p.ts) \in Int /\ Floor(p.ts) <= p.ts
    BY <2>1, FloorBounds
  <2>3. Floor(From) <= Floor(p.ts)
    BY <1>2, <2>1, FloorMonotone
  <2> QED BY <1>2, <1>3, <2>1, <2>2, <2>3
<1>5. \A m \in touched : From <= m /\ m < to
  BY <1>4
<1>6. \A m \in DOMAIN rollups : watermark # None /\ m \in Int /\ m < From
  <2>1. \A m \in DOMAIN rollups : watermark # None /\ m < watermark
    BY DEF UnsetInv, AtWatermark
  <2>2. \A m \in DOMAIN rollups : m \in Int
    BY SampleTypes DEF TypeOK
  <2> QED BY <1>2, <2>1, <2>2
<1>7. \A p \in points : From <= p.ts /\ p.ts < to => p \in batch
  OBVIOUS
<1>8. \A p \in batch : Floor(p.ts) \in touched
  OBVIOUS
<1> HIDE DEF batch, touched
<1>9. \A m \in DOMAIN rollups : m \notin touched
  BY <1>2, <1>5, <1>6
<1>10. \A m \in DOMAIN Batched(to) : m < to
  BY <1>1, <1>2, <1>3, <1>5, <1>6
<1>11. \A m \in DOMAIN rollups : m \in DOMAIN Batched(to) /\ Batched(to)[m] = rollups[m]
  BY <1>1, <1>9
<1>12. \A p \in points : From <= p.ts /\ p.ts < to => RolledUp(Batched(to), p)
  BY <1>1, <1>7, <1>8 DEF RolledUp
<1> QED
  BY <1>10, <1>11, <1>12

(* With an empty history the watermark may go back to the minute of the    *)
(* open cycle, but never below a rollup: the samples of that minute are    *)
(* too young to be deleted.                                                *)
LEMMA EmptyAboveRollups ==
    ASSUME TypeOK, UnsetInv, ClockInv, RawInv, AtWatermark, NEW t, Moment(t), points = {}
    PROVE  \A m \in DOMAIN rollups : m < Floor(t)
<1> SUFFICES ASSUME NEW m \in DOMAIN rollups PROVE m < Floor(t)
  OBVIOUS
<1> USE SampleTypes
<1>1. /\ t \in Int /\ now \in Int /\ Floor(t) \in Int /\ Floor(t) <= t /\ t < Floor(t) + Minute
      /\ t <= now
  BY FloorBounds DEF Moment
<1>2. /\ m \in Int /\ Floor(m) = m
      /\ rollups[m] # {} /\ rollups[m] \subseteq {p \in committed : Floor(p.ts) = m}
  BY DEF TypeOK
<1>3. PICK p \in committed : Floor(p.ts) = m
  BY <1>2
<1>4. p.ts \in Int /\ m <= p.ts
  BY <1>3, FloorBounds
<1>5. p.ts < now - RawRetention
  <2>1. p.ts <= now /\ ~ (p.ts >= now - RawRetention)
    BY DEF RawInv, ClockInv
  <2>2. RawRetention \in Nat
    BY StoreAssumption
  <2> QED BY <1>1, <1>4, <2>1, <2>2
<1>6. /\ Minute \in Nat \ {0} /\ MaxOpen \in Nat /\ RawRetention \in Nat
      /\ Minute + MaxOpen <= RawRetention
  BY StoreAssumption
<1>7. now <= t + MaxOpen
  <2>1. CASE t = now
    BY <1>1, <1>6, <2>1
  <2>2. CASE t = cycle
    <3>1. cycle # None
      BY <1>1, <2>2, StoreAssumption
    <3> QED BY <2>2, <3>1 DEF ClockInv
  <2> QED BY <2>1, <2>2 DEF Moment
<1>8. p.ts < Floor(t)
  BY <1>1, <1>4, <1>5, <1>6, <1>7
<1> QED
  BY <1>1, <1>2, <1>4, <1>8

(* rollup_completed_minutes continues watermark and rollups. *)
LEMMA RollupContinues ==
    ASSUME TypeOK, UnsetInv, ClockInv, RawInv, AtWatermark,
           NEW t, Moment(t), NEW r, r = RollupCompletedMinutes(Db, t)
    PROVE  Continues(r, t)
<1> USE SampleTypes
<1>0. t \in Times
  BY DEF Moment
<1>1. /\ t \in Int /\ now \in Int /\ Floor(t) \in Int /\ Floor(t) <= t
      /\ t <= now
  BY FloorBounds DEF Moment
<1>2. watermark # None => watermark \in Int /\ Floor(watermark) = watermark /\ watermark <= now
  BY DEF TypeOK, ClockInv
<1>3. watermark # None /\ watermark <= t => watermark <= Floor(t)
  BY <1>1, <1>2, FloorMonotone
<1>4. None \notin Int
  BY StoreAssumption
<1>5. CASE points = {} /\ r.rollups = rollups /\ r.watermark = Floor(t)
  <2>1. \A m \in DOMAIN rollups : m < Floor(t)
    BY <1>5, EmptyAboveRollups
  <2> QED BY <1>1, <1>2, <1>3, <1>4, <1>5, <2>1 DEF Continues
<1>6. CASE r.rollups = rollups /\ r.watermark = watermark
  <2>1. \A m \in DOMAIN rollups : m < watermark
    BY DEF AtWatermark
  <2> QED BY <1>1, <1>2, <1>6, <2>1 DEF Continues
<1>7. CASE /\ points # {} /\ From < r.watermark /\ r.watermark <= Floor(t)
           /\ r.watermark \in Minutes /\ r.rollups = Batched(r.watermark)
  <2>1. r.watermark \in Int
    BY <1>7
  <2>2. From \in Int /\ (watermark # None => From = watermark)
    BY <1>7, FromType
  <2>3. /\ \A m \in DOMAIN r.rollups : m < r.watermark
        /\ \A m \in DOMAIN rollups : r.rollups[m] = rollups[m]
    BY <1>7, BatchContinues
  <2>4. r.watermark <= now /\ r.watermark <= t /\ r.watermark # None
    BY <1>1, <1>4, <1>7, <2>1
  <2>5. watermark # None => watermark <= r.watermark
    BY <1>7, <2>1, <2>2
  <2> QED BY <2>3, <2>4, <2>5 DEF Continues
<1> QED
  BY <1>0, <1>5, <1>6, <1>7, RollupCases

(* rollup_completed_minutes rolls up what its watermark passes. *)
LEMMA RollupCovers ==
    ASSUME TypeOK, UnsetInv, RawInv, AtWatermark, Covered(Db),
           NEW t \in Times, NEW r, r = RollupCompletedMinutes(Db, t)
    PROVE  Covered(r)
<1> SUFFICES ASSUME NEW p \in committed \ late,
                    p \notin r.points \/ (r.watermark # None /\ p.ts < r.watermark)
             PROVE  RolledUp(r.rollups, p) \/ Expired(p)
  BY DEF Covered
<1> USE SampleTypes
<1>1. (p \notin points \/ (watermark # None /\ p.ts < watermark)) =>
          RolledUp(rollups, p) \/ Expired(p)
  BY DEF Covered, Db
<1>2. p.ts \in Int
  OBVIOUS
<1>3. CASE points = {} /\ r.rollups = rollups
  BY <1>1, <1>3
<1>4. CASE r.points = points /\ r.rollups = rollups /\ r.watermark = watermark
  BY <1>1, <1>4
<1>5. CASE /\ r.points = points /\ points # {} /\ From < r.watermark
           /\ r.watermark \in Minutes /\ r.rollups = Batched(r.watermark)
  <2>1. /\ \A m \in DOMAIN rollups : m \in DOMAIN r.rollups /\ r.rollups[m] = rollups[m]
        /\ \A q \in points : From <= q.ts /\ q.ts < r.watermark => RolledUp(r.rollups, q)
    BY <1>5, BatchContinues
  <2>2. RolledUp(rollups, p) => RolledUp(r.rollups, p)
    BY <2>1 DEF RolledUp
  <2>3. CASE p \notin points
    BY <1>1, <2>2, <2>3
  <2>4. CASE p \in points /\ p.ts < r.watermark
    <3>1. From \in Int /\ (watermark # None => From = watermark)
          /\ (watermark = None => \A q \in points : From <= q.ts)
      BY <1>5, FromType
    <3>2. CASE From <= p.ts
      BY <2>1, <2>4, <3>2
    <3>3. CASE ~ (From <= p.ts)
      <4>1. watermark # None /\ p.ts < watermark
        BY <1>2, <2>4, <3>1, <3>3
      <4> QED BY <1>1, <2>2, <4>1
    <3> QED BY <3>2, <3>3
  <2> QED BY <1>5, <2>3, <2>4
<1> QED
  BY <1>3, <1>4, <1>5, RollupCases

(* A sample old enough to be deleted lies below the new watermark, unless  *)
(* the backlog is longer than raw retention and a batch.                   *)
LEMMA DeletedBelowWatermark ==
    ASSUME TypeOK, NEW t \in Times, NEW r, r = RollupCompletedMinutes(Db, t),
           NEW p \in points, p.ts < t - RawRetention
    PROVE  /\ ~Lags(Db, t) => r.watermark # None /\ p.ts < r.watermark
           /\ r.watermark # None
<1> USE SampleTypes
<1>1. /\ p.ts \in Int /\ t \in Int /\ Floor(t) \in Int /\ t < Floor(t) + Minute
  BY FloorBounds
<1>2. /\ Minute \in Nat \ {0} /\ RawRetention \in Nat /\ MaxOpen \in Nat /\ BatchMinutes \in Nat
      /\ Minute + MaxOpen <= RawRetention /\ None \notin Int
  BY StoreAssumption
<1>3. p.ts < Floor(t)
  BY <1>1, <1>2
<1>4. /\ From \in Int /\ (watermark # None => From = watermark)
      /\ (watermark = None => \A q \in points : From <= q.ts)
  BY FromType
<1>5. CASE r.watermark = watermark /\ Floor(t) <= From
  <2>1. p.ts < From
    BY <1>1, <1>3, <1>4, <1>5
  <2>2. watermark # None
    BY <1>1, <1>4, <2>1
  <2> QED BY <1>4, <1>5, <2>1, <2>2
<1>6. CASE /\ r.watermark \in Minutes
           /\ r.watermark \in {Floor(t), From + BatchMinutes * Minute}
  <2>1. r.watermark # None
    BY <1>2, <1>6
  <2>2. ~Lags(Db, t) => t - From <= RawRetention + BatchMinutes * Minute
    <3>1. Db.points # {}
      BY DEF Db
    <3>2. BatchMinutes * Minute \in Nat
      BY <1>2, SMT
    <3>3. ~Lags(Db, t) => ~ (t - From > RawRetention + BatchMinutes * Minute)
      BY <3>1 DEF Lags, From
    <3> QED BY <1>1, <1>2, <1>4, <3>2, <3>3
  <2>3. BatchMinutes * Minute \in Nat
    BY <1>2, SMT
  <2>4. ~Lags(Db, t) => p.ts < r.watermark
    <3> DEFINE k == BatchMinutes * Minute
    <3>1. k \in Nat /\ (~Lags(Db, t) => t - From <= RawRetention + k)
          /\ r.watermark \in {Floor(t), From + k}
      BY <1>6, <2>2, <2>3
    <3> HIDE DEF k
    <3> QED BY <1>1, <1>2, <1>3, <1>4, <3>1
  <2> QED BY <2>1, <2>4
<1> QED
  BY <1>5, <1>6, RollupCases

(* run_maintenance: the database stays well formed. *)
LEMMA MaintainedWellFormed ==
    ASSUME TypeOK, UnsetInv, NEW t \in Times, NEW d, d = RunMaintenance(Db, t)
    PROVE  /\ WellFormed(d)
           /\ d = [points |-> d.points, rollups |-> d.rollups, watermark |-> d.watermark]
<1> DEFINE r == RollupCompletedMinutes(Db, t)
<1>1. WellFormed(r) /\ r.points = points
  BY RollupWellFormed
<1>2. r = [points |-> r.points, rollups |-> r.rollups, watermark |-> r.watermark]
  BY RollupRecord
<1>3. d = ApplyRetention(r, t)
  BY DEF RunMaintenance
<1> HIDE DEF r
<1> QED
  BY <1>1, <1>2, <1>3, RetentionWellFormed

(* run_maintenance at the time of the clock or of a cycle: watermark and   *)
(* rollups go on, young samples stay, and what was covered is covered.     *)
LEMMA MaintainedSteady ==
    ASSUME TypeOK, UnsetInv, ClockInv, RawInv, AtWatermark,
           NEW t, Moment(t), NEW d, d = RunMaintenance(Db, t)
    PROVE  /\ Continues(d, t)
           /\ \A p \in points : p.ts >= t - RawRetention => p \in d.points
           /\ d.watermark = None => d.points = points
           /\ (Covered(Db) /\ ~Lags(Db, t)) => Covered(d)
<1> USE SampleTypes
<1> DEFINE r == RollupCompletedMinutes(Db, t)
<1>0. t \in Times /\ t \in Int /\ now \in Int /\ t <= now
  BY DEF Moment
<1>1. WellFormed(r) /\ r.points = points
  BY <1>0, RollupWellFormed
<1>2. r = [points |-> r.points, rollups |-> r.rollups, watermark |-> r.watermark]
  BY RollupRecord
<1>3. d = ApplyRetention(r, t)
  BY DEF RunMaintenance
<1>4. Continues(r, t)
  BY RollupContinues
<1>5. Covered(Db) => Covered(r)
  BY <1>0, RollupCovers
<1>6. \A p \in points : p.ts < t - RawRetention =>
         /\ ~Lags(Db, t) => r.watermark # None /\ p.ts < r.watermark
         /\ r.watermark # None
  BY <1>0, DeletedBelowWatermark
<1>7. RawRetention \in Nat /\ RollupRetention \in Nat
  BY StoreAssumption
<1> HIDE DEF r
<1>8. /\ d.watermark = r.watermark
      /\ d.points = {p \in points : p.ts >= t - RawRetention}
      /\ DOMAIN d.rollups = {m \in DOMAIN r.rollups : m >= t - RollupRetention}
      /\ \A m \in DOMAIN d.rollups : d.rollups[m] = r.rollups[m]
  BY <1>1, <1>2, <1>3, RetentionWellFormed
<1>9. Continues(d, t)
  BY <1>4, <1>8 DEF Continues
<1>10. d.watermark = None => d.points = points
  <2>1. \A p \in points : p \notin d.points => p.ts < t - RawRetention
    BY <1>0, <1>7, <1>8
  <2> QED BY <1>6, <1>8, <2>1
<1>11. ASSUME Covered(Db), ~Lags(Db, t) PROVE Covered(d)
  <2> SUFFICES ASSUME NEW p \in committed \ late,
                      p \notin d.points \/ (d.watermark # None /\ p.ts < d.watermark)
               PROVE  RolledUp(d.rollups, p) \/ Expired(p)
    BY DEF Covered
  <2>1. p \notin r.points \/ (r.watermark # None /\ p.ts < r.watermark)
    <3>1. CASE p \in points /\ p \notin d.points
      <4>1. p.ts < t - RawRetention
        BY <1>0, <1>7, <1>8, <3>1
      <4> QED BY <1>6, <1>11, <3>1, <4>1
    <3> QED BY <1>1, <1>8, <3>1
  <2>2. RolledUp(r.rollups, p) \/ Expired(p)
    BY <1>5, <1>11, <2>1 DEF Covered
  <2>3. ASSUME RolledUp(r.rollups, p), ~RolledUp(d.rollups, p) PROVE Expired(p)
    <3>1. Floor(p.ts) \in DOMAIN r.rollups /\ p \in r.rollups[Floor(p.ts)]
      BY <2>3 DEF RolledUp
    <3>2. ~ (Floor(p.ts) >= t - RollupRetention)
      BY <1>8, <2>3, <3>1 DEF RolledUp
    <3>3. p.ts \in Int /\ Floor(p.ts) \in Int
      BY FloorBounds
    <3> QED BY <1>0, <1>7, <3>2, <3>3 DEF Expired
  <2> QED BY <2>2, <2>3
<1> QED
  BY <1>8, <1>9, <1>10, <1>11

-----------------------------------------------------------------------------
(* The actions *)

(* While the clock is not set and maintenance keeps up, the database       *)
(* covers every sample.                                                    *)
LEMMA DbCovered ==
    ASSUME IInv, steps = 0, ~lagged
    PROVE  Covered(Db)
<1> SUFFICES ASSUME NEW p \in committed \ late,
                    p \notin points \/ (watermark # None /\ p.ts < watermark)
             PROVE  RolledUp(rollups, p) \/ Expired(p)
  BY DEF Covered, Db
<1>1. CASE p \notin points
  <2>1. p \in committed \ (points \cup late)
    BY <1>1
  <2> QED BY <2>1 DEF IInv, StoreComplete, NothingDropped, RolledUp, Expired
<1>2. CASE watermark # None /\ p.ts < watermark
  BY <1>2 DEF IInv, SteadyInv, AtWatermark
<1> QED
  BY <1>1, <1>2

(* A new database. *)
LEMMA InitInv == Init => IInv
<1> SUFFICES ASSUME Init PROVE IInv
  OBVIOUS
<1>1. Start \in Times /\ 0 \in 0..MaxSteps
  BY StoreAssumption DEF Times
<1>2. IsFiniteSet({}) /\ Cardinality({}) = 0
  BY FS_EmptySet
<1>3. DOMAIN rollups = {}
  BY DEF Init
<1>4. TypeOK
  BY <1>1, <1>3 DEF Init, TypeOK
<1>5. NothingDropped /\ LateOnlyUnlocked /\ CountInv /\ UnsetInv
  BY <1>2, <1>3 DEF Init, NothingDropped, LateOnlyUnlocked, CountInv, UnsetInv
<1>6. ClockInv /\ RawInv /\ AtWatermark
  BY <1>3 DEF Init, ClockInv, RawInv, AtWatermark
<1> QED
  BY <1>4, <1>5, <1>6 DEF IInv, StoreComplete, SteadyInv

(* The clock goes on. *)
LEMMA TickInv ==
    ASSUME IInv, Tick
    PROVE  IInv'
<1> USE SampleTypes DEF IInv, StoreComplete
<1>0. UNCHANGED <<points, rollups, watermark, cycle, committed, late, overlapped, lagged, steps>>
  BY DEF Tick
<1>1. /\ now \in Int /\ now' = now + 1 /\ now < MaxTime /\ now' \in Times
      /\ (cycle # None => now < cycle + MaxOpen)
  BY StoreAssumption DEF Tick, Times, TypeOK
<1>2. TypeOK'
  BY <1>0, <1>1 DEF TypeOK
<1>3. LateOnlyUnlocked' /\ CountInv' /\ UnsetInv'
  BY <1>0 DEF LateOnlyUnlocked, CountInv, UnsetInv
<1>4. \A p \in committed : Floor(p.ts) \in Int
  BY FloorBounds
<1>5. \A p \in committed : Expired(p) => Expired(p)'
  BY <1>0, <1>1, <1>4, StoreAssumption, SMTT(30) DEF Expired
<1>6. NothingDropped'
  <2> SUFFICES ASSUME NEW p \in committed \ (points \cup late)
               PROVE  RolledUp(rollups, p) \/ Expired(p)' \/ lagged \/ steps > 0
    BY <1>0 DEF NothingDropped, RolledUp, Expired
  <2>1. RolledUp(rollups, p) \/ Expired(p) \/ lagged \/ steps > 0
    BY DEF NothingDropped, RolledUp, Expired
  <2> QED BY <1>5, <2>1
<1>7. ASSUME steps = 0 PROVE ClockInv' /\ RawInv' /\ AtWatermark'
  <2>1. ClockInv /\ RawInv /\ AtWatermark
    BY <1>7 DEF SteadyInv
  <2>2. ClockInv'
    <3>1. \A p \in committed : p.ts <= now'
      BY <1>1, <2>1 DEF ClockInv
    <3>2. cycle # None => cycle \in Int /\ cycle <= now' /\ now' <= cycle + MaxOpen
      BY <1>1, <2>1, StoreAssumption, SMTT(30) DEF ClockInv, TypeOK
    <3>3. watermark # None => watermark <= now'
      BY <1>1, <2>1 DEF ClockInv, TypeOK
    <3> QED BY <1>0, <2>1, <3>1, <3>2, <3>3 DEF ClockInv
  <2>3. RawInv'
    <3>1. \A p \in committed : p.ts >= now' - RawRetention => p.ts >= now - RawRetention
      BY <1>1, StoreAssumption, SMTT(30)
    <3> QED BY <1>0, <2>1, <3>1 DEF RawInv
  <2>4. AtWatermark'
    BY <1>0, <1>5, <2>1 DEF AtWatermark, RolledUp
  <2> QED BY <2>2, <2>3, <2>4
<1> QED
  BY <1>0, <1>2, <1>3, <1>6, <1>7 DEF SteadyInv

(* The clock is set: what holds of steady time is no longer promised. *)
LEMMA SetClockInv ==
    ASSUME IInv, NEW t \in Times, SetClock(t)
    PROVE  IInv'
<1> USE DEF IInv, StoreComplete
<1>0. UNCHANGED <<points, rollups, watermark, cycle, committed, late, overlapped, lagged>>
  BY DEF SetClock
<1>1. steps \in 0..MaxSteps /\ MaxSteps \in Nat /\ steps' = steps + 1 /\ steps < MaxSteps /\ now' = t
  BY StoreAssumption DEF SetClock, TypeOK
<1>2. steps' \in 0..MaxSteps /\ steps' > 0
  BY <1>1
<1>3. TypeOK'
  BY <1>0, <1>1, <1>2 DEF TypeOK
<1>4. CountInv' /\ UnsetInv'
  BY <1>0 DEF CountInv, UnsetInv
<1>5. NothingDropped' /\ LateOnlyUnlocked' /\ SteadyInv'
  BY <1>2 DEF NothingDropped, LateOnlyUnlocked, SteadyInv
<1> QED
  BY <1>3, <1>4, <1>5

(* A cycle takes its timestamp. *)
LEMMA BeginCycleInv ==
    ASSUME IInv, BeginCycle
    PROVE  IInv'
<1> USE SampleTypes DEF IInv, StoreComplete
<1>0. UNCHANGED <<now, points, rollups, watermark, committed, late, overlapped, lagged, steps>>
  BY DEF BeginCycle
<1>1. cycle' = now /\ now \in Times /\ now \in Nat /\ Cardinality(committed) < Len(Measured)
  BY DEF BeginCycle, TypeOK
<1>2. TypeOK'
  BY <1>0, <1>1 DEF TypeOK
<1>3. LateOnlyUnlocked' /\ CountInv' /\ UnsetInv' /\ NothingDropped'
  BY <1>0, <1>1 DEF LateOnlyUnlocked, CountInv, UnsetInv, NothingDropped
<1>4. ASSUME steps = 0 PROVE ClockInv' /\ RawInv' /\ AtWatermark'
  <2>1. ClockInv /\ RawInv /\ AtWatermark
    BY <1>4 DEF SteadyInv
  <2>2. RawInv' /\ AtWatermark'
    BY <1>0, <2>1 DEF RawInv, AtWatermark, RolledUp, Expired
  <2>3. now <= now + MaxOpen
    BY <1>1, StoreAssumption
  <2>4. ClockInv'
    BY <1>0, <1>1, <2>1, <2>3 DEF ClockInv
  <2> QED BY <2>2, <2>4
<1> QED
  BY <1>0, <1>2, <1>3, <1>4 DEF SteadyInv

(* A cycle is given up. *)
LEMMA AbandonCycleInv ==
    ASSUME IInv, AbandonCycle
    PROVE  IInv'
<1> USE DEF IInv, StoreComplete
<1>0. UNCHANGED <<now, points, rollups, watermark, committed, late, overlapped, lagged, steps>>
  BY DEF AbandonCycle
<1>1. cycle' = None
  BY DEF AbandonCycle
<1>2. TypeOK'
  BY <1>0, <1>1 DEF TypeOK
<1>3. LateOnlyUnlocked' /\ CountInv' /\ UnsetInv' /\ NothingDropped'
  BY <1>0, <1>1 DEF LateOnlyUnlocked, CountInv, UnsetInv, NothingDropped
<1>4. ASSUME steps = 0 PROVE ClockInv' /\ RawInv' /\ AtWatermark'
  <2>1. ClockInv /\ RawInv /\ AtWatermark
    BY <1>4 DEF SteadyInv
  <2> QED BY <1>0, <1>1, <2>1 DEF ClockInv, RawInv, AtWatermark, RolledUp, Expired
<1> QED
  BY <1>0, <1>2, <1>3, <1>4 DEF SteadyInv

(* gost-monitor-admin maintenance, with or without an open cycle. *)
LEMMA AdminMaintenanceInv ==
    ASSUME IInv, AdminMaintenance
    PROVE  IInv'
<1> USE SampleTypes DEF IInv, StoreComplete
<1> DEFINE d == RunMaintenance(Db, now)
<1>0. /\ UNCHANGED <<now, cycle, committed, late, steps>>
      /\ points' = d.points /\ rollups' = d.rollups /\ watermark' = d.watermark
      /\ overlapped' = (overlapped \/ cycle # None)
      /\ lagged' = (lagged \/ Lags(Db, now))
  BY DEF AdminMaintenance, Store
<1>1. now \in Times
  BY DEF TypeOK
<1>2. WellFormed(d)
  BY <1>1, MaintainedWellFormed
<1>3. ASSUME steps = 0
      PROVE  /\ Continues(d, now)
             /\ \A p \in points : p.ts >= now - RawRetention => p \in d.points
             /\ d.watermark = None => d.points = points
             /\ (Covered(Db) /\ ~Lags(Db, now)) => Covered(d)
  <2>1. ClockInv /\ RawInv /\ AtWatermark
    BY <1>3 DEF SteadyInv
  <2>2. Moment(now)
    BY <1>1 DEF Moment
  <2> QED BY <2>1, <2>2, MaintainedSteady
<1>4. ASSUME steps = 0, ~lagged' PROVE Covered(d)
  BY <1>0, <1>3, <1>4, DbCovered
<1> HIDE DEF d
<1>5. TypeOK'
  <2>1. points' \subseteq committed' /\ overlapped' \in BOOLEAN /\ lagged' \in BOOLEAN
    BY <1>0, <1>2 DEF WellFormed, TypeOK
  <2> QED BY <1>0, <1>2, <2>1 DEF WellFormed, TypeOK
<1>6. UnsetInv' /\ CountInv' /\ LateOnlyUnlocked'
  BY <1>0, <1>2 DEF WellFormed, UnsetInv, CountInv, LateOnlyUnlocked
<1>7. steps = 0 \/ steps > 0
  BY DEF TypeOK
<1>8. NothingDropped'
  <2> SUFFICES ASSUME NEW p \in committed \ (d.points \cup late), steps = 0, ~lagged'
               PROVE  RolledUp(d.rollups, p) \/ Expired(p)
    BY <1>0, <1>7 DEF NothingDropped, RolledUp, Expired
  <2> QED BY <1>4 DEF Covered
<1>9. ASSUME steps = 0 PROVE ClockInv' /\ RawInv' /\ AtWatermark'
  <2>1. ClockInv /\ RawInv /\ AtWatermark
    BY <1>9 DEF SteadyInv
  <2>2. ClockInv'
    BY <1>0, <1>3, <1>9, <2>1 DEF ClockInv, Continues
  <2>3. RawInv'
    <3>1. watermark' = None => watermark = None
      BY <1>0, <1>3, <1>9 DEF Continues
    <3>2. \A p \in committed : p.ts >= now - RawRetention => p \in d.points
      BY <1>3, <1>9, <2>1 DEF RawInv
    <3> QED BY <1>0, <1>3, <1>9, <2>1, <3>1, <3>2 DEF RawInv
  <2>4. AtWatermark'
    <3>1. \A m \in DOMAIN rollups' : m < watermark'
      BY <1>0, <1>3, <1>9 DEF Continues
    <3>2. ASSUME ~lagged', NEW p \in committed \ late, d.watermark # None, p.ts < d.watermark
          PROVE  RolledUp(d.rollups, p) \/ Expired(p)
      BY <1>4, <1>9, <3>2 DEF Covered
    <3> QED BY <1>0, <3>1, <3>2 DEF AtWatermark, RolledUp, Expired
  <2> QED BY <2>2, <2>3, <2>4
<1> QED
  BY <1>0, <1>5, <1>6, <1>8, <1>9 DEF SteadyInv

(* While the clock is not set, no two cycles have the same timestamp. *)
TimesApart ==
    /\ steps \in Nat
    /\ steps = 0 =>
          /\ \A p, q \in committed : p.ts = q.ts => p = q
          /\ cycle # None => \A p \in committed : p.ts # cycle

(* A cycle begins once in a unit of time, so samples have different times. *)
LEMMA TimesStayApart == Spec => []TimesApart
<1>1. Init => TimesApart
  BY DEF Init, TimesApart
<1>2. ASSUME TimesApart, [Next]_vars PROVE TimesApart'
  <2>1. steps \in Nat
    BY <1>2 DEF TimesApart
  <2>2. CASE UNCHANGED vars
    BY <1>2, <2>2 DEF vars, TimesApart
  <2>3. CASE Tick
    BY <1>2, <2>3 DEF Tick, TimesApart
  <2>4. ASSUME NEW t, SetClock(t) PROVE TimesApart'
    <3>1. steps' = steps + 1
      BY <2>4 DEF SetClock
    <3>2. steps' # 0 /\ steps' \in Nat
      BY <2>1, <3>1
    <3> QED BY <3>2 DEF TimesApart
  <2>5. CASE BeginCycle
    <3>1. /\ \A p \in committed : p.ts # now \/ steps > 0
          /\ cycle' = now /\ UNCHANGED <<committed, steps>>
      BY <2>5 DEF BeginCycle
    <3> QED BY <1>2, <2>1, <3>1 DEF TimesApart
  <2>6. ASSUME NEW maintained \in BOOLEAN, CommitCycle(maintained) PROVE TimesApart'
    <3> DEFINE n == Cardinality(committed) + 1
               x == [id |-> n, ts |-> cycle, value |-> Measured[n]]
    <3>1. /\ cycle # None /\ cycle' = None /\ UNCHANGED steps
          /\ committed' = committed \cup {x}
      BY <2>6 DEF CommitCycle
    <3>2. x.ts = cycle
      OBVIOUS
    <3> HIDE DEF x
    <3> QED BY <1>2, <3>1, <3>2 DEF TimesApart
  <2>7. CASE AbandonCycle
    BY <1>2, <2>7 DEF AbandonCycle, TimesApart
  <2>8. CASE AdminMaintenance
    BY <1>2, <2>8 DEF AdminMaintenance, TimesApart
  <2> QED
    BY <1>2, <2>2, <2>3, <2>4, <2>5, <2>6, <2>7, <2>8 DEF Next
<1> QED
  BY <1>1, <1>2, PTL DEF Spec

(* The database a cycle adds its sample to. *)
CycleDb(maintained) == IF maintained THEN RunMaintenance(Db, cycle) ELSE Db

(* With or without maintenance, the cycle finds a database in order. *)
LEMMA CycleDbSteady ==
    ASSUME IInv, cycle # None, NEW maintained \in BOOLEAN
    PROVE  /\ WellFormed(CycleDb(maintained))
           /\ CycleDb(maintained) = [points |-> CycleDb(maintained).points,
                                     rollups |-> CycleDb(maintained).rollups,
                                     watermark |-> CycleDb(maintained).watermark]
           /\ steps = 0 =>
                /\ Continues(CycleDb(maintained), cycle)
                /\ \A p \in points : p.ts >= now - RawRetention => p \in CycleDb(maintained).points
                /\ CycleDb(maintained).watermark = None => CycleDb(maintained).points = points
                /\ (~lagged /\ ~(maintained /\ Lags(Db, cycle))) => Covered(CycleDb(maintained))
<1> USE SampleTypes DEF IInv, StoreComplete
<1>0. cycle \in Times /\ cycle \in Int /\ now \in Int
  BY DEF TypeOK
<1>1. CASE maintained
  <2> DEFINE d == RunMaintenance(Db, cycle)
  <2>1. CycleDb(maintained) = d
    BY <1>1 DEF CycleDb
  <2>2. /\ WellFormed(d)
        /\ d = [points |-> d.points, rollups |-> d.rollups, watermark |-> d.watermark]
    BY <1>0, MaintainedWellFormed
  <2>3. ASSUME steps = 0
        PROVE  /\ Continues(d, cycle)
               /\ \A p \in points : p.ts >= cycle - RawRetention => p \in d.points
               /\ d.watermark = None => d.points = points
               /\ (Covered(Db) /\ ~Lags(Db, cycle)) => Covered(d)
    <3>1. ClockInv /\ RawInv /\ AtWatermark
      BY <2>3 DEF SteadyInv
    <3>2. Moment(cycle)
      BY <1>0, <3>1 DEF Moment, ClockInv
    <3> QED BY <3>1, <3>2, MaintainedSteady
  <2>4. ASSUME steps = 0, NEW p \in points, p.ts >= now - RawRetention
        PROVE  p.ts >= cycle - RawRetention
    <3>1. cycle <= now
      BY <2>4 DEF SteadyInv, ClockInv
    <3> QED BY <1>0, <2>4, <3>1, StoreAssumption, SMTT(30)
  <2>5. (steps = 0 /\ ~lagged /\ ~Lags(Db, cycle)) => Covered(d)
    BY <2>3, DbCovered
  <2> HIDE DEF d
  <2> QED BY <1>1, <2>1, <2>2, <2>3, <2>4, <2>5
<1>2. CASE ~maintained
  <2>1. CycleDb(maintained) = Db
    BY <1>2 DEF CycleDb
  <2>2. WellFormed(Db)
    BY DEF Db, WellFormed, TypeOK, UnsetInv
  <2>3. /\ Db.points = points /\ Db.rollups = rollups /\ Db.watermark = watermark
        /\ Db = [points |-> Db.points, rollups |-> Db.rollups, watermark |-> Db.watermark]
    BY DEF Db
  <2>4. ASSUME steps = 0 PROVE Continues(Db, cycle)
    <3>1. ClockInv /\ AtWatermark
      BY <2>4 DEF SteadyInv
    <3>2. watermark # None => watermark \in Int
      BY DEF TypeOK
    <3> QED BY <2>3, <3>1, <3>2 DEF Continues, ClockInv, AtWatermark
  <2>5. (steps = 0 /\ ~lagged) => Covered(Db)
    BY DbCovered
  <2> QED BY <2>1, <2>2, <2>3, <2>4, <2>5
<1> QED
  BY <1>1, <1>2

(* A cycle commits its sample, after maintenance or without. *)
LEMMA CommitCycleInv ==
    ASSUME IInv, TimesApart, NEW maintained \in BOOLEAN, CommitCycle(maintained)
    PROVE  IInv'
<1> USE SampleTypes DEF IInv, StoreComplete
<1> DEFINE d == CycleDb(maintained)
           n == Cardinality(committed) + 1
           x == [id |-> n, ts |-> cycle, value |-> Measured[n]]
<1>0. cycle # None /\ cycle \in Times /\ cycle \in Int /\ now \in Int
  BY DEF CommitCycle, TypeOK
<1>1. /\ WellFormed(d)
      /\ d = [points |-> d.points, rollups |-> d.rollups, watermark |-> d.watermark]
      /\ steps = 0 =>
           /\ Continues(d, cycle)
           /\ \A p \in points : p.ts >= now - RawRetention => p \in d.points
           /\ d.watermark = None => d.points = points
           /\ (~lagged /\ ~(maintained /\ Lags(Db, cycle))) => Covered(d)
  BY <1>0, CycleDbSteady
<1>2. /\ Store([d EXCEPT !.points = {q \in @ : q.ts # cycle} \cup {x}])
      /\ cycle' = None /\ committed' = committed \cup {x}
      /\ late' = IF d.watermark # None /\ cycle < d.watermark THEN late \cup {x} ELSE late
      /\ lagged' = (lagged \/ (maintained /\ Lags(Db, cycle)))
      /\ UNCHANGED <<now, overlapped, steps>>
  BY DEF CommitCycle, CycleDb
<1> HIDE DEF d
<1>3. /\ points' = {q \in d.points : q.ts # cycle} \cup {x}
      /\ rollups' = d.rollups /\ watermark' = d.watermark
      /\ steps = 0 => points' = d.points \cup {x}
  <2> HIDE DEF x
  <2> DEFINE e == [d EXCEPT !.points = {q \in @ : q.ts # cycle} \cup {x}]
  <2>1. /\ e.points = {q \in d.points : q.ts # cycle} \cup {x}
        /\ e.rollups = d.rollups /\ e.watermark = d.watermark
    BY <1>1
  <2>2. /\ points' = {q \in d.points : q.ts # cycle} \cup {x}
        /\ rollups' = d.rollups /\ watermark' = d.watermark
    BY <1>2, <2>1 DEF Store
  <2>3. steps = 0 => \A q \in d.points : q.ts # cycle
    BY <1>0, <1>1 DEF TimesApart, WellFormed
  <2> QED BY <2>2, <2>3
<1>4. /\ Cardinality(committed) \in Nat /\ n \in 1..Len(Measured)
      /\ \A p \in committed : p.id <= Cardinality(committed)
  <2>1. IsFiniteSet(committed) /\ Cardinality(committed) < Len(Measured)
        /\ \A p \in committed : p.id <= Cardinality(committed)
    BY <1>0 DEF CountInv
  <2>2. Cardinality(committed) \in Nat
    BY <2>1, FS_CardinalityType
  <2>3. Len(Measured) \in Nat
    BY StoreAssumption
  <2> QED BY <2>1, <2>2, <2>3
<1>5. x \in Samples /\ x.id = n /\ x.ts = cycle
  <2>1. DOMAIN Measured = 1..Len(Measured)
    BY StoreAssumption
  <2>2. n \in DOMAIN Measured
    BY <1>4, <2>1
  <2> HIDE DEF n
  <2> QED BY <1>0, <2>2 DEF Samples
<1>6. \A p \in committed : p.id # n
  BY <1>4
<1>7. CountInv'
  <2>1. x \notin committed
    BY <1>5, <1>6
  <2>2. IsFiniteSet(committed)
    BY DEF CountInv
  <2> HIDE DEF x
  <2>3. IsFiniteSet(committed \cup {x}) /\ Cardinality(committed \cup {x}) = n
    BY <2>1, <2>2, FS_AddElement
  <2>4. \A p \in committed \cup {x} : p.id <= n
    BY <1>4, <1>5
  <2> QED BY <1>2, <2>3, <2>4 DEF CountInv
<1> HIDE DEF x, n
<1>8. TypeOK'
  <2>1. points' \subseteq committed' /\ committed' \subseteq Samples
    BY <1>1, <1>2, <1>3, <1>5 DEF WellFormed, TypeOK
  <2>2. \A p, q \in committed' : p.id = q.id => p = q
    BY <1>2, <1>5, <1>6 DEF TypeOK
  <2>3. /\ DOMAIN rollups' \subseteq Minutes
        /\ \A m \in DOMAIN rollups' : /\ rollups'[m] # {}
              /\ rollups'[m] \subseteq {p \in committed' : Floor(p.ts) = m}
        /\ watermark' \in {None} \cup Minutes
    BY <1>1, <1>2, <1>3 DEF WellFormed
  <2>4. late' \subseteq committed' /\ lagged' \in BOOLEAN /\ overlapped' \in BOOLEAN
    BY <1>2 DEF TypeOK
  <2>5. now' \in Times /\ steps' \in 0..MaxSteps /\ cycle' \in Times \cup {None}
    BY <1>2 DEF TypeOK
  <2> QED BY <2>1, <2>2, <2>3, <2>4, <2>5 DEF TypeOK
<1>9. UnsetInv'
  BY <1>1, <1>3 DEF WellFormed, UnsetInv
<1>10. steps = 0 \/ steps > 0
  BY DEF TypeOK
<1>11. LateOnlyUnlocked'
  <2> SUFFICES ASSUME late' # {}, steps = 0, ~overlapped PROVE FALSE
    BY <1>2, <1>10 DEF LateOnlyUnlocked
  <2>1. late = {}
    BY DEF LateOnlyUnlocked
  <2>2. d.watermark # None /\ cycle < d.watermark
    BY <1>2, <2>1
  <2>3. watermark = None \/ watermark <= cycle
    BY <1>0 DEF SteadyInv, ClockInv
  <2>4. d.watermark <= cycle /\ d.watermark \in Int
    BY <1>1, <2>2, <2>3 DEF Continues, WellFormed
  <2> QED BY <1>0, <2>2, <2>4
<1>12. ASSUME steps = 0, ~lagged', NEW p \in committed' \ late',
              p \notin points' \/ (watermark' # None /\ p.ts < watermark')
       PROVE  RolledUp(rollups', p) \/ Expired(p)
  <2>1. Covered(d)
    BY <1>1, <1>2, <1>12
  <2>2. CASE p = x
    BY <1>2, <1>3, <1>5, <1>12, <2>2
  <2>3. CASE p # x
    <3>1. p \in committed \ late /\ (p \notin d.points \/ (d.watermark # None /\ p.ts < d.watermark))
      BY <1>2, <1>3, <1>12, <2>3
    <3> QED BY <1>3, <2>1, <3>1 DEF Covered
  <2> QED BY <2>2, <2>3
<1>13. NothingDropped'
  <2> SUFFICES ASSUME NEW p \in committed' \ (points' \cup late'), steps = 0, ~lagged'
               PROVE  RolledUp(rollups', p) \/ Expired(p)
    BY <1>2, <1>10 DEF NothingDropped, RolledUp, Expired
  <2> QED BY <1>12
<1>14. ASSUME steps = 0 PROVE ClockInv' /\ RawInv' /\ AtWatermark'
  <2>1. ClockInv /\ RawInv /\ AtWatermark /\ Continues(d, cycle)
    BY <1>1, <1>14 DEF SteadyInv
  <2>2. ClockInv'
    <3>1. \A p \in committed' : p.ts <= now
      BY <1>0, <1>2, <1>5, <2>1 DEF ClockInv
    <3>2. d.watermark # None => d.watermark <= now
      BY <2>1 DEF Continues
    <3> QED BY <1>2, <1>3, <3>1, <3>2 DEF ClockInv
  <2>3. RawInv'
    <3>1. watermark' = None => d.points = committed
      BY <1>1, <1>3, <1>14, <2>1 DEF Continues, RawInv
    <3>2. \A p \in committed : p.ts >= now - RawRetention => p \in d.points
      BY <1>1, <1>14, <2>1 DEF RawInv
    <3>3. points' = d.points \cup {x} /\ committed' = committed \cup {x} /\ now' = now
      BY <1>2, <1>3, <1>14
    <3>4. \A p \in committed' : p.ts >= now' - RawRetention => p \in points'
      BY <3>2, <3>3
    <3>5. watermark' = None => points' = committed'
      BY <3>1, <3>3
    <3> QED BY <3>4, <3>5 DEF RawInv
  <2>4. AtWatermark'
    <3>1. \A m \in DOMAIN rollups' : m < watermark'
      BY <1>3, <2>1 DEF Continues
    <3>2. ~lagged' => \A p \in committed' \ late' :
             (watermark' # None /\ p.ts < watermark') => RolledUp(rollups', p) \/ Expired(p)
      BY <1>12, <1>14
    <3> QED BY <1>2, <3>1, <3>2 DEF AtWatermark, RolledUp, Expired
  <2> QED BY <2>2, <2>3, <2>4
<1> QED
  BY <1>2, <1>7, <1>8, <1>9, <1>11, <1>13, <1>14 DEF SteadyInv

-----------------------------------------------------------------------------
(* The theorems *)

(* Every step keeps the invariant. *)
LEMMA NextInv == IInv /\ TimesApart /\ [Next]_vars => IInv'
<1> SUFFICES ASSUME IInv, TimesApart, [Next]_vars PROVE IInv'
  OBVIOUS
<1>1. CASE Tick
  BY <1>1, TickInv
<1>2. ASSUME NEW t \in Times, SetClock(t) PROVE IInv'
  BY <1>2, SetClockInv
<1>3. CASE BeginCycle
  BY <1>3, BeginCycleInv
<1>4. ASSUME NEW maintained \in BOOLEAN, CommitCycle(maintained) PROVE IInv'
  BY <1>4, CommitCycleInv
<1>5. CASE AbandonCycle
  BY <1>5, AbandonCycleInv
<1>6. CASE AdminMaintenance
  BY <1>6, AdminMaintenanceInv
<1>7. CASE UNCHANGED vars
  BY <1>7 DEF vars, IInv, StoreComplete, TypeOK, NothingDropped, LateOnlyUnlocked, CountInv,
              UnsetInv, SteadyInv, ClockInv, RawInv, AtWatermark, RolledUp, Expired
<1> QED
  BY <1>1, <1>2, <1>3, <1>4, <1>5, <1>6, <1>7 DEF Next

(* The inductive invariant holds in every state. *)
LEMMA Invariance == Spec => []IInv
<1> QED
  BY InitInv, NextInv, TimesStayApart, PTL DEF Spec

(* rollup_completed_minutes and apply_retention lose no sample, and only   *)
(* maintenance beside a cycle makes one late, for every minute, retention, *)
(* batch, history and number of clock changes.                             *)
THEOREM StoreAlwaysComplete == Spec => []StoreComplete
<1>1. IInv => StoreComplete
  BY DEF IInv
<1> QED
  BY <1>1, Invariance, PTL

(* A rollup is written once, and the watermark does not return unless      *)
(* maintenance runs beside a cycle, as long as the clock is not set.       *)
THEOREM RollupsFinal == Spec => RollupFinal
<1> DEFINE Final ==
        steps' = 0 =>
          /\ \A m \in DOMAIN rollups \cap DOMAIN rollups' : rollups'[m] = rollups[m]
          /\ watermark # None /\ ~overlapped' => watermark' >= watermark
<1>1. ASSUME IInv, [Next]_vars PROVE [Final]_vars
  <2> USE <1>1, SampleTypes DEF IInv, StoreComplete
  <2>1. CASE UNCHANGED <<rollups, watermark>>
    <3>1. watermark # None => watermark \in Int
      BY DEF TypeOK
    <3> QED BY <2>1, <3>1
  <2>2. ASSUME NEW t \in Times, NEW d, Continues(d, t), rollups' = d.rollups,
               watermark' = d.watermark, d.watermark \in {None} \cup Minutes,
               (watermark # None /\ ~overlapped') => watermark <= t
        PROVE  Final
    <3>1. \A m \in DOMAIN rollups \cap DOMAIN rollups' : rollups'[m] = rollups[m]
      BY <2>2 DEF Continues
    <3>2. ASSUME watermark # None, ~overlapped' PROVE watermark' >= watermark
      <4>1. watermark \in Int /\ d.watermark \in Int /\ watermark <= d.watermark
        BY <2>2, <3>2 DEF Continues, TypeOK
      <4> QED BY <2>2, <4>1
    <3> QED BY <3>1, <3>2
  <2>3. ASSUME steps = 0, AdminMaintenance PROVE Final
    <3> DEFINE d == RunMaintenance(Db, now)
    <3>1. ClockInv /\ RawInv /\ AtWatermark /\ now \in Times
      BY <2>3 DEF SteadyInv, TypeOK
    <3>2. Moment(now)
      BY <3>1 DEF Moment
    <3>3. Continues(d, now)
      BY <3>1, <3>2, MaintainedSteady
    <3>4. WellFormed(d)
      BY <3>1, MaintainedWellFormed
    <3>5. rollups' = d.rollups /\ watermark' = d.watermark
      BY <2>3 DEF AdminMaintenance, Store
    <3> HIDE DEF d
    <3>6. d.watermark \in {None} \cup Minutes /\ (watermark # None => watermark <= now)
      BY <3>1, <3>4 DEF WellFormed, ClockInv
    <3> HIDE DEF Final
    <3> QED BY <2>2, <3>1, <3>3, <3>5, <3>6
  <2>4. ASSUME steps = 0, NEW maintained \in BOOLEAN, CommitCycle(maintained) PROVE Final
    <3> DEFINE d == CycleDb(maintained)
               n == Cardinality(committed) + 1
               x == [id |-> n, ts |-> cycle, value |-> Measured[n]]
    <3>1. cycle # None /\ cycle \in Times /\ overlapped' = overlapped
      BY <2>4 DEF CommitCycle, TypeOK
    <3>2. /\ WellFormed(d) /\ Continues(d, cycle)
          /\ d = [points |-> d.points, rollups |-> d.rollups, watermark |-> d.watermark]
      BY <2>4, <3>1, CycleDbSteady
    <3>3. Store([d EXCEPT !.points = {q \in @ : q.ts # cycle} \cup {x}])
      BY <2>4 DEF CommitCycle, CycleDb
    <3>4. (watermark # None /\ ~overlapped') => watermark <= cycle
      BY <2>4, <3>1 DEF SteadyInv, ClockInv
    <3> HIDE DEF d, x
    <3>5. rollups' = d.rollups /\ watermark' = d.watermark
      BY <3>2, <3>3 DEF Store
    <3>6. d.watermark \in {None} \cup Minutes
      BY <3>2 DEF WellFormed
    <3> HIDE DEF Final
    <3> QED BY <2>2, <3>1, <3>2, <3>4, <3>5, <3>6
  <2>5. CASE steps # 0
    <3>1. steps \in Nat
      BY DEF TypeOK
    <3>2. steps' = steps \/ steps' = steps + 1
      <4>1. CASE UNCHANGED vars
        BY <4>1 DEF vars
      <4>2. CASE Next
        BY <4>2 DEF Next, Tick, SetClock, BeginCycle, CommitCycle, AbandonCycle, AdminMaintenance
      <4> QED BY <4>1, <4>2
    <3> QED BY <2>5, <3>1, <3>2
  <2>6. CASE steps = 0 /\ ~ (UNCHANGED <<rollups, watermark>>)
    <3>1. \/ AdminMaintenance
          \/ \E maintained \in BOOLEAN : CommitCycle(maintained)
      BY <2>6 DEF Next, vars, Tick, SetClock, BeginCycle, AbandonCycle
    <3> HIDE DEF Final
    <3> QED BY <2>3, <2>4, <2>6, <3>1
  <2> QED BY <2>1, <2>5, <2>6
<1>2. [Final]_vars => [steps' = 0 =>
          /\ \A m \in DOMAIN rollups \cap DOMAIN rollups' : rollups'[m] = rollups[m]
          /\ watermark # None /\ ~overlapped' => watermark' >= watermark]_vars
  OBVIOUS
<1> HIDE DEF Final
<1> QED
  BY <1>1, <1>2, Invariance, PTL DEF Spec, RollupFinal

-----------------------------------------------------------------------------
(* Queries: the window and the plan *)

(* The later of two times. *)
LEMMA MaxPair ==
    ASSUME NEW a \in Int, NEW b \in Int
    PROVE  Max({a, b}) = IF a >= b THEN a ELSE b
<1>1. \E x \in {a, b} : \A y \in {a, b} : x >= y
  OBVIOUS
<1>2. Max({a, b}) \in {a, b} /\ \A y \in {a, b} : Max({a, b}) >= y
  BY <1>1 DEF Max
<1> QED
  BY <1>2

(* The first whole minute not before t. *)
LEMMA CeilWhole ==
    ASSUME NEW t \in Int
    PROVE  Ceil(t) \in Int /\ t <= Ceil(t) /\ Floor(Ceil(t)) = Ceil(t)
<1> DEFINE k == -((-t) \div Minute)
<1>1. Minute \in Nat \ {0} /\ k \in Int /\ -t \in Int
  BY StoreAssumption, SMT
<1>2. Floor(-t) \in Int /\ Floor(-t) <= -t
  BY <1>1, FloorBounds
<1>3. Ceil(t) = k * Minute
  BY <1>1, SMT DEF Ceil, Floor
<1>4. \A j \in Int : (j * Minute) \div Minute = j
  BY <1>1, SMT
<1>5. Floor(Ceil(t)) = Ceil(t)
  <2> HIDE DEF k
  <2> QED BY <1>1, <1>3, <1>4 DEF Floor
<1>6. Ceil(t) = -Floor(-t)
  BY DEF Ceil
<1> QED
  BY <1>2, <1>5, <1>6

(* resolve_window: a window is not empty and ends by now, and no cycle is  *)
(* open when it is read.                                                   *)
LEMMA WindowFacts ==
    ASSUME TypeOK, NEW w \in Windows
    PROVE  /\ cycle = None
           /\ w.start \in Int /\ w.end \in Int /\ w.start < w.end /\ w.end <= now
<1>1. cycle = None
  BY DEF Windows
<1>2. PICK t \in (now - MaxLag)..now, r \in Requests : w \in ResolveWindow(t, r[1], r[2])
  BY <1>1 DEF Windows
<1>3. now \in Nat /\ Times \subseteq Nat /\ MaxLag \in Nat /\ RollupRetention \in Nat
  BY SampleTypes, StoreAssumption, QueryAssumption
<1>4. r[1] \in Nat /\ r[2] \in Nat
  BY <1>3 DEF Requests
<1>5. t \in Int /\ t <= now /\ t - RollupRetention \in Int
  BY <1>3
<1> DEFINE v == [start |-> Max({r[1], t - RollupRetention}), end |-> Min({r[2], t})]
<1>6. w = v /\ v.start < v.end
  BY <1>2 DEF ResolveWindow
<1>7. /\ v.start = IF r[1] >= t - RollupRetention THEN r[1] ELSE t - RollupRetention
      /\ v.end = IF r[2] <= t THEN r[2] ELSE t
  BY <1>4, <1>5, MaxPair, MinPair
<1> HIDE DEF v
<1> QED
  BY <1>1, <1>3, <1>4, <1>5, <1>6, <1>7

(* _cost_aware_plan: rollups are read up to rollupEnd, never beyond the    *)
(* watermark, and raw samples from rawStart, which leaves out only what    *)
(* raw retention may have deleted, and nothing when maintenance has kept   *)
(* up.                                                                     *)
LEMMA PlanFacts ==
    ASSUME TypeOK, NEW w \in Windows, NEW plan, plan = CostAwarePlan(w)
    PROVE  /\ plan.rollupEnd \in Int /\ plan.rawStart \in Int
           /\ w.start <= plan.rollupEnd /\ plan.rollupEnd <= plan.rawStart
           /\ plan.rawStart <= w.end
           /\ plan.rollupEnd # w.start =>
                 ValidWatermark # None /\ plan.rollupEnd <= ValidWatermark
           /\ \/ plan.rawStart >= now - RawRetention
              \/ plan.rawStart = w.end
              \/ ValidWatermark = None
           /\ Current(w) => plan.rawStart = plan.rollupEnd
<1> DEFINE cutoff == now - RawRetention
           small == w.start >= cutoff /\ Cardinality(Within(w.start, w.end)) <= MaxQueryRows
           finalized == IF ValidWatermark = None THEN w.start
                        ELSE Min({w.end, Max({w.start, ValidWatermark})})
           rawStart == IF ValidWatermark # None /\ finalized < cutoff
                       THEN Min({w.end, cutoff}) ELSE finalized
<1>1. w.start \in Int /\ w.end \in Int /\ w.start < w.end
  BY WindowFacts
<1>2. now \in Nat /\ RawRetention \in Nat /\ cutoff \in Int
  BY SampleTypes, StoreAssumption
<1>3. /\ watermark # None => watermark \in Int
      /\ ValidWatermark # None => ValidWatermark \in Int /\ ValidWatermark = watermark
      /\ ValidWatermark = None => watermark = None \/ ~ (watermark <= Floor(now))
  BY SampleTypes DEF TypeOK, ValidWatermark
<1>4. IF small THEN plan.rollupEnd = w.start /\ plan.rawStart = w.start
      ELSE plan.rollupEnd = finalized /\ plan.rawStart = rawStart
  BY DEF CostAwarePlan
<1>5. \A a, b \in Int : /\ Min({a, b}) = IF a <= b THEN a ELSE b
                        /\ Max({a, b}) = IF a >= b THEN a ELSE b
  BY MinPair, MaxPair
<1>6. ValidWatermark # None =>
        finalized = IF w.end <= (IF w.start >= ValidWatermark THEN w.start ELSE ValidWatermark)
                    THEN w.end
                    ELSE IF w.start >= ValidWatermark THEN w.start ELSE ValidWatermark
  <2>1. ASSUME ValidWatermark # None
        PROVE  Max({w.start, ValidWatermark}) =
                  IF w.start >= ValidWatermark THEN w.start ELSE ValidWatermark
    BY <1>1, <1>3, <1>5, <2>1
  <2> QED BY <1>1, <1>3, <1>5, <2>1
<1>7. Min({w.end, cutoff}) = IF w.end <= cutoff THEN w.end ELSE cutoff
  BY <1>1, <1>2, <1>5
<1>8. /\ finalized \in Int /\ w.start <= finalized /\ finalized <= w.end
      /\ finalized # w.start => ValidWatermark # None /\ finalized <= ValidWatermark
      /\ (ValidWatermark # None /\ ValidWatermark >= cutoff /\ finalized < cutoff) =>
            finalized = w.end
  <2>1. CASE ValidWatermark = None
    BY <1>1, <2>1
  <2>2. CASE ValidWatermark # None
    <3> HIDE DEF finalized, cutoff
    <3> QED BY <1>1, <1>2, <1>3, <1>6, <2>2
  <2> QED BY <2>1, <2>2
<1>9. /\ rawStart \in Int /\ finalized <= rawStart /\ rawStart <= w.end
      /\ rawStart >= cutoff \/ rawStart = w.end \/ ValidWatermark = None
      /\ rawStart # finalized => /\ ValidWatermark # None /\ finalized < cutoff
                                 /\ finalized # w.end
  <2>1. CASE ValidWatermark # None /\ finalized < cutoff
    <3>1. rawStart = IF w.end <= cutoff THEN w.end ELSE cutoff
      BY <1>7, <2>1
    <3> HIDE DEF finalized, rawStart, cutoff
    <3> QED BY <1>1, <1>2, <1>8, <2>1, <3>1
  <2>2. CASE ~ (ValidWatermark # None /\ finalized < cutoff)
    <3>1. rawStart = finalized
      BY <2>2
    <3> HIDE DEF finalized, rawStart, cutoff
    <3> QED BY <1>1, <1>2, <1>8, <2>2, <3>1
  <2> QED BY <2>1, <2>2
<1>10. Current(w) => rawStart = finalized
  <2> SUFFICES ASSUME Current(w), rawStart # finalized PROVE FALSE
    OBVIOUS
  <2>1. ValidWatermark # None /\ finalized < cutoff /\ finalized # w.end
    BY <1>9
  <2>2. watermark = None \/ watermark >= cutoff \/ w.start >= cutoff
    BY DEF Current
  <2> HIDE DEF finalized, rawStart, cutoff
  <2> QED BY <1>1, <1>2, <1>3, <1>8, <2>1, <2>2
<1>11. CASE small
  <2>1. plan.rollupEnd = w.start /\ plan.rawStart = w.start /\ w.start >= cutoff
    BY <1>4, <1>11
  <2> QED BY <1>1, <1>2, <2>1
<1>12. CASE ~small
  <2>1. plan.rollupEnd = finalized /\ plan.rawStart = rawStart
    BY <1>4, <1>12
  <2> HIDE DEF finalized, rawStart, small
  <2> QED BY <1>8, <1>9, <1>10, <2>1
<1> QED
  BY <1>11, <1>12

-----------------------------------------------------------------------------
(* Queries: what an answer stands for *)

(* A row of the plan is a whole minute inside the window, below everything *)
(* that is read as raw samples.                                            *)
LEMMA RowFacts ==
    ASSUME TypeOK, NEW w \in Windows, NEW plan, plan = CostAwarePlan(w),
           NEW m \in RollupRows(w.start, plan.rollupEnd), NEW p \in rollups[m]
    PROVE  /\ m \in DOMAIN rollups /\ p \in committed /\ Floor(p.ts) = m /\ p.ts \in Int
           /\ w.start <= p.ts /\ p.ts < plan.rawStart /\ p.ts < w.end
           /\ m < Floor(plan.rollupEnd)
<1>1. m \in DOMAIN rollups /\ Ceil(w.start) <= m /\ m < Floor(plan.rollupEnd)
  BY DEF RollupRows
<1>2. p \in committed /\ Floor(p.ts) = m
  BY <1>1 DEF TypeOK
<1>3. p.ts \in Int
  BY <1>2, SampleTypes
<1>4. m \in Int /\ m <= p.ts /\ p.ts < m + Minute
  BY <1>2, <1>3, FloorBounds
<1>5. /\ plan.rollupEnd \in Int /\ plan.rawStart \in Int
      /\ plan.rollupEnd <= plan.rawStart /\ plan.rawStart <= w.end
  BY PlanFacts
<1>6. w.start \in Int /\ w.end \in Int
  BY WindowFacts
<1>7. Floor(plan.rollupEnd) \in Int /\ Floor(plan.rollupEnd) <= plan.rollupEnd
  BY <1>5, FloorBounds
<1>8. m + Minute <= Floor(plan.rollupEnd)
  BY <1>1, <1>2, <1>3, <1>5, FloorGap
<1>9. Ceil(w.start) \in Int /\ w.start <= Ceil(w.start)
  BY <1>6, CeilWhole
<1>10. Minute \in Nat
  BY StoreAssumption
<1> QED
  BY <1>1, <1>2, <1>3, <1>4, <1>5, <1>6, <1>7, <1>8, <1>9, <1>10

(* What is read, part by part. *)
LEMMA ReadFacts ==
    ASSUME TypeOK, NEW w \in Windows, NEW read, read = Read(w)
    PROVE  /\ read.plan = CostAwarePlan(w)
           /\ read.rows = RollupRows(w.start, read.plan.rollupEnd)
           /\ {p \in read.raw : read.plan.rawStart <= p.ts /\ p.ts < w.end}
                 = Within(read.plan.rawStart, w.end)
<1> DEFINE plan == CostAwarePlan(w)
<1>1. /\ read.plan = plan
      /\ read.raw = IF plan.rawStart < w.end THEN RawPoints(plan.rawStart, w.end) ELSE {}
      /\ read.rows = RollupRows(w.start, plan.rollupEnd)
  <2> HIDE DEF plan
  <2> QED BY DEF Read, plan
<1>2. plan.rawStart \in Int /\ w.end \in Int
  BY PlanFacts, WindowFacts
<1>3. \A p \in points : p.ts \in Int
  BY SampleTypes
<1> HIDE DEF plan
<1>4. CASE plan.rawStart < w.end
  <2>1. read.raw \subseteq points /\ Within(plan.rawStart, w.end) \subseteq read.raw
    BY <1>1, <1>4 DEF RawPoints, Within
  <2> QED BY <1>1, <2>1 DEF Within, plan
<1>5. CASE ~ (plan.rawStart < w.end)
  <2>1. read.raw = {}
    BY <1>1, <1>5
  <2>2. Within(plan.rawStart, w.end) = {}
    BY <1>2, <1>3, <1>5 DEF Within
  <2> QED BY <1>1, <2>1, <2>2 DEF plan
<1> QED
  BY <1>4, <1>5

(* A sample that the plan covers and that is not late is found, in its     *)
(* rollup or as a raw sample, while maintenance keeps up and the clock is  *)
(* not set.                                                                *)
LEMMA Found ==
    ASSUME IInv, steps = 0, ~lagged, NEW w \in Windows, NEW read, read = Read(w),
           NEW p \in committed \ late, w.start <= p.ts, p.ts < w.end, ~Expired(p),
           \/ p.ts >= read.plan.rawStart
           \/ Ceil(w.start) <= p.ts /\ p.ts < Floor(read.plan.rollupEnd)
    PROVE  p \in Counted(w, read)
<1> DEFINE plan == CostAwarePlan(w)
<1>1. TypeOK /\ ClockInv /\ RawInv /\ AtWatermark
  BY DEF IInv, StoreComplete, SteadyInv
<1>2. /\ read.plan = plan /\ read.rows = RollupRows(w.start, plan.rollupEnd)
      /\ {q \in read.raw : plan.rawStart <= q.ts /\ q.ts < w.end} = Within(plan.rawStart, w.end)
  BY <1>1, ReadFacts
<1>3. /\ plan.rollupEnd \in Int /\ plan.rawStart \in Int /\ w.start <= plan.rollupEnd
      /\ plan.rollupEnd # w.start => ValidWatermark # None /\ plan.rollupEnd <= ValidWatermark
      /\ plan.rawStart >= now - RawRetention \/ plan.rawStart = w.end \/ ValidWatermark = None
  BY <1>1, PlanFacts
<1>4. w.start \in Int /\ w.end \in Int
  BY <1>1, WindowFacts
<1>5. p.ts \in Int /\ now \in Int /\ now - RawRetention \in Int
  BY <1>1, SampleTypes, StoreAssumption
<1>6. ValidWatermark = watermark
  <2>1. CASE watermark = None
    BY <2>1 DEF ValidWatermark
  <2>2. CASE watermark # None
    <3>1. watermark \in Int /\ Floor(watermark) = watermark /\ watermark <= now
      BY <1>1, <2>2, SampleTypes DEF TypeOK, ClockInv
    <3>2. Floor(watermark) <= Floor(now)
      BY <1>5, <3>1, FloorMonotone
    <3> QED BY <3>1, <3>2 DEF ValidWatermark
  <2> QED BY <2>1, <2>2
<1>7. watermark # None => watermark \in Int
  BY <1>1, SampleTypes DEF TypeOK
<1> HIDE DEF plan
<1>8. CASE p.ts >= plan.rawStart
  <2>1. p \in points
    <3>1. CASE watermark = None
      BY <1>1, <3>1 DEF RawInv
    <3>2. CASE watermark # None
      <4>1. p.ts >= now - RawRetention
        BY <1>3, <1>4, <1>5, <1>6, <1>8, <3>2
      <4> QED BY <1>1, <4>1 DEF RawInv
    <3> QED BY <3>1, <3>2
  <2>2. p \in Within(plan.rawStart, w.end)
    BY <1>3, <1>5, <1>8, <2>1 DEF Within
  <2> QED BY <1>2, <2>2 DEF Counted
<1>9. CASE Ceil(w.start) <= p.ts /\ p.ts < Floor(plan.rollupEnd)
  <2> DEFINE m == Floor(p.ts)
  <2>1. Ceil(w.start) \in Int /\ w.start <= Ceil(w.start) /\ Floor(Ceil(w.start)) = Ceil(w.start)
    BY <1>4, CeilWhole
  <2>2. Floor(plan.rollupEnd) \in Int /\ Floor(plan.rollupEnd) <= plan.rollupEnd
    BY <1>3, FloorBounds
  <2>3. m \in Int /\ m <= p.ts
    BY <1>5, FloorBounds
  <2>4. Ceil(w.start) <= m
    BY <1>5, <1>9, <2>1, FloorMonotone
  <2>5. plan.rollupEnd # w.start
    BY <1>3, <1>4, <1>5, <1>9, <2>1, <2>2
  <2>6. watermark # None /\ p.ts < watermark
    BY <1>3, <1>5, <1>6, <1>7, <1>9, <2>2, <2>5
  <2>7. m \in DOMAIN rollups /\ p \in rollups[m]
    BY <1>1, <2>6 DEF AtWatermark, RolledUp
  <2>8. m < Floor(plan.rollupEnd)
    BY <1>5, <1>9, <2>2, <2>3
  <2>9. m \in read.rows
    BY <1>2, <2>4, <2>7, <2>8 DEF RollupRows
  <2> QED BY <2>7, <2>9 DEF Counted
<1> QED
  BY <1>2, <1>8, <1>9

(* summary leaves out no sample that its plan covers, and the plan of a    *)
(* query leaves out no retained sample of the window but those of minutes  *)
(* the window cuts, for every limit, retention, minute and history.        *)
THEOREM AnswersComplete == Spec => []AnswerComplete
<1>1. IInv => AnswerComplete
  <2> SUFFICES ASSUME IInv, steps = 0, NEW w \in Windows, NEW p \in committed \ late,
                      w.start <= p.ts, p.ts < w.end, Floor(p.ts) >= now - RollupRetention,
                      \/ p.ts >= Read(w).plan.rawStart
                      \/ Ceil(w.start) <= p.ts /\ p.ts < Floor(Read(w).plan.rollupEnd),
                      ~lagged
               PROVE  p \in Counted(w, Read(w))
    BY DEF AnswerComplete
  <2>1. TypeOK
    BY DEF IInv, StoreComplete
  <2>2. ~Expired(p)
    <3>1. p.ts \in Int /\ now - RollupRetention \in Int
      BY <2>1, SampleTypes, StoreAssumption
    <3>2. Floor(p.ts) \in Int
      BY <3>1, FloorBounds
    <3> QED BY <3>1, <3>2 DEF Expired
  <2> QED BY <2>2, Found
<1> QED
  BY <1>1, Invariance, PTL

(* A query reads no sample twice and none outside of its window: what it   *)
(* takes from rollups and what it takes as raw samples, and the rollups    *)
(* among themselves, have no sample in common.                             *)
ReadOnce ==
    \A w \in Windows :
        LET read == Read(w)
            raw == {p \in read.raw : read.plan.rawStart <= p.ts /\ p.ts < w.end}
        IN  /\ \A p \in Counted(w, read) : w.start <= p.ts /\ p.ts < w.end
            /\ \A m \in read.rows : rollups[m] \cap raw = {}
            /\ \A m, n \in read.rows : m # n => rollups[m] \cap rollups[n] = {}

(* _cost_aware_plan never lets a sample be counted from its rollup and     *)
(* from raw, whatever the watermark, the limits and the clock: the sums of *)
(* a summary are those of a set of samples of the window.                  *)
THEOREM NoSampleReadTwice == Spec => []ReadOnce
<1>1. ASSUME TypeOK, NEW w \in Windows, NEW read, read = Read(w)
      PROVE  LET raw == {p \in read.raw : read.plan.rawStart <= p.ts /\ p.ts < w.end}
             IN  /\ \A p \in Counted(w, read) : w.start <= p.ts /\ p.ts < w.end
                 /\ \A m \in read.rows : rollups[m] \cap raw = {}
                 /\ \A m, n \in read.rows : m # n => rollups[m] \cap rollups[n] = {}
  <2> DEFINE plan == read.plan
             raw == {p \in read.raw : plan.rawStart <= p.ts /\ p.ts < w.end}
  <2>1. /\ plan = CostAwarePlan(w) /\ read.rows = RollupRows(w.start, plan.rollupEnd)
        /\ raw = Within(plan.rawStart, w.end)
    BY <1>1, ReadFacts
  <2>2. /\ plan.rollupEnd \in Int /\ plan.rawStart \in Int
        /\ w.start <= plan.rollupEnd /\ plan.rollupEnd <= plan.rawStart
    BY <1>1, <2>1, PlanFacts
  <2>3. w.start \in Int
    BY <1>1, WindowFacts
  <2>4. \A p \in raw : /\ p.ts \in Int /\ plan.rawStart <= p.ts
                       /\ w.start <= p.ts /\ p.ts < w.end
    <3>1. \A p \in points : p.ts \in Int
      BY <1>1, SampleTypes
    <3> QED BY <2>1, <2>2, <2>3, <3>1 DEF Within
  <2>5. \A m \in read.rows : \A p \in rollups[m] :
           /\ Floor(p.ts) = m /\ p.ts \in Int /\ p.ts < plan.rawStart
           /\ w.start <= p.ts /\ p.ts < w.end
    BY <1>1, <2>1, RowFacts
  <2>6. Counted(w, read) = raw \cup UNION {rollups[m] : m \in read.rows}
    BY DEF Counted
  <2> HIDE DEF raw
  <2>7. \A p \in Counted(w, read) : w.start <= p.ts /\ p.ts < w.end
    BY <2>4, <2>5, <2>6
  <2>8. \A m \in read.rows : rollups[m] \cap raw = {}
    <3> SUFFICES ASSUME NEW m \in read.rows, NEW p \in rollups[m], p \in raw PROVE FALSE
      OBVIOUS
    <3>1. p.ts \in Int /\ plan.rawStart <= p.ts /\ p.ts < plan.rawStart
      BY <2>4, <2>5
    <3> QED BY <2>2, <3>1
  <2>9. \A m, n \in read.rows : m # n => rollups[m] \cap rollups[n] = {}
    BY <2>5
  <2> QED BY <2>7, <2>8, <2>9 DEF raw
<1>2. IInv => ReadOnce
  <2>1. IInv => TypeOK
    BY DEF IInv, StoreComplete
  <2> QED BY <1>1, <2>1 DEF ReadOnce
<1> QED
  BY <1>2, Invariance, PTL

-----------------------------------------------------------------------------
(* Exports *)

(* Samples that are kept have different times: a later one takes the place *)
(* of one that has its time.                                               *)
PointsApart == \A p, q \in points : p.ts = q.ts => p = q

(* Maintenance takes samples away, and a commit replaces. *)
LEMMA PointsStayApart == Spec => []PointsApart
<1>1. Init => PointsApart
  BY DEF Init, PointsApart
<1>2. ASSUME TypeOK, PointsApart, [Next]_vars PROVE PointsApart'
  <2>1. ASSUME NEW t \in Times PROVE RunMaintenance(Db, t).points \subseteq points
    <3> DEFINE r == RollupCompletedMinutes(Db, t)
    <3>1. r.points = points /\ r = [points |-> r.points, rollups |-> r.rollups, watermark |-> r.watermark]
      BY <1>2, RollupCases, RollupRecord
    <3>2. RunMaintenance(Db, t) = ApplyRetention(r, t)
      BY DEF RunMaintenance
    <3> HIDE DEF r
    <3>3. ApplyRetention(r, t).points = {p \in points : p.ts >= t - RawRetention}
      BY <3>1 DEF ApplyRetention
    <3> QED BY <3>2, <3>3
  <2>2. ASSUME points' \subseteq points PROVE PointsApart'
    BY <1>2, <2>2 DEF PointsApart
  <2>3. ASSUME NEW maintained \in BOOLEAN, CommitCycle(maintained) PROVE PointsApart'
    <3> DEFINE d == CycleDb(maintained)
               n == Cardinality(committed) + 1
               x == [id |-> n, ts |-> cycle, value |-> Measured[n]]
    <3>1. cycle \in Times /\ Store([d EXCEPT !.points = {q \in @ : q.ts # cycle} \cup {x}])
      BY <1>2, <2>3 DEF CommitCycle, CycleDb, TypeOK
    <3>2. x.ts = cycle
      OBVIOUS
    <3> HIDE DEF x
    <3>3. d.points \subseteq points
      BY <2>1, <3>1 DEF CycleDb, Db
    <3>4. d = [points |-> d.points, rollups |-> d.rollups, watermark |-> d.watermark]
      BY <2>3 DEF CycleDb, Db, RunMaintenance, ApplyRetention, RollupCompletedMinutes, RollupBatch
    <3> HIDE DEF d
    <3>5. points' = {q \in d.points : q.ts # cycle} \cup {x}
      BY <3>1, <3>4 DEF Store
    <3> QED BY <1>2, <3>2, <3>3, <3>5 DEF PointsApart
  <2>4. CASE AdminMaintenance
    <3>1. now \in Times /\ points' = RunMaintenance(Db, now).points
      BY <1>2, <2>4 DEF AdminMaintenance, Store, TypeOK
    <3> QED BY <2>1, <2>2, <3>1
  <2>5. CASE Tick \/ BeginCycle \/ AbandonCycle \/ (\E t \in Times : SetClock(t)) \/ UNCHANGED vars
    <3>1. points' = points
      BY <2>5 DEF Tick, BeginCycle, AbandonCycle, SetClock, vars
    <3> QED BY <2>2, <3>1
  <2> QED
    BY <1>2, <2>3, <2>4, <2>5 DEF Next
<1>3. IInv => TypeOK
  BY DEF IInv, StoreComplete
<1> QED
  BY <1>1, <1>2, <1>3, Invariance, PTL DEF Spec

(* Exports and summaries stand for the same samples: the rows of an export *)
(* hold exactly the samples the summary of the window counts, each in one  *)
(* row, and no two rows have the same time, whatever was done to the       *)
(* clock.                                                                  *)
RowsExact(w, granularity) ==
    LET read == Read(w)
        rows == PointRows(ExportSelection(w, read.plan, granularity))
    IN  /\ UNION {r.samples : r \in rows} = Counted(w, read)
        /\ \A r, q \in rows : r # q => r.samples \cap q.samples = {}
        /\ \A r, q \in rows : r.at = q.at => r = q

ExportExact ==
    \A w \in {v \in Windows : Current(v)}, granularity \in {"raw", "minute", "auto"} :
        ~ExportRefused(w, Read(w).plan, granularity) => RowsExact(w, granularity)

(* An export of samples: the whole window is raw. *)
LEMMA RawRowsExact ==
    ASSUME TypeOK, PointsApart, NEW w \in Windows, Current(w), NEW granularity,
           ~ExportRefused(w, Read(w).plan, granularity),
           SelectsRaw(w, Read(w).plan, granularity)
    PROVE  RowsExact(w, granularity)
<1> DEFINE read == Read(w)
           plan == read.plan
           rows == PointRows(ExportSelection(w, plan, granularity))
           Row(p) == [source |-> "raw", at |-> p.ts, samples |-> {p}]
<1>1. /\ plan = CostAwarePlan(w) /\ read.rows = RollupRows(w.start, plan.rollupEnd)
      /\ {p \in read.raw : plan.rawStart <= p.ts /\ p.ts < w.end} = Within(plan.rawStart, w.end)
  BY ReadFacts
<1>2. SourceMode(w, plan) = "raw"
  BY DEF ExportRefused, SelectsRaw
<1>3. plan.rollupEnd = w.start
  BY <1>2 DEF SourceMode
<1>4. plan.rawStart = w.start
  BY <1>1, <1>3, PlanFacts
<1>5. read.rows = {}
  <2>1. w.start \in Int
    BY WindowFacts
  <2>2. /\ Ceil(w.start) \in Int /\ w.start <= Ceil(w.start)
        /\ Floor(w.start) \in Int /\ Floor(w.start) <= w.start
    BY <2>1, CeilWhole, FloorBounds
  <2>3. \A m \in DOMAIN rollups : m \in Int
    BY SampleTypes DEF TypeOK
  <2> QED BY <1>1, <1>3, <2>1, <2>2, <2>3 DEF RollupRows
<1>6. Counted(w, read) = Within(w.start, w.end)
  BY <1>1, <1>4, <1>5 DEF Counted
<1>7. rows = {Row(p) : p \in Within(w.start, w.end)}
  BY DEF ExportSelection, PointRows
<1>8. \A p, q \in Within(w.start, w.end) : p.ts = q.ts => p = q
  BY DEF Within, PointsApart
<1>9. \A p : Row(p).at = p.ts /\ Row(p).samples = {p}
  OBVIOUS
<1> HIDE DEF Row, rows, read
<1>10. UNION {r.samples : r \in rows} = Counted(w, read)
  BY <1>6, <1>7, <1>9
<1>11. \A r, q \in rows : r # q => r.samples \cap q.samples = {}
  BY <1>7, <1>9
<1>12. \A r, q \in rows : r.at = q.at => r = q
  BY <1>7, <1>8, <1>9
<1> QED
  BY <1>10, <1>11, <1>12 DEF RowsExact, rows, read

(* An export of minutes: rollups up to rollupEnd, then minutes made of the *)
(* raw samples from rawStart, which lie in later minutes.                  *)
LEMMA MinuteRowsExact ==
    ASSUME TypeOK, NEW w \in Windows, NEW granularity,
           ~SelectsRaw(w, Read(w).plan, granularity)
    PROVE  RowsExact(w, granularity)
<1> DEFINE read == Read(w)
           plan == read.plan
           rows == PointRows(ExportSelection(w, plan, granularity))
           raw == Within(plan.rawStart, w.end)
           Rolled(m) == [source |-> "rollup", at |-> m, samples |-> rollups[m]]
           Made(m) == [source |-> "raw_minute", at |-> m,
                       samples |-> {p \in raw : Floor(p.ts) = m}]
           made == {Floor(p.ts) : p \in raw}
<1>1. /\ plan = CostAwarePlan(w) /\ read.rows = RollupRows(w.start, plan.rollupEnd)
      /\ {p \in read.raw : plan.rawStart <= p.ts /\ p.ts < w.end} = raw
  BY ReadFacts
<1>2. /\ plan.rollupEnd \in Int /\ plan.rawStart \in Int
      /\ plan.rollupEnd <= plan.rawStart
  BY <1>1, PlanFacts
<1>3. w.end \in Int
  BY WindowFacts
<1>4. \A p \in points : p.ts \in Int
  BY SampleTypes
<1>5. raw = IF plan.rawStart < w.end THEN raw ELSE {}
  <2>1. ASSUME ~ (plan.rawStart < w.end) PROVE raw = {}
    BY <1>2, <1>3, <1>4, <2>1 DEF Within
  <2> QED BY <2>1
<1>6. rows = {Rolled(m) : m \in read.rows} \cup {Made(m) : m \in made}
  <2>1. ExportSelection(w, plan, granularity) =
           [raw |-> {}, rollup |-> read.rows, rawMinute |-> raw]
    BY <1>1, <1>5 DEF ExportSelection
  <2> QED BY <2>1 DEF PointRows
<1>7. Counted(w, read) = raw \cup UNION {rollups[m] : m \in read.rows}
  BY <1>1 DEF Counted
<1>8. \A m \in read.rows : /\ m \in Int /\ m < Floor(plan.rollupEnd)
                           /\ \A p \in rollups[m] : Floor(p.ts) = m
  <2>1. \A m \in read.rows : m \in DOMAIN rollups /\ m < Floor(plan.rollupEnd)
    BY <1>1 DEF RollupRows
  <2>2. \A m \in DOMAIN rollups : m \in Int /\ \A p \in rollups[m] : Floor(p.ts) = m
    BY SampleTypes DEF TypeOK
  <2> QED BY <2>1, <2>2
<1>9. \A m \in made : m \in Int /\ Floor(plan.rollupEnd) <= m
  <2> SUFFICES ASSUME NEW p \in raw
               PROVE  Floor(p.ts) \in Int /\ Floor(plan.rollupEnd) <= Floor(p.ts)
    OBVIOUS
  <2>1. p.ts \in Int /\ plan.rawStart <= p.ts
    BY <1>4 DEF Within
  <2>2. plan.rollupEnd <= p.ts
    BY <1>2, <2>1
  <2> QED BY <1>2, <2>1, <2>2, FloorMonotone, FloorBounds
<1>10. \A m \in read.rows : m \notin made
  <2>1. Floor(plan.rollupEnd) \in Int
    BY <1>2, FloorBounds
  <2> QED BY <1>8, <1>9, <2>1
<1>11. \A m : /\ Rolled(m).at = m /\ Rolled(m).samples = rollups[m]
              /\ Made(m).at = m /\ Made(m).samples = {p \in raw : Floor(p.ts) = m}
  OBVIOUS
<1>12. \A p \in raw : Floor(p.ts) \in made
  OBVIOUS
<1> HIDE DEF Rolled, Made, rows, read, raw, made
<1>13. \A r \in rows :
          \/ r.at \in read.rows /\ r = Rolled(r.at) /\ r.samples = rollups[r.at]
          \/ r.at \in made /\ r = Made(r.at) /\ r.samples = {p \in raw : Floor(p.ts) = r.at}
  BY <1>6, <1>11
<1>14. \A r, q \in rows : r.at = q.at => r = q
  BY <1>10, <1>13
<1>15. \A r \in rows : \A p \in r.samples : Floor(p.ts) = r.at
  BY <1>8, <1>13
<1>16. \A r, q \in rows : r # q => r.samples \cap q.samples = {}
  BY <1>14, <1>15
<1>17. UNION {r.samples : r \in rows} = Counted(w, read)
  <2>1. \A r \in rows : r.samples \subseteq Counted(w, read)
    BY <1>7, <1>13
  <2>2. ASSUME NEW p \in raw PROVE \E r \in rows : p \in r.samples
    <3>1. Made(Floor(p.ts)) \in rows
      BY <1>6, <1>12
    <3>2. p \in Made(Floor(p.ts)).samples
      BY <1>11
    <3> QED BY <3>1, <3>2
  <2>3. ASSUME NEW m \in read.rows, NEW p \in rollups[m] PROVE \E r \in rows : p \in r.samples
    <3>1. Rolled(m) \in rows /\ p \in Rolled(m).samples
      BY <1>6, <1>11
    <3> QED BY <3>1
  <2> QED BY <1>7, <2>1, <2>2, <2>3
<1> QED
  BY <1>14, <1>16, <1>17 DEF RowsExact, rows, read

(* _export_selection: what an export holds is what the summary of the same *)
(* window counts, every sample once and every time once, with the plan and *)
(* the snapshot of either.                                                 *)
THEOREM ExportsExact == Spec => []ExportExact
<1>1. IInv /\ PointsApart => ExportExact
  <2> SUFFICES ASSUME IInv, PointsApart, NEW w \in Windows, Current(w), NEW granularity,
                      ~ExportRefused(w, Read(w).plan, granularity)
               PROVE  RowsExact(w, granularity)
    BY DEF ExportExact
  <2>1. TypeOK
    BY DEF IInv, StoreComplete
  <2>2. CASE SelectsRaw(w, Read(w).plan, granularity)
    BY <2>1, <2>2, RawRowsExact
  <2>3. CASE ~SelectsRaw(w, Read(w).plan, granularity)
    BY <2>1, <2>3, MinuteRowsExact
  <2> QED BY <2>2, <2>3
<1> QED
  BY <1>1, Invariance, PointsStayApart, PTL
=============================================================================
