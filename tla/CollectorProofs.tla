-------------------------- MODULE CollectorProofs --------------------------
(***************************************************************************)
(* Proofs about Collector: events tell the saved states, estimates are     *)
(* honest, health is right about the tunnel and rates are true, in every   *)
(* reachable state and for every value of the constants.                   *)
(*                                                                         *)
(* A cycle is a chain of operators on the database, so the proof is one    *)
(* too: for each operator a lemma says what it leaves alone (Frame), that  *)
(* the agreement of events and states is kept (Agrees), and what it does   *)
(* to one cached value (CacheStep) and to the tunnel's points (TunnelStep).*)
(* CycleStep puts the chain together, and the lemmas on the steps of the   *)
(* daemon and of the host use only that.                                   *)
(*                                                                         *)
(* For the rates the chain is followed again for types and counters        *)
(* (Aside, Counted, up to CycleCounts).  What was reported, and what the   *)
(* next rates would report, never exceeds what happened (BalanceInv), and  *)
(* within a boot a counter gains no more than time allows (SpeedInv).      *)
(***************************************************************************)
EXTENDS Collector, TLAPS, FiniteSetTheorems

-----------------------------------------------------------------------------
(* Databases and what an operation leaves alone in them *)

(* The columns of the database, and the domains of its functions. *)
DbFields == {"cycle", "member", "seen", "state", "pid", "told", "dropped", "attempt", "cache",
             "prev", "pt", "rate", "reported"}

Shape(d) ==
    /\ DOMAIN d = DbFields
    /\ DOMAIN d.state = Keys /\ DOMAIN d.told = Keys
    /\ DOMAIN d.cache = Caches /\ DOMAIN d.pt = Points
    /\ DOMAIN d.attempt = {"sockets", "slow"}

(* The keys whose events tell a state. *)
FailKeys == {One("collection"), One("retention"), One("checkpoint"), One("env")}
Telling == Sources \cup FailKeys \cup {One("service"), One("listener")}

(* Nothing of the key changes. *)
Same(d, e, k) ==
    e.state[k] = d.state[k] /\ e.told[k] = d.told[k] /\ (k \in e.dropped <=> k \in d.dropped)

(* From d to e: only the keys K, the points P and the caches in P change. *)
Frame(d, e, K, P) ==
    /\ Shape(e)
    /\ \A k \in Telling \ K : Same(d, e, k)
    /\ \A p \in Points \ P : e.pt[p] = d.pt[p]
    /\ \A n \in Caches \ P : e.cache[n] = d.cache[n]
    /\ e.attempt = d.attempt /\ e.cycle = d.cycle /\ e.member = d.member

(* The names of the sources that are there once. *)
SourceNames ==
    {"counter", "env_directory", "conntrack", "ss_listeners", "ss_connections", "host_metrics",
     "storage_metrics", "network_metrics", "service_processing", "tunnel_processing", "systemd",
     "cgroup_pids", "cgroup_memory", "filesystem"}

(* The names of keys are different, and those of caches are points. *)
LEMMA KeyFacts ==
    /\ Telling \subseteq Keys
    /\ FailKeys \cap Sources = {}
    /\ {One("service"), One("listener")} \cap (Sources \cup FailKeys) = {}
    /\ One("service") # One("listener")
    /\ \A k \in Telling : k \notin Edges /\ k[1] # "interface"
    /\ Caches = {"sockets", "remote", "slow", "memory"} /\ Caches \subseteq Points
<1>1. \A i, j : One(i) = One(j) => i = j
  BY DEF One
<1>2. Caches = {"sockets", "remote", "slow", "memory"}
  BY DEF Caches, Cadence
<1>3. \A k \in Sources : \/ \E s \in SourceNames : k = One(s)
                         \/ k \in {"process_fast", "process_slow"} \X (1..MaxStarts)
  BY DEF Sources, HostSources, Parts, Processing, ServiceSources, SourceNames
<1>4. \A k \in Sources : k[1] \in SourceNames \cup {"process_fast", "process_slow"}
  BY <1>3 DEF One
<1>5. \A k \in FailKeys : k[1] \in {"collection", "retention", "checkpoint", "env"}
  BY DEF FailKeys, One
<1>6. One("service")[1] = "service" /\ One("listener")[1] = "listener"
  BY DEF One
<1>7. \A k \in Edges : k[1] \in {"reset", "gap"}
  BY DEF Edges
<1>8. Telling \subseteq Keys
  BY DEF Telling, FailKeys, Keys, Families
<1>9. Caches \subseteq Points
  BY DEF Points
<1>10. FailKeys \cap Sources = {}
       /\ {One("service"), One("listener")} \cap (Sources \cup FailKeys) = {}
       /\ One("service") # One("listener")
  BY <1>4, <1>5, <1>6 DEF SourceNames
<1>11. \A k \in Telling : k \notin Edges /\ k[1] # "interface"
  BY <1>4, <1>5, <1>6, <1>7 DEF Telling, SourceNames
<1> QED
  BY <1>2, <1>8, <1>9, <1>10, <1>11

(* The first components of telling keys. *)
LEMMA TellingNames ==
    \A k \in Telling : k[1] # "pid" /\ k[1] # "overrun"
<1>1. \A k \in Sources : \/ \E s \in SourceNames : k = One(s)
                         \/ k \in {"process_fast", "process_slow"} \X (1..MaxStarts)
  BY DEF Sources, HostSources, Parts, Processing, ServiceSources, SourceNames
<1>2. \A k \in Sources : k[1] # "pid" /\ k[1] # "overrun"
  BY <1>1 DEF One, SourceNames
<1>3. \A k \in FailKeys \cup {One("service"), One("listener")} : k[1] # "pid" /\ k[1] # "overrun"
  BY DEF FailKeys, One
<1> QED
  BY <1>2, <1>3 DEF Telling

(* Frames follow one another. *)
LEMMA FrameTrans ==
    ASSUME NEW d, NEW e, NEW f, NEW K, NEW L, NEW P, NEW Q, Frame(d, e, K, P), Frame(e, f, L, Q)
    PROVE  Frame(d, f, K \cup L, P \cup Q)
BY DEF Frame, Same

(* A frame may be given more freely than it is. *)
LEMMA FrameWeaken ==
    ASSUME NEW d, NEW e, NEW K, NEW L, NEW P, NEW Q, Frame(d, e, K, P), K \subseteq L, P \subseteq Q
    PROVE  Frame(d, e, L, Q)
BY DEF Frame

(* Nothing changes. *)
LEMMA FrameRefl ==
    ASSUME NEW d, Shape(d)
    PROVE  Frame(d, d, {}, {})
BY DEF Frame, Same

(* A point is written. *)
LEMMA PutFrame ==
    ASSUME NEW d, Shape(d), NEW p \in Points, NEW x
    PROVE  /\ Frame(d, Put(d, p, x), {}, {p})
           /\ Put(d, p, x).pt[p] = x /\ Put(d, p, x).cache = d.cache
           /\ Put(d, p, x).state = d.state
<1>1. /\ DOMAIN Put(d, p, x) = DbFields
      /\ Put(d, p, x).pt = [d.pt EXCEPT ![p] = x]
      /\ \A f \in DbFields \ {"pt"} : Put(d, p, x)[f] = d[f]
  BY DEF Put, Shape, DbFields
<1>2. /\ Put(d, p, x).state = d.state /\ Put(d, p, x).told = d.told
      /\ Put(d, p, x).dropped = d.dropped /\ Put(d, p, x).cache = d.cache
      /\ Put(d, p, x).attempt = d.attempt /\ Put(d, p, x).cycle = d.cycle
      /\ Put(d, p, x).member = d.member
  BY <1>1 DEF DbFields
<1> QED
  BY <1>1, <1>2 DEF Frame, Shape, Same

(* A state is saved, with or without an event. *)
LEMMA KeepFrame ==
    ASSUME NEW d, Shape(d), NEW k \in Keys, NEW v, NEW code, NEW ts
    PROVE  /\ Frame(d, Keep(d, k, v, code, ts), {k}, {})
           /\ Keep(d, k, v, code, ts).state[k] = v
           /\ code = None => /\ Keep(d, k, v, code, ts).told[k] = d.told[k]
                             /\ Keep(d, k, v, code, ts).dropped = d.dropped
           /\ code # None => /\ Keep(d, k, v, code, ts).told[k] = [ts |-> ts, code |-> code]
                             /\ k \notin Keep(d, k, v, code, ts).dropped
           /\ Keep(d, k, v, code, ts).pt = d.pt /\ Keep(d, k, v, code, ts).cache = d.cache
<1> DEFINE e == Keep(d, k, v, code, ts)
<1>1. /\ DOMAIN e = DbFields
      /\ e.state = [d.state EXCEPT ![k] = v]
      /\ e.told = [d.told EXCEPT ![k] = IF code = None THEN @ ELSE [ts |-> ts, code |-> code]]
      /\ e.dropped = IF code = None THEN d.dropped ELSE d.dropped \ {k}
      /\ \A f \in DbFields \ {"state", "told", "dropped"} : e[f] = d[f]
  BY DEF Keep, Shape, DbFields
<1>2. /\ e.pt = d.pt /\ e.cache = d.cache
      /\ e.attempt = d.attempt /\ e.cycle = d.cycle /\ e.member = d.member
  BY <1>1 DEF DbFields
<1> HIDE DEF e
<1>3. Shape(e)
  BY <1>1, <1>2 DEF Shape
<1>4. \A j \in Telling \ {k} : Same(d, e, j)
  BY <1>1, KeyFacts DEF Same, Shape
<1>5. Frame(d, e, {k}, {})
  BY <1>2, <1>3, <1>4 DEF Frame
<1> QED
  BY <1>1, <1>2, <1>5 DEF e, Shape

(* The counters of a cycle change their own flags and events only. *)
LEMMA CounterStepFrame ==
    ASSUME NEW d, Shape(d), NEW c
    PROVE  Frame(d, CounterStep(d, c), {}, {})
<1> DEFINE e == CounterStep(d, c)
<1> DEFINE elapsed == Elapsed(d, c)
           Previous(n) == PreviousSample(d, n)
           known == {n \in Names : c.samples[n] # None}
           result == [n \in Series |->
              IF n \in known THEN Metrics(n, c.samples[n], Previous(n), elapsed)
              ELSE IF n = Total /\ kind = "interface"
              THEN InterfaceMetrics(AggregateExternal(c.samples),
                                    IF \A i \in Names : Previous(i) = None THEN None
                                    ELSE AggregateExternal(d.prev.samples), elapsed)
              ELSE Unavailable]
           flagged == {k \in Edges : k[2] \in known /\ (k[1] = "gap" => kind # "process")}
           Flagged(k) == IF k[1] = "reset" THEN result[k[2]].reset ELSE result[k[2]].gap
           was == IF d.prev = None THEN None ELSE {n \in Names : Previous(n) # None}
           code == [k \in Keys |->
                     IF k \in flagged
                     THEN Edge(d.state[k], Flagged(k),
                               IF k[1] = "reset" THEN "counter_reset" ELSE "sampling_gap")
                     ELSE IF k[1] # "interface" \/ kind # "interface" THEN None
                     ELSE IF k[2] \in Added(was, known) THEN "interface_added"
                     ELSE IF k[2] \in Removed(was, known) THEN "interface_removed"
                     ELSE None]
           rate == [n \in Series |-> [delta   |-> result[n].delta,
                                     elapsed |-> elapsed,
                                     slack   |-> IF d.prev = None THEN 0 ELSE d.prev.slack,
                                     boot    |-> IF d.prev = None THEN boot ELSE d.prev.boot]]
           reported == [n \in Series |-> d.reported[n] + IF result[n].delta = None THEN 0
                                               ELSE result[n].delta]
<1>0. e = [d EXCEPT !.rate = rate, !.reported = reported,
                    !.state = [k \in Keys |-> IF k \notin flagged THEN @[k]
                                              ELSE IF Flagged(k) THEN "active" ELSE "inactive"],
                    !.told = [k \in Keys |-> IF code[k] = None THEN @[k]
                                             ELSE [ts |-> c.ts, code |-> code[k]]],
                    !.prev = SaveSamples(c)]
  BY Zenon DEF CounterStep
<1> HIDE DEF flagged, code, rate, reported, Flagged
<1>1. /\ flagged \subseteq Edges
      /\ \A k \in Keys : (k \notin flagged /\ k[1] # "interface") => code[k] = None
  <2>1. \A k \in Keys : (k \notin flagged /\ k[1] # "interface") => code[k] = None
    <3> HIDE DEF flagged, Flagged, was, known
    <3> QED BY DEF code
  <2> QED BY <2>1 DEF flagged
<1> HIDE DEF e
<1>2. /\ DOMAIN e = DbFields
      /\ e.state = [k \in Keys |-> IF k \notin flagged THEN d.state[k]
                                 ELSE IF Flagged(k) THEN "active" ELSE "inactive"]
      /\ e.told = [k \in Keys |-> IF code[k] = None THEN d.told[k]
                                  ELSE [ts |-> c.ts, code |-> code[k]]]
      /\ \A f \in DbFields \ {"rate", "reported", "state", "told", "prev"} : e[f] = d[f]
  BY <1>0 DEF Shape, DbFields
<1>3. /\ e.pt = d.pt /\ e.cache = d.cache /\ e.dropped = d.dropped
      /\ e.attempt = d.attempt /\ e.cycle = d.cycle /\ e.member = d.member
  BY <1>2 DEF DbFields
<1>4. Shape(e)
  BY <1>2, <1>3 DEF Shape
<1>5. ASSUME NEW k \in Telling PROVE Same(d, e, k)
  <2>1. k \in Keys /\ k \notin flagged /\ k[1] # "interface"
    BY <1>1, KeyFacts
  <2>2. code[k] = None
    BY <1>1, <2>1
  <2> QED BY <1>2, <1>3, <2>1, <2>2 DEF Same
<1>6. Frame(d, e, {}, {})
  BY <1>3, <1>4, <1>5 DEF Frame
<1> QED
  BY <1>6 DEF e

-----------------------------------------------------------------------------
(* Events and states *)

(* A source fails exactly when its newest event says so; events that were dropped
   are excepted. *)
SourceAgrees(d, k) ==
    \/ k \in d.dropped
    \/ /\ d.state[k] = "failed" => d.told[k] # None
       /\ d.told[k] # None => (d.state[k] = "failed") =
                              (d.told[k].code = "metric_source_unavailable")

(* The states that collector.py keeps itself. *)
FailureCodes == {"collection_failed", "env_parse_error", "database_retention_failed",
                 "wal_checkpoint_failed"}

FailAgrees(d, k) ==
    (d.state[k] = "failed") = (d.told[k] # None /\ d.told[k].code \in FailureCodes)

(* The service and the listener, whose first state has no event. *)
ServiceAgrees(d) ==
    /\ d.told[One("service")] # None => d.told[One("service")].code = d.state[One("service")]
    /\ d.state[One("service")] = None => d.told[One("service")] = None

ListenerAgrees(d) ==
    /\ d.told[One("listener")] # None =>
          (d.told[One("listener")].code = "listener_returned") = (d.state[One("listener")] = "ok")
    /\ d.state[One("listener")] = None => d.told[One("listener")] = None

(* Events and states agree. *)
Agrees(d) ==
    /\ \A k \in Sources : SourceAgrees(d, k)
    /\ \A k \in FailKeys : FailAgrees(d, k)
    /\ ServiceAgrees(d) /\ ListenerAgrees(d)

(* An event is there, and a code is a code. *)
LEMMA EventIsThere ==
    ASSUME NEW ts \in Nat, NEW code \in Codes
    PROVE  code # None /\ [ts |-> ts, code |-> code] # None
<1>1. [ts |-> ts, code |-> code] \in [ts : Nat, code : Codes]
  OBVIOUS
<1> QED
  BY <1>1, NoneAssumption

(* Where nothing changes, the agreement stays. *)
LEMMA FrameAgrees ==
    ASSUME NEW d, NEW e, NEW K, NEW P, Agrees(d), Frame(d, e, K, P),
           \A k \in K \cap Sources : SourceAgrees(e, k),
           \A k \in K \cap FailKeys : FailAgrees(e, k),
           One("service") \in K => ServiceAgrees(e),
           One("listener") \in K => ListenerAgrees(e)
    PROVE  Agrees(e)
<1>1. ASSUME NEW k \in Sources PROVE SourceAgrees(e, k)
  <2>1. CASE k \notin K
    <3>1. Same(d, e, k)
      BY <2>1 DEF Frame, Telling
    <3> QED BY <3>1 DEF Same, SourceAgrees, Agrees
  <2> QED BY <2>1
<1>2. ASSUME NEW k \in FailKeys PROVE FailAgrees(e, k)
  <2>1. CASE k \notin K
    <3>1. Same(d, e, k)
      BY <2>1 DEF Frame, Telling
    <3> QED BY <3>1 DEF Same, FailAgrees, Agrees
  <2> QED BY <2>1
<1>3. ServiceAgrees(e)
  <2>1. CASE One("service") \notin K
    <3>1. Same(d, e, One("service"))
      BY <2>1 DEF Frame, Telling
    <3> QED BY <3>1 DEF Same, ServiceAgrees, Agrees
  <2> QED BY <2>1
<1>4. ListenerAgrees(e)
  <2>1. CASE One("listener") \notin K
    <3>1. Same(d, e, One("listener"))
      BY <2>1 DEF Frame, Telling
    <3> QED BY <3>1 DEF Same, ListenerAgrees, Agrees
  <2> QED BY <2>1
<1> QED
  BY <1>1, <1>2, <1>3, <1>4 DEF Agrees

(* The frames that touch no telling key. *)
LEMMA QuietAgrees ==
    ASSUME NEW d, NEW e, NEW P, Agrees(d), Frame(d, e, {}, P)
    PROVE  Agrees(e)
<1>1. /\ \A k \in {} \cap Sources : SourceAgrees(e, k)
      /\ \A k \in {} \cap FailKeys : FailAgrees(e, k)
      /\ One("service") \notin {} /\ One("listener") \notin {}
  OBVIOUS
<1> QED
  BY <1>1, FrameAgrees, Zenon

(* EventState.availability and its event keep the agreement of a source. *)
LEMMA AvailabilityAgrees ==
    ASSUME NEW d, NEW e, NEW k, SourceAgrees(d, k), NEW q \in {"available", "failed"},
           NEW ts \in Nat, e.state[k] = q,
           Availability(d.state[k], q) = None =>
                e.told[k] = d.told[k] /\ (k \in d.dropped => k \in e.dropped),
           Availability(d.state[k], q) # None =>
                /\ e.told[k] = [ts |-> ts, code |-> Availability(d.state[k], q)]
    PROVE  SourceAgrees(e, k)
<1> DEFINE code == Availability(d.state[k], q)
<1>1. CASE code = None
  <2>1. d.state[k] = q \/ (d.state[k] = None /\ q = "available")
    BY <1>1, NoneAssumption DEF Availability, Codes
  <2>2. None # "failed"
    BY NoneAssumption DEF Values
  <2> QED BY <1>1, <2>1, <2>2 DEF SourceAgrees
<1>2. CASE code # None
  <2>1. code \in {"metric_source_available", "metric_source_unavailable"}
        /\ (code = "metric_source_unavailable") = (q = "failed")
    BY <1>2 DEF Availability
  <2>2. [ts |-> ts, code |-> code] # None
    <3> HIDE DEF code
    <3> QED BY <2>1, EventIsThere DEF Codes
  <2>3. e.told[k] = [ts |-> ts, code |-> code]
    BY <1>2
  <2> HIDE DEF code
  <2>4. e.told[k].code = code /\ e.told[k] # None
    BY <2>2, <2>3
  <2> QED BY <2>1, <2>4 DEF SourceAgrees
<1> QED
  BY <1>1, <1>2

(* The same of an optional source. *)
LEMMA OptionalAgrees ==
    ASSUME NEW d, NEW e, NEW k, SourceAgrees(d, k),
           NEW q \in {"available", "failed", "unsupported"},
           NEW ts \in Nat, e.state[k] = q,
           OptionalAvailability(d.state[k], q) = None =>
                e.told[k] = d.told[k] /\ (k \in d.dropped => k \in e.dropped),
           OptionalAvailability(d.state[k], q) # None =>
                /\ e.told[k] = [ts |-> ts, code |-> OptionalAvailability(d.state[k], q)]
    PROVE  SourceAgrees(e, k)
<1> DEFINE code == OptionalAvailability(d.state[k], q)
<1>1. CASE code = None
  <2>1. d.state[k] = q \/ (d.state[k] = None /\ q = "available")
    BY <1>1, NoneAssumption DEF OptionalAvailability, Codes
  <2>2. None # "failed"
    BY NoneAssumption DEF Values
  <2> QED BY <1>1, <2>1, <2>2 DEF SourceAgrees
<1>2. CASE code # None
  <2>1. code \in {"metric_source_available", "metric_source_unavailable",
                  "optional_source_unsupported", "optional_source_available"}
        /\ (code = "metric_source_unavailable") = (q = "failed")
    BY <1>2 DEF OptionalAvailability
  <2>2. [ts |-> ts, code |-> code] # None
    <3> HIDE DEF code
    <3> QED BY <2>1, EventIsThere DEF Codes
  <2>3. e.told[k] = [ts |-> ts, code |-> code]
    BY <1>2
  <2> HIDE DEF code
  <2>4. e.told[k].code = code /\ e.told[k] # None
    BY <2>2, <2>3
  <2> QED BY <2>1, <2>4 DEF SourceAgrees
<1> QED
  BY <1>1, <1>2

-----------------------------------------------------------------------------
(* The parts of the transaction *)

(* Only telling keys count in a frame. *)
LEMMA FrameTelling ==
    ASSUME NEW d, NEW e, NEW K, NEW L, NEW P, Frame(d, e, K, P), K \cap Telling \subseteq L
    PROVE  Frame(d, e, L, P)
BY DEF Frame

(* The malformed env files and their event. *)
LEMMA EnvEventsAgree ==
    ASSUME NEW d, Shape(d), Agrees(d), NEW c, c.ts \in Nat
    PROVE  Frame(d, EnvEvents(d, c), {One("env")}, {}) /\ Agrees(EnvEvents(d, c))
<1> DEFINE k == One("env")
           b == [d EXCEPT !.rate = [n \in Series |-> None]]
           code == IF c.malformed /\ d.state[k] # "failed" THEN "env_parse_error"
                   ELSE IF ~c.malformed /\ d.state[k] = "failed" THEN "env_parse_recovered"
                   ELSE None
           v == IF c.malformed THEN "failed" ELSE "ok"
           e == EnvEvents(d, c)
<1>1. e = Keep(b, k, v, code, c.ts)
  BY Zenon DEF EnvEvents
<1>2. k \in Keys /\ k \in FailKeys /\ k \notin Sources /\ k # One("service") /\ k # One("listener")
  BY KeyFacts DEF FailKeys, Telling
<1>3. /\ DOMAIN b = DbFields /\ \A f \in DbFields \ {"rate"} : b[f] = d[f]
  BY DEF Shape, DbFields
<1>4. /\ b.state = d.state /\ b.told = d.told /\ b.dropped = d.dropped /\ b.cache = d.cache
      /\ b.pt = d.pt /\ b.attempt = d.attempt /\ b.cycle = d.cycle /\ b.member = d.member
  BY <1>3 DEF DbFields
<1>5. (code = None /\ (v = "failed") = (d.state[k] = "failed"))
      \/ (code \in Codes /\ (code \in FailureCodes) = (v = "failed"))
  <2> HIDE DEF k
  <2> QED BY DEF Codes, FailureCodes
<1> HIDE DEF k, b, code, v, e
<1>6. Shape(b) /\ Frame(d, b, {}, {})
  BY <1>3, <1>4 DEF Shape, Frame, Same
<1>7. /\ Frame(b, e, {k}, {})
      /\ e.state[k] = v
      /\ code = None => e.told[k] = b.told[k]
      /\ code # None => e.told[k] = [ts |-> c.ts, code |-> code]
  BY <1>1, <1>2, <1>6, KeepFrame
<1>8. Frame(d, e, {k}, {})
  BY <1>6, <1>7, FrameTrans
<1>9. FailAgrees(e, k)
  <2>1. FailAgrees(d, k)
    BY <1>2 DEF Agrees
  <2>2. CASE code = None /\ (v = "failed") = (d.state[k] = "failed")
    BY <1>4, <1>7, <2>1, <2>2 DEF FailAgrees
  <2>3. CASE code \in Codes /\ (code \in FailureCodes) = (v = "failed")
    <3>1. code # None /\ [ts |-> c.ts, code |-> code] # None
      BY <2>3, EventIsThere
    <3>2. e.told[k] # None /\ e.told[k].code = code
      BY <1>7, <3>1
    <3> QED BY <1>7, <2>3, <3>2 DEF FailAgrees
  <2> QED BY <1>5, <2>2, <2>3
<1>10. Agrees(e)
  BY <1>2, <1>8, <1>9, FrameAgrees
<1> QED
  BY <1>8, <1>10 DEF e, k

(* A part in a try without savepoint: what it lost is noted as dropped. *)
LEMMA GuardedAgrees ==
    ASSUME NEW d, NEW e, Shape(d), Agrees(d), Agrees(e), NEW K, NEW P, Frame(d, e, K, P),
           K \subseteq Sources, P \subseteq Points \ Caches, NEW part, NEW bad, NEW late \in BOOLEAN
    PROVE  /\ Frame(d, Guarded(d, e, part, bad, late), K, P)
           /\ Agrees(Guarded(d, e, part, bad, late))
<1> DEFINE g == Guarded(d, e, part, bad, late)
           lost == [e EXCEPT !.told = d.told, !.pt = d.pt, !.rate = d.rate,
                             !.reported = d.reported,
                             !.dropped = @ \cup {k \in Keys : e.told[k] # d.told[k]}]
<1>1. g = d \/ g = e \/ g = lost
  BY DEF Guarded
<1>2. Frame(d, lost, K, P) /\ Agrees(lost)
  <2>1. Shape(e)
    BY DEF Frame
  <2>2. /\ DOMAIN lost = DbFields
        /\ lost.told = d.told /\ lost.pt = d.pt
        /\ lost.dropped = e.dropped \cup {k \in Keys : e.told[k] # d.told[k]}
        /\ \A f \in DbFields \ {"told", "pt", "rate", "reported", "dropped"} : lost[f] = e[f]
    BY <2>1 DEF Shape, DbFields
  <2>3. /\ lost.state = e.state /\ lost.cache = e.cache /\ lost.attempt = e.attempt
        /\ lost.cycle = e.cycle /\ lost.member = e.member
    BY <2>2 DEF DbFields
  <2> HIDE DEF lost
  <2>4. Shape(lost)
    BY <2>1, <2>2, <2>3 DEF Shape
  <2>5. \A k \in Telling \ K : Same(d, lost, k)
    BY <2>2, <2>3 DEF Frame, Same
  <2>6. Frame(d, lost, K, P)
    BY <2>2, <2>3, <2>4, <2>5 DEF Frame
  <2>7. ASSUME NEW k \in K \cap Sources PROVE SourceAgrees(lost, k)
    <3>1. k \in Keys
      BY KeyFacts DEF Telling
    <3>2. SourceAgrees(e, k)
      BY DEF Agrees
    <3>3. CASE e.told[k] # d.told[k]
      BY <2>2, <3>1, <3>3 DEF SourceAgrees
    <3>4. CASE e.told[k] = d.told[k]
      BY <2>2, <2>3, <3>2, <3>4 DEF SourceAgrees
    <3> QED BY <3>3, <3>4
  <2>8. K \cap FailKeys = {} /\ One("service") \notin K /\ One("listener") \notin K
    BY KeyFacts
  <2> QED BY <2>6, <2>7, <2>8, FrameAgrees
<1>3. Frame(d, d, K, P)
  BY FrameRefl, FrameWeaken
<1> HIDE DEF g, lost
<1>4. Frame(d, g, K, P) /\ Agrees(g)
  BY <1>1, <1>2, <1>3
<1> QED
  BY <1>4 DEF g

(* _host_metrics *)
LEMMA HostPartAgrees ==
    ASSUME NEW d, Shape(d), Agrees(d), NEW c, NEW bad, NEW late \in BOOLEAN
    PROVE  /\ Frame(d, HostPart(d, c, bad, late), {}, {"cpu"})
           /\ Agrees(HostPart(d, c, bad, late))
<1> DEFINE b == IF c.samples = None THEN d ELSE CounterStep(d, c)
           e == HostMetrics(d, c)
<1>1. Frame(d, b, {}, {}) /\ Shape(b)
  BY FrameRefl, CounterStepFrame DEF Frame
<1>2. "cpu" \in Points /\ "cpu" \notin Caches
  BY KeyFacts DEF Points
<1> HIDE DEF b
<1>3. Frame(b, CpuPoint(b, c), {}, {"cpu"})
  BY <1>1, <1>2, PutFrame DEF CpuPoint
<1>4. Frame(d, CpuPoint(b, c), {}, {"cpu"})
  <2>1. Frame(d, CpuPoint(b, c), {} \cup {}, {} \cup {"cpu"})
    BY <1>1, <1>3, FrameTrans
  <2> QED BY <2>1, FrameWeaken
<1>5. e = d \/ e = CpuPoint(b, c)
  BY DEF HostMetrics, b
<1> HIDE DEF e
<1>6. Frame(d, e, {}, {"cpu"})
  BY <1>4, <1>5, FrameRefl, FrameWeaken
<1>7. Agrees(e)
  BY <1>6, QuietAgrees
<1> QED
  BY <1>2, <1>6, <1>7, GuardedAgrees DEF HostPart, e

(* _storage_metrics: the filesystem is a source with an event of its own. *)
LEMMA StoragePartAgrees ==
    ASSUME NEW d, Shape(d), Agrees(d), NEW c, c.ts \in Nat, NEW bad, NEW late \in BOOLEAN
    PROVE  /\ Frame(d, StoragePart(d, c, bad, late), {One("filesystem")}, {"filesystem"})
           /\ Agrees(StoragePart(d, c, bad, late))
<1> DEFINE k == One("filesystem")
           q == IF k \in bad THEN "failed" ELSE "available"
           code == Availability(d.state[k], q)
           b == Keep(d, k, q, code, c.ts)
           x == Point(c.ts, IF k \in bad THEN "unavailable" ELSE "exact", 0)
           f == FilesystemMetrics(d, c, bad)
           e == StorageMetrics(d, c, bad)
<1>1. k \in Sources /\ k \in Keys /\ k \notin FailKeys /\ k # One("service") /\ k # One("listener")
  <2>1. k \in Sources
    BY DEF Sources
  <2> QED BY <2>1, KeyFacts DEF Telling
<1>2. "filesystem" \in Points /\ "filesystem" \notin Caches
  BY KeyFacts DEF Points
<1>3. f = d \/ f = Put(b, "filesystem", x)
  BY Zenon DEF FilesystemMetrics
<1>4. q \in {"available", "failed"}
  OBVIOUS
<1> HIDE DEF k, q, x, f
<1>5. /\ Frame(d, b, {k}, {})
      /\ b.state[k] = q
      /\ code = None => b.told[k] = d.told[k] /\ b.dropped = d.dropped
      /\ code # None => b.told[k] = [ts |-> c.ts, code |-> code]
  BY <1>1, KeepFrame, SMTT(30)
<1>6. SourceAgrees(b, k)
  <2>1. SourceAgrees(d, k)
    BY <1>1 DEF Agrees
  <2> HIDE DEF b
  <2> QED BY <1>4, <1>5, <2>1, AvailabilityAgrees
<1> HIDE DEF b, code
<1>7. Agrees(b)
  BY <1>1, <1>5, <1>6, FrameAgrees
<1>8. Shape(b)
  BY <1>5 DEF Frame
<1>9. Frame(b, Put(b, "filesystem", x), {}, {"filesystem"})
  BY <1>2, <1>8, PutFrame
<1>10. Frame(d, f, {k}, {"filesystem"}) /\ Agrees(f)
  <2>1. Frame(d, Put(b, "filesystem", x), {k} \cup {}, {} \cup {"filesystem"})
    BY <1>5, <1>9, FrameTrans
  <2>2. Frame(d, Put(b, "filesystem", x), {k}, {"filesystem"})
    BY <2>1, FrameWeaken
  <2>3. Agrees(Put(b, "filesystem", x))
    BY <1>7, <1>9, QuietAgrees
  <2>4. Frame(d, d, {k}, {"filesystem"})
    BY FrameRefl, FrameWeaken
  <2> QED BY <1>3, <2>2, <2>3, <2>4
<1>11. Shape(f)
  BY <1>10 DEF Frame
<1>12. Frame(f, e, {}, {})
  BY <1>11, FrameRefl, CounterStepFrame DEF StorageMetrics, DiskCounters, f
<1> HIDE DEF e
<1>13. Frame(d, e, {k}, {"filesystem"})
  <2>1. Frame(d, e, {k} \cup {}, {"filesystem"} \cup {})
    BY <1>10, <1>12, FrameTrans
  <2> QED BY <2>1, FrameWeaken
<1>14. Agrees(e)
  BY <1>10, <1>12, QuietAgrees
<1>15. {k} \subseteq Sources /\ {"filesystem"} \subseteq Points \ Caches
  BY <1>1, <1>2
<1> QED
  BY <1>13, <1>14, <1>15, GuardedAgrees DEF StoragePart, e, k

(* _network_metrics *)
LEMMA NetworkPartAgrees ==
    ASSUME NEW d, Shape(d), Agrees(d), NEW c, NEW bad, NEW late \in BOOLEAN
    PROVE  /\ Frame(d, NetworkPart(d, c, bad, late), {}, {})
           /\ Agrees(NetworkPart(d, c, bad, late))
<1> DEFINE b == [d EXCEPT !.state = [k \in Keys |-> IF k \in {<<"reset", 1>>, <<"gap", 1>>}
                                             THEN "inactive" ELSE @[k]]]
           e == NetworkMetrics(d, c)
<1>1. Frame(d, b, {}, {})
  <2>1. /\ DOMAIN b = DbFields
        /\ b.state = [k \in Keys |-> IF k \in {<<"reset", 1>>, <<"gap", 1>>}
                                     THEN "inactive" ELSE d.state[k]]
        /\ \A f \in DbFields \ {"state"} : b[f] = d[f]
    BY DEF Shape, DbFields
  <2>2. /\ b.told = d.told /\ b.dropped = d.dropped /\ b.cache = d.cache
        /\ b.pt = d.pt /\ b.attempt = d.attempt /\ b.cycle = d.cycle /\ b.member = d.member
    BY <2>1 DEF DbFields
  <2>3. \A k \in Telling : k \in Keys /\ k \notin {<<"reset", 1>>, <<"gap", 1>>}
    <3>1. {<<"reset", 1>>, <<"gap", 1>>} \subseteq Edges
      BY DEF Edges, Names
    <3> QED BY <3>1, KeyFacts
  <2> HIDE DEF b
  <2>4. \A k \in Telling : Same(d, b, k)
    BY <2>1, <2>2, <2>3 DEF Same
  <2> QED BY <2>1, <2>2, <2>4 DEF Frame, Shape
<1>2. e = d \/ e = b \/ e = CounterStep(d, c)
  BY DEF NetworkMetrics
<1> HIDE DEF b, e
<1>3. Frame(d, e, {}, {})
  BY <1>1, <1>2, FrameRefl, CounterStepFrame
<1>4. Agrees(e)
  BY <1>3, QuietAgrees
<1> QED
  BY <1>3, <1>4, GuardedAgrees DEF NetworkPart, e

-----------------------------------------------------------------------------
(* The service and its caches *)

(* The point of a cached value: not touched, without estimate, measured at  *)
(* a refresh that was due and cached, or the cached value of this process.  *)
CacheStep(d, e, c, n) ==
    \/ e.cache[n] = d.cache[n] /\ e.pt[n] = d.pt[n]
    \/ e.cache[n] = d.cache[n] /\ e.pt[n].q # "estimated"
    \/ /\ c.due[Cadence[n]] /\ e.cache[n] = [of |-> c.pid, at |-> c.ts]
       /\ e.pt[n].ts = c.ts /\ e.pt[n].v = c.pid /\ e.pt[n].of = c.pid /\ e.pt[n].at = c.ts
    \/ /\ e.cache[n] = d.cache[n] /\ d.cache[n] # None /\ d.cache[n].of = c.pid
       /\ e.pt[n].ts = c.ts /\ e.pt[n].v = c.pid
       /\ e.pt[n].of = d.cache[n].of /\ e.pt[n].at = d.cache[n].at

(* What was not touched before or after makes no difference. *)
LEMMA CacheBefore ==
    ASSUME NEW a, NEW d, NEW e, NEW c, NEW n \in Caches, NEW K, NEW P,
           Frame(a, d, K, P), n \notin P, CacheStep(d, e, c, n)
    PROVE  CacheStep(a, e, c, n)
<1>1. d.cache[n] = a.cache[n] /\ d.pt[n] = a.pt[n]
  BY KeyFacts DEF Frame
<1> QED
  BY <1>1 DEF CacheStep

(* The same for what comes after. *)
LEMMA CacheAfter ==
    ASSUME NEW d, NEW e, NEW f, NEW c, NEW n \in Caches, NEW K, NEW P,
           CacheStep(d, e, c, n), Frame(e, f, K, P), n \notin P
    PROVE  CacheStep(d, f, c, n)
<1>1. f.cache[n] = e.cache[n] /\ f.pt[n] = e.pt[n]
  BY KeyFacts DEF Frame
<1> QED
  BY <1>1 DEF CacheStep

(* An operation that does not touch the cache. *)
LEMMA CacheFrame ==
    ASSUME NEW d, NEW e, NEW c, NEW n \in Caches, NEW K, NEW P, Frame(d, e, K, P), n \notin P
    PROVE  CacheStep(d, e, c, n)
BY KeyFacts DEF Frame, CacheStep

(* A value is cached. *)
LEMMA StoreFrame ==
    ASSUME NEW d, Shape(d), NEW n \in Caches, NEW c
    PROVE  /\ Frame(d, Store(d, n, c), {}, {n})
           /\ Store(d, n, c).cache[n] = [of |-> c.pid, at |-> c.ts]
<1> DEFINE e == Store(d, n, c)
<1>1. /\ DOMAIN e = DbFields
      /\ e.cache = [d.cache EXCEPT ![n] = [of |-> c.pid, at |-> c.ts]]
      /\ \A f \in DbFields \ {"cache"} : e[f] = d[f]
  BY DEF Store, Shape, DbFields
<1>2. /\ e.state = d.state /\ e.told = d.told /\ e.dropped = d.dropped
      /\ e.pt = d.pt /\ e.attempt = d.attempt /\ e.cycle = d.cycle /\ e.member = d.member
  BY <1>1 DEF DbFields
<1> HIDE DEF e
<1>3. Frame(d, e, {}, {n})
  BY <1>1, <1>2 DEF Frame, Shape, Same
<1>4. e.cache[n] = [of |-> c.pid, at |-> c.ts]
  BY <1>1 DEF Shape
<1> QED
  BY <1>3, <1>4 DEF e

(* A measured value, stored or not. *)
LEMMA MeasuredStep ==
    ASSUME NEW d, Shape(d), NEW n \in Caches, NEW c, NEW q
    PROVE  /\ Frame(d, Put(Store(d, n, c), n, Measured(c, q)), {}, {n})
           /\ c.due[Cadence[n]] => CacheStep(d, Put(Store(d, n, c), n, Measured(c, q)), c, n)
           /\ Frame(d, Put(d, n, Measured(c, q)), {}, {n})
           /\ q # "estimated" => CacheStep(d, Put(d, n, Measured(c, q)), c, n)
<1>1. n \in Points
  BY KeyFacts
<1> DEFINE b == Store(d, n, c)
           x == Measured(c, q)
<1>2. Frame(d, b, {}, {n}) /\ b.cache[n] = [of |-> c.pid, at |-> c.ts] /\ Shape(b)
  BY StoreFrame DEF Frame
<1>3. x.ts = c.ts /\ x.v = c.pid /\ x.of = c.pid /\ x.at = c.ts /\ x.q = q
  BY DEF Measured, Point
<1> HIDE DEF b, x
<1>4. Frame(b, Put(b, n, x), {}, {n}) /\ Put(b, n, x).pt[n] = x /\ Put(b, n, x).cache = b.cache
  BY <1>1, <1>2, PutFrame
<1>5. Frame(d, Put(b, n, x), {}, {n})
  <2>1. Frame(d, Put(b, n, x), {} \cup {}, {n} \cup {n})
    BY <1>2, <1>4, FrameTrans
  <2> QED BY <2>1, FrameWeaken
<1>6. c.due[Cadence[n]] => CacheStep(d, Put(b, n, x), c, n)
  BY <1>2, <1>3, <1>4 DEF CacheStep
<1>7. Frame(d, Put(d, n, x), {}, {n}) /\ Put(d, n, x).pt[n] = x /\ Put(d, n, x).cache = d.cache
  BY <1>1, PutFrame
<1>8. q # "estimated" => CacheStep(d, Put(d, n, x), c, n)
  BY <1>3, <1>7 DEF CacheStep
<1> QED
  BY <1>5, <1>6, <1>7, <1>8 DEF b, x

(* No value. *)
LEMMA UnavailableStep ==
    ASSUME NEW d, Shape(d), NEW n \in Caches, NEW c, NEW v
    PROVE  /\ Frame(d, Put(d, n, Point(c.ts, "unavailable", v)), {}, {n})
           /\ CacheStep(d, Put(d, n, Point(c.ts, "unavailable", v)), c, n)
<1>1. n \in Points
  BY KeyFacts
<1> DEFINE x == Point(c.ts, "unavailable", v)
<1>2. x.q # "estimated"
  BY DEF Point
<1> HIDE DEF x
<1>3. Frame(d, Put(d, n, x), {}, {n}) /\ Put(d, n, x).pt[n] = x /\ Put(d, n, x).cache = d.cache
  BY <1>1, PutFrame
<1>4. CacheStep(d, Put(d, n, x), c, n)
  BY <1>2, <1>3 DEF CacheStep
<1> QED
  BY <1>3, <1>4 DEF x

(* A cached value of the same process, or none. *)
LEMMA EstimatedStep ==
    ASSUME NEW d, Shape(d), NEW n \in Caches, NEW c
    PROVE  /\ Frame(d, Put(d, n, Estimated(d, n, c)), {}, {n})
           /\ CacheStep(d, Put(d, n, Estimated(d, n, c)), c, n)
<1>1. n \in Points
  BY KeyFacts
<1> DEFINE x == Estimated(d, n, c)
<1>2. \/ x.q # "estimated"
      \/ /\ d.cache[n] # None /\ d.cache[n].of = c.pid
         /\ x.ts = c.ts /\ x.v = c.pid /\ x.of = d.cache[n].of /\ x.at = d.cache[n].at
  BY DEF Estimated, Point
<1> HIDE DEF x
<1>3. Frame(d, Put(d, n, x), {}, {n}) /\ Put(d, n, x).pt[n] = x /\ Put(d, n, x).cache = d.cache
  BY <1>1, PutFrame
<1>4. CacheStep(d, Put(d, n, x), c, n)
  BY <1>2, <1>3 DEF CacheStep
<1> QED
  BY <1>3, <1>4 DEF x

(* Nothing changes. *)
LEMMA StayStep ==
    ASSUME NEW d, Shape(d), NEW n \in Caches, NEW c
    PROVE  Frame(d, d, {}, {n}) /\ CacheStep(d, d, c, n)
BY FrameRefl, FrameWeaken DEF CacheStep

(* _process_slow_values *)
LEMMA SlowValuesStep ==
    ASSUME NEW d, Shape(d), NEW c
    PROVE  /\ Frame(d, SlowValues(d, c), {}, {"slow"})
           /\ CacheStep(d, SlowValues(d, c), c, "slow")
<1> DEFINE q == IF Authoritative(c) THEN "exact" ELSE "estimated"
<1>1. "slow" \in Caches /\ Cadence["slow"] = "slow"
  BY KeyFacts DEF Cadence
<1>2. \/ SlowValues(d, c) = Put(d, "slow", Point(c.ts, "unavailable", c.pid))
      \/ SlowValues(d, c) = Put(d, "slow", Estimated(d, "slow", c))
      \/ /\ c.due["slow"]
         /\ SlowValues(d, c) = Put(Store(d, "slow", c), "slow", Measured(c, q))
  BY DEF SlowValues
<1> HIDE DEF q
<1> QED
  BY <1>1, <1>2, UnavailableStep, EstimatedStep, MeasuredStep

(* _cgroup_memory_values *)
LEMMA MemoryValuesStep ==
    ASSUME NEW d, Shape(d), NEW c
    PROVE  /\ Frame(d, MemoryValues(d, c), {}, {"memory"})
           /\ CacheStep(d, MemoryValues(d, c), c, "memory")
<1>1. "memory" \in Caches /\ Cadence["memory"] = "slow"
  BY KeyFacts DEF Cadence
<1>2. \/ MemoryValues(d, c) = d
      \/ MemoryValues(d, c) = Put(d, "memory", Estimated(d, "memory", c))
      \/ /\ c.due["slow"]
         /\ \/ MemoryValues(d, c) = Put(Store(d, "memory", c), "memory", Measured(c, "exact"))
            \/ MemoryValues(d, c) = Put(d, "memory", Measured(c, "exact"))
  BY DEF MemoryValues
<1>3. "exact" # "estimated"
  OBVIOUS
<1> QED
  BY <1>1, <1>2, <1>3, StayStep, EstimatedStep, MeasuredStep

(* _service_socket_metrics *)
LEMMA SocketMetricsStep ==
    ASSUME NEW d, Shape(d), NEW c
    PROVE  /\ Frame(d, SocketMetrics(d, c), {}, {"sockets"})
           /\ CacheStep(d, SocketMetrics(d, c), c, "sockets")
<1>1. "sockets" \in Caches /\ Cadence["sockets"] = "sockets"
  BY KeyFacts DEF Cadence
<1>2. \/ SocketMetrics(d, c) = Put(d, "sockets", Point(c.ts, "unavailable", c.pid))
      \/ SocketMetrics(d, c) = Put(d, "sockets", Estimated(d, "sockets", c))
      \/ /\ c.due["sockets"]
         /\ \/ SocketMetrics(d, c) = Put(Store(d, "sockets", c), "sockets", Measured(c, "exact"))
            \/ SocketMetrics(d, c) = Put(d, "sockets", Measured(c, "exact"))
  BY DEF SocketMetrics
<1>3. "exact" # "estimated"
  OBVIOUS
<1> QED
  BY <1>1, <1>2, <1>3, UnavailableStep, EstimatedStep, MeasuredStep

(* _tunnel_remote_socket_metric *)
LEMMA RemoteSocketsStep ==
    ASSUME NEW d, Shape(d), NEW c, NEW props
    PROVE  /\ Frame(d, RemoteSockets(d, c, props), {}, {"remote"})
           /\ CacheStep(d, RemoteSockets(d, c, props), c, "remote")
<1>1. "remote" \in Caches /\ Cadence["remote"] = "sockets"
  BY KeyFacts DEF Cadence
<1>2. \/ RemoteSockets(d, c, props) = Put(d, "remote", Point(c.ts, "unavailable", c.pid))
      \/ RemoteSockets(d, c, props) = Put(d, "remote", Estimated(d, "remote", c))
      \/ /\ c.due["sockets"]
         /\ \/ RemoteSockets(d, c, props) = Put(Store(d, "remote", c), "remote", Measured(c, "exact"))
            \/ RemoteSockets(d, c, props) = Put(d, "remote", Measured(c, "exact"))
  BY DEF RemoteSockets
<1>3. "exact" # "estimated"
  OBVIOUS
<1> QED
  BY <1>1, <1>2, <1>3, UnavailableStep, EstimatedStep, MeasuredStep

(* The service's state: an event when it is another one than the last saved. *)
LEMMA ServiceStateAgrees ==
    ASSUME NEW d, Shape(d), Agrees(d), NEW c, c.ts \in Nat
    PROVE  /\ Frame(d, ServiceState(d, c), {One("service")}, {"service_active"})
           /\ Agrees(ServiceState(d, c))
<1> DEFINE k == One("service")
           active == IF c.pid = 0 THEN "service_inactive" ELSE "service_active"
           code == ValueTransition(d.state[k], active, active)
           x == Point(c.ts, "exact", Flag(c.pid # 0))
           b == Put(d, "service_active", x)
           e == ServiceState(d, c)
<1>1. e = Keep(b, k, active, code, c.ts)
  BY Zenon DEF ServiceState
<1>2. k \in Keys /\ k \notin Sources /\ k \notin FailKeys /\ k # One("listener")
  BY KeyFacts DEF Telling
<1>3. "service_active" \in Points
  BY DEF Points
<1>4. active \in Codes /\ active \in Values
  BY DEF Codes, Values
<1> HIDE DEF active, x, k
<1>5. Frame(d, b, {}, {"service_active"}) /\ Shape(b)
  BY <1>3, PutFrame DEF Frame
<1>6. b.told[k] = d.told[k] /\ b.state[k] = d.state[k]
  <2>1. k \in Telling
    BY DEF Telling, k
  <2> QED BY <1>5, <2>1 DEF Frame, Same
<1> HIDE DEF b, e
<1>7. /\ Frame(b, e, {k}, {})
      /\ e.state[k] = active
      /\ code = None => e.told[k] = b.told[k]
      /\ code # None => e.told[k] = [ts |-> c.ts, code |-> code]
  BY <1>1, <1>2, <1>5, KeepFrame
<1>8. Frame(d, e, {k}, {"service_active"})
  <2>1. Frame(d, e, {} \cup {k}, {"service_active"} \cup {})
    BY <1>5, <1>7, FrameTrans
  <2> QED BY <2>1, FrameWeaken
<1>9. e.told[k] # None => e.told[k].code = e.state[k]
  <2>1. d.told[k] # None => d.told[k].code = d.state[k] /\ d.state[k] # None
    BY DEF Agrees, ServiceAgrees, k
  <2>2. CASE code = None
    <3>1. d.state[k] = active \/ d.state[k] = None
      BY <1>4, <2>2, NoneAssumption DEF ValueTransition
    <3> QED BY <1>6, <1>7, <2>1, <2>2, <3>1
  <2>3. CASE code # None
    <3>1. code = active
      BY <2>3 DEF ValueTransition
    <3> QED BY <1>7, <2>3, <3>1
  <2> QED BY <2>2, <2>3
<1>10. e.state[k] # None
  BY <1>4, <1>7, NoneAssumption
<1>11. ServiceAgrees(e)
  BY <1>9, <1>10 DEF ServiceAgrees, k
<1>12. Agrees(e)
  BY <1>2, <1>8, <1>11, FrameAgrees
<1> QED
  BY <1>8, <1>12 DEF e, k

(* The identity of the processes has an event of its own, which tells no state. *)
LEMMA PidIdentityFrame ==
    ASSUME NEW d, Shape(d), NEW c
    PROVE  Frame(d, PidIdentity(d, c), {}, {})
<1> DEFINE k == One("pid")
           code == ValueTransition(d.pid, c.pid, "pid_replaced")
           b == Keep(d, k, "known", code, c.ts)
           e == [b EXCEPT !.pid = c.pid]
<1>1. PidIdentity(d, c) = d \/ PidIdentity(d, c) = e
  BY Zenon DEF PidIdentity
<1>2. k \in Keys /\ k \notin Telling
  <2>1. k \in Keys
    BY DEF Keys, Families
  <2>2. k[1] = "pid"
    BY DEF One
  <2>3. \A j \in Telling : j[1] # "pid"
    BY TellingNames
  <2> QED BY <2>1, <2>2, <2>3
<1> HIDE DEF k, code
<1>3. Frame(d, b, {k}, {})
  BY <1>2, KeepFrame
<1> HIDE DEF b
<1>4. Frame(d, b, {}, {})
  BY <1>2, <1>3, FrameTelling
<1>5. Shape(b)
  BY <1>4 DEF Frame
<1>6. /\ DOMAIN e = DbFields /\ \A f \in DbFields \ {"pid"} : e[f] = b[f]
  BY <1>5 DEF Shape, DbFields
<1>7. /\ e.state = b.state /\ e.told = b.told /\ e.dropped = b.dropped /\ e.cache = b.cache
      /\ e.pt = b.pt /\ e.attempt = b.attempt /\ e.cycle = b.cycle /\ e.member = b.member
  BY <1>6 DEF DbFields
<1> HIDE DEF e
<1>8. Frame(d, e, {}, {})
  BY <1>4, <1>5, <1>6, <1>7 DEF Frame, Shape, Same
<1> QED
  BY <1>1, <1>8, FrameRefl

(* The metrics of the processes, and their counters. *)
LEMMA ProcessMetricsFrame ==
    ASSUME NEW d, Shape(d), NEW c
    PROVE  Frame(d, ProcessMetrics(d, c), {}, {"process"})
<1> DEFINE b == IF kind = "process" /\ c.samples # None THEN CounterStep(d, c) ELSE d
           x == Point(c.ts, IF ~Sampled(c) THEN "unavailable"
                            ELSE IF Authoritative(c) THEN "exact" ELSE "estimated", 0)
<1>1. ProcessMetrics(d, c) = Put(b, "process", x)
  BY Zenon DEF ProcessMetrics
<1>2. Frame(d, b, {}, {}) /\ Shape(b)
  BY FrameRefl, CounterStepFrame DEF Frame
<1> HIDE DEF b, x
<1>3. Frame(b, Put(b, "process", x), {}, {"process"})
  BY <1>2, PutFrame DEF Points
<1>4. Frame(d, Put(b, "process", x), {} \cup {}, {} \cup {"process"})
  BY <1>2, <1>3, FrameTrans
<1> QED
  BY <1>1, <1>4, FrameWeaken

(* listener_owned_count *)
LEMMA ListenerCountFrame ==
    ASSUME NEW d, Shape(d), NEW c
    PROVE  Frame(d, ListenerCount(d, c), {}, {"listener"})
BY PutFrame DEF ListenerCount, Points

(* Points that are overwritten with "unavailable", the caches kept. *)
LEMMA OverwriteStep ==
    ASSUME NEW d, Shape(d), NEW c, NEW P, NEW e,
           e = [d EXCEPT !.pt = [p \in Points |-> IF p \in P
                                  THEN Point(c.ts, "unavailable", c.pid) ELSE @[p]]]
    PROVE  /\ Frame(d, e, {}, P)
           /\ \A n \in Caches : CacheStep(d, e, c, n)
           /\ \A p \in Points \cap P : e.pt[p] = Point(c.ts, "unavailable", c.pid)
<1>1. /\ DOMAIN e = DbFields
      /\ e.pt = [p \in Points |-> IF p \in P THEN Point(c.ts, "unavailable", c.pid) ELSE d.pt[p]]
      /\ \A f \in DbFields \ {"pt"} : e[f] = d[f]
  BY DEF Shape, DbFields
<1>2. /\ e.state = d.state /\ e.told = d.told /\ e.dropped = d.dropped /\ e.cache = d.cache
      /\ e.attempt = d.attempt /\ e.cycle = d.cycle /\ e.member = d.member
  BY <1>1 DEF DbFields
<1>3. Frame(d, e, {}, P)
  BY <1>1, <1>2 DEF Frame, Shape, Same
<1>4. \A p \in Points \cap P : e.pt[p] = Point(c.ts, "unavailable", c.pid)
  BY <1>1
<1>5. Point(c.ts, "unavailable", c.pid).q # "estimated"
  BY DEF Point
<1>6. ASSUME NEW n \in Caches PROVE CacheStep(d, e, c, n)
  <2>1. n \in Points
    BY KeyFacts
  <2>2. CASE n \in P
    BY <1>2, <1>4, <1>5, <2>1, <2>2 DEF CacheStep
  <2>3. CASE n \notin P
    BY <1>1, <1>2, <2>1, <2>3 DEF CacheStep
  <2> QED BY <2>2, <2>3
<1> QED
  BY <1>3, <1>4, <1>6

(* The points of the service. *)
ServicePoints == {"service_active", "process", "listener", "slow", "memory", "sockets"}

(* The loop over services, inside its savepoint. *)
LEMMA ServiceMetricsAgree ==
    ASSUME NEW d, Shape(d), Agrees(d), NEW c, c.ts \in Nat
    PROVE  /\ Frame(d, ServiceMetrics(d, c), {One("service")}, ServicePoints)
           /\ Agrees(ServiceMetrics(d, c))
           /\ \A n \in Caches : CacheStep(d, ServiceMetrics(d, c), c, n)
<1> DEFINE k == One("service")
           d1 == ServiceState(d, c)
           d2 == PidIdentity(d1, c)
           d3 == ProcessMetrics(d2, c)
           d4 == SlowValues(d3, c)
           d5 == MemoryValues(d4, c)
           d6 == ListenerCount(d5, c)
           d7 == SocketMetrics(d6, c)
<1>1. ServiceMetrics(d, c) = ServiceUnavailable(d, c) \/ ServiceMetrics(d, c) = d7
  BY Zenon DEF ServiceMetrics
<1>2. CASE ServiceMetrics(d, c) = ServiceUnavailable(d, c)
  <2> DEFINE e == ServiceUnavailable(d, c)
  <2>1. e = [d EXCEPT !.pt = [p \in Points |-> IF p \in ServicePoints
                                  THEN Point(c.ts, "unavailable", c.pid) ELSE @[p]]]
    BY Zenon DEF ServiceUnavailable, ServicePoints
  <2> HIDE DEF e
  <2>2. Frame(d, e, {}, ServicePoints) /\ \A n \in Caches : CacheStep(d, e, c, n)
    BY <2>1, OverwriteStep
  <2>3. Agrees(e) /\ Frame(d, e, {k}, ServicePoints)
    BY <2>2, QuietAgrees, FrameWeaken
  <2> QED BY <1>2, <2>2, <2>3 DEF e
<1>3. CASE ServiceMetrics(d, c) = d7
  <2>1. Frame(d, d1, {k}, {"service_active"}) /\ Agrees(d1) /\ Shape(d1)
    BY ServiceStateAgrees DEF Frame
  <2> HIDE DEF d1
  <2>2. Frame(d1, d2, {}, {}) /\ Shape(d2)
    BY <2>1, PidIdentityFrame DEF Frame
  <2> HIDE DEF d2
  <2>3. Frame(d2, d3, {}, {"process"}) /\ Shape(d3)
    BY <2>2, ProcessMetricsFrame DEF Frame
  <2> HIDE DEF d3
  <2>4. Frame(d3, d4, {}, {"slow"}) /\ Shape(d4) /\ CacheStep(d3, d4, c, "slow")
    BY <2>3, SlowValuesStep DEF Frame
  <2> HIDE DEF d4
  <2>5. Frame(d4, d5, {}, {"memory"}) /\ Shape(d5) /\ CacheStep(d4, d5, c, "memory")
    BY <2>4, MemoryValuesStep DEF Frame
  <2> HIDE DEF d5
  <2>6. Frame(d5, d6, {}, {"listener"}) /\ Shape(d6)
    BY <2>5, ListenerCountFrame DEF Frame
  <2> HIDE DEF d6
  <2>7. Frame(d6, d7, {}, {"sockets"}) /\ Shape(d7) /\ CacheStep(d6, d7, c, "sockets")
    BY <2>6, SocketMetricsStep DEF Frame
  <2> HIDE DEF d7, k
  <2>8. Frame(d, d2, {k}, {"service_active"})
    <3>1. Frame(d, d2, {k} \cup {}, {"service_active"} \cup {})
      BY <2>1, <2>2, FrameTrans
    <3> QED BY <3>1, FrameWeaken
  <2>9. Frame(d, d3, {k}, {"service_active", "process"})
    <3>1. Frame(d, d3, {k} \cup {}, {"service_active"} \cup {"process"})
      BY <2>8, <2>3, FrameTrans
    <3> QED BY <3>1, FrameWeaken
  <2>10. Frame(d, d4, {k}, {"service_active", "process", "slow"})
    <3>1. Frame(d, d4, {k} \cup {}, {"service_active", "process"} \cup {"slow"})
      BY <2>9, <2>4, FrameTrans
    <3> QED BY <3>1, FrameWeaken
  <2>11. Frame(d, d6, {k}, {"service_active", "process", "slow", "memory", "listener"})
    <3>1. Frame(d4, d6, {} \cup {}, {"memory"} \cup {"listener"})
      BY <2>5, <2>6, FrameTrans
    <3>2. Frame(d, d6, {k} \cup ({} \cup {}), {"service_active", "process", "slow"}
                                              \cup ({"memory"} \cup {"listener"}))
      BY <2>10, <3>1, FrameTrans
    <3> QED BY <3>2, FrameWeaken
  <2>12. Frame(d5, d7, {}, {"listener", "sockets"})
    <3>1. Frame(d5, d7, {} \cup {}, {"listener"} \cup {"sockets"})
      BY <2>6, <2>7, FrameTrans
    <3> QED BY <3>1, FrameWeaken
  <2>13. Frame(d4, d7, {}, {"memory", "listener", "sockets"})
    <3>1. Frame(d4, d7, {} \cup {}, {"memory"} \cup {"listener", "sockets"})
      BY <2>5, <2>12, FrameTrans
    <3> QED BY <3>1, FrameWeaken
  <2>15. Frame(d, d7, {k}, ServicePoints)
    <3>1. Frame(d, d7, {k} \cup {}, {"service_active", "process", "slow", "memory", "listener"}
                                    \cup {"sockets"})
      BY <2>11, <2>7, FrameTrans
    <3> QED BY <3>1, FrameWeaken DEF ServicePoints
  <2>16. CacheStep(d, d7, c, "slow")
    <3>1. /\ "slow" \in Caches /\ "slow" \notin {"service_active", "process"}
          /\ "slow" \notin {"memory", "listener", "sockets"}
      BY KeyFacts
    <3>2. CacheStep(d, d4, c, "slow")
      BY <2>9, <2>4, <3>1, CacheBefore
    <3> QED BY <2>13, <3>1, <3>2, CacheAfter
  <2>17. CacheStep(d, d7, c, "memory")
    <3>1. /\ "memory" \in Caches /\ "memory" \notin {"service_active", "process", "slow"}
          /\ "memory" \notin {"listener", "sockets"}
      BY KeyFacts
    <3>2. CacheStep(d, d5, c, "memory")
      BY <2>10, <2>5, <3>1, CacheBefore
    <3> QED BY <2>12, <3>1, <3>2, CacheAfter
  <2>18. CacheStep(d, d7, c, "sockets")
    <3>1. /\ "sockets" \in Caches
          /\ "sockets" \notin {"service_active", "process", "slow", "memory", "listener"}
      BY KeyFacts
    <3> QED BY <2>11, <2>7, <3>1, CacheBefore
  <2>19. CacheStep(d, d7, c, "remote")
    BY <2>15, CacheFrame, KeyFacts DEF ServicePoints
  <2>20. Agrees(d7)
    <3>1. Frame(d1, d3, {} \cup {}, {} \cup {"process"})
      BY <2>2, <2>3, FrameTrans
    <3>2. Frame(d1, d4, ({} \cup {}) \cup {}, ({} \cup {"process"}) \cup {"slow"})
      BY <2>4, <3>1, FrameTrans
    <3>3. Frame(d1, d7, (({} \cup {}) \cup {}) \cup {},
                        (({} \cup {"process"}) \cup {"slow"}) \cup {"memory", "listener", "sockets"})
      BY <2>13, <3>2, FrameTrans
    <3>4. Frame(d1, d7, {}, ServicePoints)
      BY <3>3, FrameWeaken DEF ServicePoints
    <3> QED BY <2>1, <3>4, QuietAgrees
  <2>21. \A n \in Caches : CacheStep(d, d7, c, n)
    BY <2>16, <2>17, <2>18, <2>19, KeyFacts
  <2> QED BY <1>3, <2>15, <2>20, <2>21 DEF k
<1> QED
  BY <1>1, <1>2, <1>3

(* The service's part, behind its savepoint. *)
LEMMA ServicePartAgrees ==
    ASSUME NEW d, Shape(d), Agrees(d), NEW c, c.ts \in Nat, NEW bad
    PROVE  /\ Frame(d, ServicePart(d, c, bad), {One("service")}, ServicePoints)
           /\ Agrees(ServicePart(d, c, bad))
           /\ \A n \in Caches : CacheStep(d, ServicePart(d, c, bad), c, n)
<1> DEFINE e == ServiceUnavailable(d, c)
<1>1. e = [d EXCEPT !.pt = [p \in Points |-> IF p \in ServicePoints
                                THEN Point(c.ts, "unavailable", c.pid) ELSE @[p]]]
  BY Zenon DEF ServiceUnavailable, ServicePoints
<1>2. ServicePart(d, c, bad) = e \/ ServicePart(d, c, bad) = ServiceMetrics(d, c)
  BY Zenon DEF ServicePart
<1> HIDE DEF e
<1>3. Frame(d, e, {}, ServicePoints) /\ \A n \in Caches : CacheStep(d, e, c, n)
  BY <1>1, OverwriteStep
<1>4. Agrees(e) /\ Frame(d, e, {One("service")}, ServicePoints)
  BY <1>3, QuietAgrees, FrameWeaken
<1> QED
  BY <1>2, <1>3, <1>4, ServiceMetricsAgree

-----------------------------------------------------------------------------
(* The tunnel *)

(* The points of the tunnel. *)
TunnelKeys == {"tunnel_active", "ownership", "remote"}

(* The points of the tunnel: both are of this cycle and say what it read, or    *)
(* there is no tunnel and they stay.                                            *)
TunnelStep(d, e, c) ==
    \/ /\ ~Discovered(c)
       /\ e.pt["tunnel_active"] = d.pt["tunnel_active"] /\ e.pt["ownership"] = d.pt["ownership"]
    \/ /\ e.pt["tunnel_active"].ts = c.ts /\ e.pt["ownership"].ts = c.ts
       /\ e.pt["tunnel_active"].q # "unavailable" =>
             e.pt["tunnel_active"].v = Flag(c.pid # 0)
       /\ e.pt["ownership"].q # "unavailable" =>
             c.pid # 0 /\ e.pt["ownership"].v = Flag(c.owner = c.pid)

(* The state of the listener and its event. *)
LEMMA ListenerStateAgrees ==
    ASSUME NEW d, Shape(d), Agrees(d), NEW o, o.ts \in Nat
    PROVE  /\ Frame(d, ListenerState(d, o), {One("listener")}, {})
           /\ Agrees(ListenerState(d, o))
<1> DEFINE k == One("listener")
           found == IF o.v = 1 THEN "ok" ELSE "missing"
           told == IF found = "ok" THEN "listener_returned" ELSE "listener_disappeared"
           code == ValueTransition(d.state[k], found, told)
           b == Keep(d, k, found, code, o.ts)
           e == ListenerState(d, o)
<1>1. e = d \/ e = b
  BY Zenon DEF ListenerState
<1>2. k \in Keys /\ k \notin Sources /\ k \notin FailKeys /\ k # One("service")
  BY KeyFacts DEF Telling
<1>3. /\ told \in Codes /\ found \in Values
      /\ (told = "listener_returned") = (found = "ok")
  BY DEF Codes, Values
<1> HIDE DEF k, found, told, e
<1>4. /\ Frame(d, b, {k}, {})
      /\ b.state[k] = found
      /\ code = None => b.told[k] = d.told[k]
      /\ code # None => b.told[k] = [ts |-> o.ts, code |-> code]
  BY <1>2, KeepFrame
<1> HIDE DEF b
<1>5. b.told[k] # None => (b.told[k].code = "listener_returned") = (b.state[k] = "ok")
  <2>1. d.told[k] # None => /\ (d.told[k].code = "listener_returned") = (d.state[k] = "ok")
                            /\ d.state[k] # None
    BY DEF Agrees, ListenerAgrees, k
  <2>2. CASE code = None
    <3>1. d.state[k] = found \/ d.state[k] = None
      BY <1>3, <2>2, NoneAssumption DEF ValueTransition
    <3> QED BY <1>4, <2>1, <2>2, <3>1
  <2>3. CASE code # None
    <3>1. code = told
      BY <2>3 DEF ValueTransition
    <3> QED BY <1>3, <1>4, <2>3, <3>1
  <2> QED BY <2>2, <2>3
<1>6. b.state[k] # None
  BY <1>3, <1>4, NoneAssumption
<1>7. ListenerAgrees(b)
  BY <1>5, <1>6 DEF ListenerAgrees, k
<1>8. Agrees(b)
  BY <1>2, <1>4, <1>7, FrameAgrees
<1>9. Frame(d, d, {k}, {})
  BY FrameRefl, FrameWeaken
<1>10. Frame(d, e, {k}, {}) /\ Agrees(e)
  BY <1>1, <1>4, <1>8, <1>9
<1> QED
  BY <1>10 DEF e, k

(* What the points of a tunnel with its properties, or without them, say. *)
LEMMA OwnershipPoint ==
    ASSUME NEW c, NEW props \in BOOLEAN
    PROVE  /\ Ownership(c, props).ts = c.ts
           /\ Ownership(c, props).q # "unavailable" =>
                 c.pid # 0 /\ Ownership(c, props).v = Flag(c.owner = c.pid)
<1>1. CASE props /\ Authoritative(c) /\ Available(c, One("ss_listeners"))
  <2>1. Ownership(c, props) = Point(c.ts, "exact", Flag(c.owner = c.pid))
    BY <1>1 DEF Ownership
  <2>2. c.pid # 0
    BY <1>1 DEF Authoritative
  <2> QED BY <2>1, <2>2 DEF Point
<1>2. CASE ~(props /\ Authoritative(c) /\ Available(c, One("ss_listeners")))
  <2>1. Ownership(c, props) = Point(c.ts, "unavailable", 0)
    BY <1>2 DEF Ownership
  <2> QED BY <2>1 DEF Point
<1> QED
  BY <1>1, <1>2

(* The loop over tunnels. *)
LEMMA TunnelMetricsAgree ==
    ASSUME NEW d, Shape(d), Agrees(d), NEW c, c.ts \in Nat, NEW props \in BOOLEAN
    PROVE  /\ Frame(d, TunnelMetrics(d, c, props), {One("listener")}, TunnelKeys)
           /\ Agrees(TunnelMetrics(d, c, props))
           /\ \A n \in Caches : CacheStep(d, TunnelMetrics(d, c, props), c, n)
           /\ TunnelStep(d, TunnelMetrics(d, c, props), c)
<1> DEFINE k == One("listener")
           active == Point(c.ts, IF props THEN "exact" ELSE "unavailable", Flag(c.pid # 0))
           own == Ownership(c, props)
           d1 == Put(d, "tunnel_active", active)
           d2 == Put(d1, "ownership", own)
           d3 == RemoteSockets(d2, c, props)
           d4 == ListenerState(d3, own)
           e == TunnelMetrics(d, c, props)
<1>1. \/ e = d /\ ~Discovered(c)
      \/ e = d4
  BY Zenon DEF TunnelMetrics
<1>2. /\ active.ts = c.ts
      /\ active.q # "unavailable" => active.v = Flag(c.pid # 0)
  BY DEF Point
<1>3. /\ own.ts = c.ts
      /\ own.q # "unavailable" => c.pid # 0 /\ own.v = Flag(c.owner = c.pid)
  BY OwnershipPoint
<1>4. /\ "tunnel_active" \in Points /\ "ownership" \in Points /\ "remote" \in Caches
      /\ "tunnel_active" \notin Caches /\ "ownership" \notin Caches
  BY KeyFacts DEF Points
<1> HIDE DEF active, own, e
<1>5. Frame(d, d1, {}, {"tunnel_active"}) /\ Shape(d1) /\ d1.pt["tunnel_active"] = active
  BY <1>4, PutFrame DEF Frame
<1> HIDE DEF d1
<1>6. Frame(d1, d2, {}, {"ownership"}) /\ Shape(d2) /\ d2.pt["ownership"] = own
  BY <1>4, <1>5, PutFrame DEF Frame
<1> HIDE DEF d2
<1>7. Frame(d2, d3, {}, {"remote"}) /\ Shape(d3) /\ CacheStep(d2, d3, c, "remote")
  BY <1>6, RemoteSocketsStep DEF Frame
<1> HIDE DEF d3
<1>8. Frame(d, d2, {}, {"tunnel_active", "ownership"})
  <2>1. Frame(d, d2, {} \cup {}, {"tunnel_active"} \cup {"ownership"})
    BY <1>5, <1>6, FrameTrans
  <2> QED BY <2>1, FrameWeaken
<1>9. Frame(d, d3, {}, TunnelKeys)
  <2>1. Frame(d, d3, {} \cup {}, {"tunnel_active", "ownership"} \cup {"remote"})
    BY <1>7, <1>8, FrameTrans
  <2> QED BY <2>1, FrameWeaken DEF TunnelKeys
<1>10. Agrees(d3)
  BY <1>9, QuietAgrees
<1>11. Frame(d3, d4, {k}, {}) /\ Agrees(d4)
  BY <1>3, <1>7, <1>10, ListenerStateAgrees
<1> HIDE DEF d4, k
<1>12. Frame(d, d4, {k}, TunnelKeys)
  <2>1. Frame(d, d4, {} \cup {k}, TunnelKeys \cup {})
    BY <1>9, <1>11, FrameTrans
  <2> QED BY <2>1, FrameWeaken
<1>13. CacheStep(d, d4, c, "remote")
  <2>1. "remote" \notin {"tunnel_active", "ownership"}
    OBVIOUS
  <2>2. CacheStep(d, d3, c, "remote")
    BY <1>4, <1>7, <1>8, <2>1, CacheBefore
  <2> QED BY <1>4, <1>11, <2>2, CacheAfter
<1>14. \A n \in Caches : CacheStep(d, d4, c, n)
  <2>1. \A n \in Caches : n = "remote" \/ n \notin TunnelKeys
    BY KeyFacts DEF TunnelKeys
  <2> QED BY <1>12, <1>13, <2>1, CacheFrame
<1>15. d4.pt["tunnel_active"] = active /\ d4.pt["ownership"] = own
  <2>1. d2.pt["tunnel_active"] = active
    BY <1>4, <1>5, <1>6 DEF Frame
  <2>2. d3.pt["tunnel_active"] = active /\ d3.pt["ownership"] = own
    BY <1>4, <1>6, <1>7, <2>1 DEF Frame
  <2> QED BY <1>4, <1>11, <2>2 DEF Frame
<1>16. TunnelStep(d, d4, c)
  BY <1>2, <1>3, <1>15 DEF TunnelStep
<1>17. /\ Frame(d, d, {k}, TunnelKeys)
       /\ \A n \in Caches : CacheStep(d, d, c, n)
       /\ ~Discovered(c) => TunnelStep(d, d, c)
  BY FrameRefl, FrameWeaken DEF CacheStep, TunnelStep
<1>18. /\ Frame(d, e, {k}, TunnelKeys) /\ Agrees(e) /\ TunnelStep(d, e, c)
       /\ \A n \in Caches : CacheStep(d, e, c, n)
  BY <1>1, <1>11, <1>12, <1>14, <1>16, <1>17
<1> QED
  BY <1>18 DEF e, k

(* The tunnel's part, behind its savepoint. *)
LEMMA TunnelPartAgrees ==
    ASSUME NEW d, Shape(d), Agrees(d), NEW c, c.ts \in Nat, NEW bad
    PROVE  /\ Frame(d, TunnelPart(d, c, bad), {One("listener")}, TunnelKeys)
           /\ Agrees(TunnelPart(d, c, bad))
           /\ \A n \in Caches : CacheStep(d, TunnelPart(d, c, bad), c, n)
           /\ TunnelStep(d, TunnelPart(d, c, bad), c)
<1> DEFINE e == TunnelUnavailable(d, c)
           props == One("service_processing") \notin bad /\ Available(c, One("systemd"))
<1>1. e = [d EXCEPT !.pt = [p \in Points |-> IF p \in TunnelKeys
                                THEN Point(c.ts, "unavailable", c.pid) ELSE @[p]]]
  BY Zenon DEF TunnelUnavailable, TunnelKeys
<1>2. TunnelPart(d, c, bad) = e \/ TunnelPart(d, c, bad) = TunnelMetrics(d, c, props)
  BY Zenon DEF TunnelPart
<1>3. props \in BOOLEAN
  BY Zenon DEF Available
<1> HIDE DEF e, props
<1>4. /\ Frame(d, e, {}, TunnelKeys) /\ \A n \in Caches : CacheStep(d, e, c, n)
      /\ \A p \in Points \cap TunnelKeys : e.pt[p] = Point(c.ts, "unavailable", c.pid)
  BY <1>1, OverwriteStep
<1>5. Agrees(e) /\ Frame(d, e, {One("listener")}, TunnelKeys)
  BY <1>4, QuietAgrees, FrameWeaken
<1>6. TunnelStep(d, e, c)
  <2>1. /\ e.pt["tunnel_active"] = Point(c.ts, "unavailable", c.pid)
        /\ e.pt["ownership"] = Point(c.ts, "unavailable", c.pid)
    BY <1>4 DEF Points, TunnelKeys
  <2> QED BY <2>1 DEF TunnelStep, Point
<1> QED
  BY <1>2, <1>3, <1>4, <1>5, <1>6, TunnelMetricsAgree

-----------------------------------------------------------------------------
(* The end of the cycle *)

(* What a cycle has found of its sources. *)
OutOK(out) ==
    /\ \A k \in DOMAIN out : k \notin FailKeys /\ k # One("service") /\ k # One("listener")
    /\ \A k \in DOMAIN out : out[k] \in {"available", "failed"}
                             \/ (k = One("conntrack") /\ out[k] = "unsupported")

(* _source_status tells of every source what changed. *)
LEMMA SourceStatusAgrees ==
    ASSUME NEW d, Shape(d), Agrees(d), NEW out, OutOK(out), NEW ts \in Nat
    PROVE  /\ Frame(d, SourceStatus(d, out, ts), Sources, {})
           /\ Agrees(SourceStatus(d, out, ts))
<1> DEFINE Code(k) == IF k = One("conntrack") THEN OptionalAvailability(d.state[k], out[k])
                      ELSE Availability(d.state[k], out[k])
           new == {k \in DOMAIN out : Code(k) # None}
           e == SourceStatus(d, out, ts)
<1>0. e = [d EXCEPT !.state = [k \in Keys |-> IF k \in DOMAIN out THEN out[k] ELSE @[k]],
                    !.told = [k \in Keys |-> IF k \in new THEN [ts |-> ts, code |-> Code(k)]
                                             ELSE @[k]],
                    !.dropped = @ \ new]
  BY Zenon DEF SourceStatus
<1> HIDE DEF e, Code
<1>1. /\ DOMAIN e = DbFields
      /\ e.state = [k \in Keys |-> IF k \in DOMAIN out THEN out[k] ELSE d.state[k]]
      /\ e.told = [k \in Keys |-> IF k \in new THEN [ts |-> ts, code |-> Code(k)] ELSE d.told[k]]
      /\ e.dropped = d.dropped \ new
      /\ \A f \in DbFields \ {"state", "told", "dropped"} : e[f] = d[f]
  BY <1>0 DEF Shape, DbFields
<1>2. /\ e.pt = d.pt /\ e.cache = d.cache
      /\ e.attempt = d.attempt /\ e.cycle = d.cycle /\ e.member = d.member
  BY <1>1 DEF DbFields
<1>3. Shape(e)
  BY <1>1, <1>2 DEF Shape
<1>4. ASSUME NEW k \in Telling \ Sources PROVE Same(d, e, k)
  <2>1. k \in Keys /\ k \notin DOMAIN out
    BY KeyFacts DEF OutOK, Telling
  <2> QED BY <1>1, <2>1 DEF Same
<1>5. Frame(d, e, Sources, {})
  BY <1>2, <1>3, <1>4 DEF Frame
<1>6. ASSUME NEW k \in Sources PROVE SourceAgrees(e, k)
  <2>1. k \in Keys
    BY KeyFacts DEF Telling
  <2>2. SourceAgrees(d, k)
    BY DEF Agrees
  <2>3. CASE k \notin DOMAIN out
    BY <1>1, <2>1, <2>2, <2>3 DEF SourceAgrees
  <2>4. CASE k \in DOMAIN out
    <3>1. /\ e.state[k] = out[k]
          /\ Code(k) = None => e.told[k] = d.told[k] /\ (k \in d.dropped => k \in e.dropped)
          /\ Code(k) # None => e.told[k] = [ts |-> ts, code |-> Code(k)]
      BY <1>1, <2>1, <2>4
    <3>2. CASE k = One("conntrack")
      <4>1. out[k] \in {"available", "failed", "unsupported"}
        BY <2>4 DEF OutOK
      <4>2. Code(k) = OptionalAvailability(d.state[k], out[k])
        BY <3>2 DEF Code
      <4> QED BY <2>2, <3>1, <4>1, <4>2, OptionalAgrees
    <3>3. CASE k # One("conntrack")
      <4>1. out[k] \in {"available", "failed"}
        BY <2>4, <3>3 DEF OutOK
      <4>2. Code(k) = Availability(d.state[k], out[k])
        BY <3>3 DEF Code
      <4> QED BY <2>2, <3>1, <4>1, <4>2, AvailabilityAgrees
    <3> QED BY <3>2, <3>3
  <2> QED BY <2>3, <2>4
<1>7. Agrees(e)
  BY <1>5, <1>6, KeyFacts, FrameAgrees
<1> QED
  BY <1>5, <1>7 DEF e

(* The pairs of states that the collector keeps itself: a failure and its event, *)
(* a recovery and its event, or the same again and none.                         *)
LEMMA FailKeyAgrees ==
    ASSUME NEW d, Shape(d), Agrees(d), NEW k \in FailKeys, NEW v, NEW code, NEW ts \in Nat,
           \/ code = None /\ (v = "failed") = (d.state[k] = "failed")
           \/ code \in Codes /\ (code \in FailureCodes) = (v = "failed")
    PROVE  /\ Frame(d, Keep(d, k, v, code, ts), {k}, {})
           /\ Agrees(Keep(d, k, v, code, ts))
<1> DEFINE e == Keep(d, k, v, code, ts)
<1>1. k \in Keys /\ k \notin Sources /\ k # One("service") /\ k # One("listener")
  BY KeyFacts DEF Telling
<1>2. /\ Frame(d, e, {k}, {})
      /\ e.state[k] = v
      /\ code = None => e.told[k] = d.told[k]
      /\ code # None => e.told[k] = [ts |-> ts, code |-> code]
  BY <1>1, KeepFrame
<1> HIDE DEF e
<1>3. FailAgrees(e, k)
  <2>1. FailAgrees(d, k)
    BY DEF Agrees
  <2>2. CASE code = None /\ (v = "failed") = (d.state[k] = "failed")
    BY <1>2, <2>1, <2>2 DEF FailAgrees
  <2>3. CASE code \in Codes /\ (code \in FailureCodes) = (v = "failed")
    <3>1. code # None /\ [ts |-> ts, code |-> code] # None
      BY <2>3, EventIsThere
    <3>2. e.told[k] # None /\ e.told[k].code = code
      BY <1>2, <3>1
    <3> QED BY <1>2, <2>3, <3>2 DEF FailAgrees
  <2> QED BY <2>2, <2>3
<1>4. Agrees(e)
  BY <1>1, <1>2, <1>3, FrameAgrees
<1> QED
  BY <1>2, <1>4 DEF e

(* _cycle_recovery *)
LEMMA CycleRecoveryAgrees ==
    ASSUME NEW d, Shape(d), Agrees(d), NEW ts \in Nat
    PROVE  /\ Frame(d, CycleRecovery(d, ts), {One("collection")}, {})
           /\ Agrees(CycleRecovery(d, ts))
<1> DEFINE k == One("collection")
           code == Recovered(d.state[k], "collection_recovered")
<1>1. CycleRecovery(d, ts) = Keep(d, k, "ok", code, ts)
  BY Zenon DEF CycleRecovery
<1>2. \/ code = None /\ ("ok" = "failed") = (d.state[k] = "failed")
      \/ code \in Codes /\ (code \in FailureCodes) = ("ok" = "failed")
  BY DEF Recovered, Codes, FailureCodes
<1>3. k \in FailKeys
  BY DEF FailKeys
<1> HIDE DEF code
<1> QED
  BY <1>1, <1>2, <1>3, FailKeyAgrees

(* Maintenance and its state. *)
LEMMA MaintenanceAgrees ==
    ASSUME NEW d, Shape(d), Agrees(d), NEW c, c.ts \in Nat, NEW ok
    PROVE  /\ Frame(d, Maintenance(d, c, ok), {One("retention")}, {})
           /\ Agrees(Maintenance(d, c, ok))
<1> DEFINE k == One("retention")
           good == Recovered(d.state[k], "database_retention_recovered")
           worse == Failed(d.state[k], "database_retention_failed")
<1>1. \/ Maintenance(d, c, ok) = d
      \/ Maintenance(d, c, ok) = Keep(d, k, "ok", good, c.ts)
      \/ Maintenance(d, c, ok) = Keep(d, k, "failed", worse, c.ts)
  BY Zenon DEF Maintenance
<1>2. /\ \/ good = None /\ ("ok" = "failed") = (d.state[k] = "failed")
         \/ good \in Codes /\ (good \in FailureCodes) = ("ok" = "failed")
      /\ \/ worse = None /\ ("failed" = "failed") = (d.state[k] = "failed")
         \/ worse \in Codes /\ (worse \in FailureCodes) = ("failed" = "failed")
  BY DEF Recovered, Failed, Codes, FailureCodes
<1>3. k \in FailKeys
  BY DEF FailKeys
<1>4. Frame(d, d, {k}, {})
  BY FrameRefl, FrameWeaken
<1> HIDE DEF good, worse
<1>5. /\ Frame(d, Keep(d, k, "ok", good, c.ts), {k}, {})
      /\ Agrees(Keep(d, k, "ok", good, c.ts))
  BY <1>2, <1>3, FailKeyAgrees
<1>6. /\ Frame(d, Keep(d, k, "failed", worse, c.ts), {k}, {})
      /\ Agrees(Keep(d, k, "failed", worse, c.ts))
  BY <1>2, <1>3, FailKeyAgrees
<1> QED
  BY <1>1, <1>4, <1>5, <1>6

(* _record_checkpoint_result *)
LEMMA CheckpointAgrees ==
    ASSUME NEW d, Shape(d), Agrees(d), NEW ok, NEW ts \in Nat
    PROVE  /\ Frame(d, CheckpointResult(d, ok, ts), {One("checkpoint")}, {})
           /\ Agrees(CheckpointResult(d, ok, ts))
<1> DEFINE k == One("checkpoint")
           good == IF d.state[k] = None THEN "wal_checkpoint"
                   ELSE Recovered(d.state[k], "wal_checkpoint_recovered")
           worse == Failed(d.state[k], "wal_checkpoint_failed")
<1>1. \/ CheckpointResult(d, ok, ts) = Keep(d, k, "ok", good, ts)
      \/ CheckpointResult(d, ok, ts) = Keep(d, k, "failed", worse, ts)
  BY Zenon DEF CheckpointResult
<1>2. /\ \/ good = None /\ ("ok" = "failed") = (d.state[k] = "failed")
         \/ good \in Codes /\ (good \in FailureCodes) = ("ok" = "failed")
      /\ \/ worse = None /\ ("failed" = "failed") = (d.state[k] = "failed")
         \/ worse \in Codes /\ (worse \in FailureCodes) = ("failed" = "failed")
  BY DEF Recovered, Failed, Codes, FailureCodes
<1>3. k \in FailKeys
  BY DEF FailKeys
<1> HIDE DEF good, worse
<1>4. /\ Frame(d, Keep(d, k, "ok", good, ts), {k}, {})
      /\ Agrees(Keep(d, k, "ok", good, ts))
  BY <1>2, <1>3, FailKeyAgrees
<1>5. /\ Frame(d, Keep(d, k, "failed", worse, ts), {k}, {})
      /\ Agrees(Keep(d, k, "failed", worse, ts))
  BY <1>2, <1>3, FailKeyAgrees
<1> QED
  BY <1>1, <1>4, <1>5

(* A row of sample_cycles, and the membership of the tunnel, touch nothing else. *)
Rest(d, e) ==
    /\ Shape(e) /\ e.state = d.state /\ e.told = d.told /\ e.dropped = d.dropped
    /\ e.pt = d.pt /\ e.cache = d.cache /\ e.attempt = d.attempt

(* The agreement is about the rest. *)
LEMMA RestAgrees ==
    ASSUME NEW d, NEW e, Rest(d, e), Agrees(d)
    PROVE  Agrees(e)
BY DEF Rest, Agrees, SourceAgrees, FailAgrees, ServiceAgrees, ListenerAgrees

(* _cycle *)
LEMMA CycleRowRest ==
    ASSUME NEW d, Shape(d), NEW ts, NEW ok \in BOOLEAN
    PROVE  /\ Rest(d, CycleRow(d, ts, ok)) /\ CycleRow(d, ts, ok).member = d.member
           /\ CycleRow(d, ts, ok).cycle = [ts |-> ts, ok |-> ok]
<1> DEFINE e == CycleRow(d, ts, ok)
<1>1. /\ DOMAIN e = DbFields /\ e.cycle = [ts |-> ts, ok |-> ok]
      /\ \A f \in DbFields \ {"cycle"} : e[f] = d[f]
  BY DEF CycleRow, Shape, DbFields
<1> HIDE DEF e
<1>2. /\ e.state = d.state /\ e.told = d.told /\ e.dropped = d.dropped /\ e.cache = d.cache
      /\ e.pt = d.pt /\ e.attempt = d.attempt /\ e.member = d.member
  BY <1>1 DEF DbFields
<1>3. Rest(d, e)
  BY <1>1, <1>2 DEF Rest, Shape
<1> QED
  BY <1>1, <1>2, <1>3 DEF e

(* upsert_tunnel *)
LEMMA UpsertTunnelRest ==
    ASSUME NEW d, Shape(d), NEW c
    PROVE  /\ Rest(d, UpsertTunnel(d, c)) /\ UpsertTunnel(d, c).member = Discovered(c)
<1> DEFINE e == UpsertTunnel(d, c)
<1>1. /\ DOMAIN e = DbFields /\ e.member = Discovered(c)
      /\ \A f \in DbFields \ {"member", "seen"} : e[f] = d[f]
  <2> DEFINE m == Discovered(c)
  <2>1. e = [d EXCEPT !.member = m, !.seen = IF m THEN c.ts ELSE @]
    BY Zenon DEF UpsertTunnel
  <2> HIDE DEF e, m
  <2>2. /\ DOMAIN e = DbFields /\ e.member = m
        /\ \A f \in DbFields \ {"member", "seen"} : e[f] = d[f]
    BY <2>1 DEF Shape, DbFields
  <2> QED BY <2>2 DEF m
<1> HIDE DEF e
<1>2. /\ e.state = d.state /\ e.told = d.told /\ e.dropped = d.dropped /\ e.cache = d.cache
      /\ e.pt = d.pt /\ e.attempt = d.attempt
  BY <1>1 DEF DbFields
<1>3. Rest(d, e)
  BY <1>1, <1>2 DEF Rest, Shape
<1> QED
  BY <1>1, <1>3 DEF e

(* What _source_status is given. *)
LEMMA SourcesSeenOK ==
    ASSUME NEW c, OutOK(c.out), NEW bad, NEW late
    PROVE  OutOK(SourcesSeen(c, bad, late))
<1> DEFINE ran == Parts \cup {One("service_processing")}
               \cup (IF Discovered(c) THEN {One("tunnel_processing")} ELSE {})
               \cup (IF c.due["slow"] /\ (One("storage_metrics") \in bad => late)
                     THEN {One("filesystem")} ELSE {})
           seen == SourcesSeen(c, bad, late)
<1>1. seen = [k \in DOMAIN c.out \cup ran |-> IF k \in ran THEN Outcome(ran, bad)[k] ELSE c.out[k]]
  BY Zenon DEF SourcesSeen
<1>2. ran \subseteq Sources
  BY DEF Sources, Processing
<1> HIDE DEF ran, seen
<1>3. \A k \in ran : Outcome(ran, bad)[k] \in {"available", "failed"}
  BY DEF Outcome
<1>4. \A k \in ran : k \notin FailKeys /\ k # One("service") /\ k # One("listener")
  BY <1>2, KeyFacts
<1>5. OutOK(seen)
  BY <1>1, <1>3, <1>4 DEF OutOK
<1> QED
  BY <1>5 DEF seen

(* What the cycle does to the database, its parts taken together. *)
LEMMA CycleStep ==
    ASSUME NEW d, Shape(d), Agrees(d), NEW c, c.ts \in Nat, OutOK(c.out),
           NEW bad, NEW late \in BOOLEAN
    PROVE  LET r == CycleResult(d, c, bad, late)
           IN  /\ Shape(r) /\ Agrees(r) /\ r.attempt = d.attempt
               /\ \A n \in Caches : CacheStep(d, r, c, n)
               /\ TunnelStep(d, r, c)
               /\ r.cycle = [ts |-> c.ts, ok |-> TRUE] /\ r.member = Discovered(c)
<1> DEFINE d0 == EnvEvents(d, c)
           d1 == HostPart(d0, c, bad, late)
           d2 == StoragePart(d1, c, bad, late)
           d3 == NetworkPart(d2, c, bad, late)
           d4 == ServicePart(d3, c, bad)
           d5 == TunnelPart(d4, c, bad)
           d6 == SourceStatus(d5, SourcesSeen(c, bad, late), c.ts)
           d7 == CycleRecovery(d6, c.ts)
           d8 == Maintenance(d7, c, One("retention") \notin bad)
           d9 == UpsertTunnel(d8, c)
           r == CycleResult(d, c, bad, late)
<1>0. r = CycleRow(d9, c.ts, TRUE)
  BY Zenon DEF CycleResult
<1>a. Frame(d, d0, {One("env")}, {}) /\ Agrees(d0) /\ Shape(d0)
  BY EnvEventsAgree DEF Frame
<1> HIDE DEF d0
<1>b. Frame(d0, d1, {}, {"cpu"}) /\ Agrees(d1) /\ Shape(d1)
  BY <1>a, HostPartAgrees DEF Frame
<1> HIDE DEF d1
<1>c. Frame(d1, d2, {One("filesystem")}, {"filesystem"}) /\ Agrees(d2) /\ Shape(d2)
  BY <1>b, StoragePartAgrees DEF Frame
<1> HIDE DEF d2
<1>d. Frame(d2, d3, {}, {}) /\ Agrees(d3) /\ Shape(d3)
  BY <1>c, NetworkPartAgrees DEF Frame
<1> HIDE DEF d3
<1>e. /\ Frame(d3, d4, {One("service")}, ServicePoints) /\ Agrees(d4) /\ Shape(d4)
      /\ \A n \in Caches : CacheStep(d3, d4, c, n)
  BY <1>d, ServicePartAgrees DEF Frame
<1> HIDE DEF d4
<1>f. /\ Frame(d4, d5, {One("listener")}, TunnelKeys) /\ Agrees(d5) /\ Shape(d5)
      /\ \A n \in Caches : CacheStep(d4, d5, c, n)
      /\ TunnelStep(d4, d5, c)
  BY <1>e, TunnelPartAgrees DEF Frame
<1> HIDE DEF d5
<1>g. Frame(d5, d6, Sources, {}) /\ Agrees(d6) /\ Shape(d6)
  BY <1>f, SourcesSeenOK, SourceStatusAgrees, SMTT(30) DEF Frame
<1> HIDE DEF d6
<1>h. Frame(d6, d7, {One("collection")}, {}) /\ Agrees(d7) /\ Shape(d7)
  BY <1>g, CycleRecoveryAgrees DEF Frame
<1> HIDE DEF d7
<1>i. Frame(d7, d8, {One("retention")}, {}) /\ Agrees(d8) /\ Shape(d8)
  BY <1>h, MaintenanceAgrees DEF Frame
<1> HIDE DEF d8
<1>j. Rest(d8, d9) /\ d9.member = Discovered(c) /\ Shape(d9)
  BY <1>i, UpsertTunnelRest DEF Rest
<1> HIDE DEF d9, r
<1>k. Rest(d9, r) /\ r.member = d9.member /\ r.cycle = [ts |-> c.ts, ok |-> TRUE]
  <2>1. TRUE \in BOOLEAN
    OBVIOUS
  <2> QED BY <1>0, <1>j, <2>1, CycleRowRest, Zenon
<1>1. Agrees(r) /\ Shape(r)
  BY <1>i, <1>j, <1>k, RestAgrees DEF Rest
<1>2. /\ d3.attempt = d.attempt /\ d8.attempt = d5.attempt /\ d5.attempt = d3.attempt
      /\ r.attempt = d8.attempt
  BY <1>a, <1>b, <1>c, <1>d, <1>e, <1>f, <1>g, <1>h, <1>i, <1>j, <1>k DEF Frame, Rest
<1>3. \A p \in Points \ {"cpu", "filesystem"} : d3.pt[p] = d.pt[p]
  BY <1>a, <1>b, <1>c, <1>d DEF Frame
<1>4. \A n \in Caches : d3.cache[n] = d.cache[n] /\ d3.pt[n] = d.pt[n]
  <2>1. \A n \in Caches : n \in Points \ {"cpu", "filesystem"}
    BY KeyFacts
  <2> QED BY <1>a, <1>b, <1>c, <1>d, <1>3, <2>1 DEF Frame
<1>5. \A p \in Points : r.pt[p] = d5.pt[p]
  BY <1>g, <1>h, <1>i, <1>j, <1>k DEF Frame, Rest
<1>6. \A n \in Caches : r.cache[n] = d5.cache[n]
  BY <1>g, <1>h, <1>i, <1>j, <1>k DEF Frame, Rest
<1>7. \A p \in Points \ ServicePoints : d4.pt[p] = d3.pt[p]
  BY <1>e DEF Frame
<1>8. ASSUME NEW n \in Caches PROVE CacheStep(d, r, c, n)
  <2>1. n \in Points
    BY KeyFacts
  <2>2. CASE n = "remote"
    <3>1. n \notin ServicePoints
      BY <2>2 DEF ServicePoints
    <3>2. d4.cache[n] = d3.cache[n] /\ d4.pt[n] = d3.pt[n]
      BY <1>e, <2>1, <3>1 DEF Frame
    <3>3. CacheStep(d4, d5, c, n)
      BY <1>f
    <3> QED BY <1>4, <1>5, <1>6, <2>1, <3>2, <3>3 DEF CacheStep
  <2>3. CASE n # "remote"
    <3>1. n \notin TunnelKeys
      BY <2>3, KeyFacts DEF TunnelKeys
    <3>2. d5.cache[n] = d4.cache[n] /\ d5.pt[n] = d4.pt[n]
      BY <1>f, <2>1, <3>1 DEF Frame
    <3>3. CacheStep(d3, d4, c, n)
      BY <1>e
    <3> QED BY <1>4, <1>5, <1>6, <2>1, <3>2, <3>3 DEF CacheStep
  <2> QED BY <2>2, <2>3
<1>9. TunnelStep(d, r, c)
  <2>1. {"tunnel_active", "ownership"} \subseteq Points \ ServicePoints
    BY DEF Points, ServicePoints
  <2>2. /\ d4.pt["tunnel_active"] = d.pt["tunnel_active"]
        /\ d4.pt["ownership"] = d.pt["ownership"]
    BY <1>3, <1>7, <2>1
  <2>3. /\ r.pt["tunnel_active"] = d5.pt["tunnel_active"]
        /\ r.pt["ownership"] = d5.pt["ownership"]
    BY <1>5, <2>1
  <2> QED BY <1>f, <2>2, <2>3 DEF TunnelStep
<1>10. r.attempt = d.attempt
  BY <1>2
<1> QED
  BY <1>1, <1>8, <1>9, <1>10, <1>j, <1>k DEF r

-----------------------------------------------------------------------------
(* The inductive invariant *)

(* The two cadences. *)
CadenceNames == {"sockets", "slow"}

(* The clocks; what a cycle under way knows. *)
CycleInv ==
    /\ now \in Nat /\ cy.ts \in Nat /\ cy.ts <= now
    /\ pc \in {"capture_services", "transact"} => OutOK(cy.out)

(* A refresh is due when the last attempt, saved before anything is read, is an *)
(* interval old; the attempt of a cycle under way is its own.                   *)
AttemptInv ==
    /\ \A x \in CadenceNames : db.attempt[x] \in Nat \/ db.attempt[x] = None
    /\ kind # "service" => \A x \in CadenceNames : db.attempt[x] = None
    /\ pc \in Unfinished => \A x \in CadenceNames :
          /\ cy.due[x] => db.attempt[x] = None \/ db.attempt[x] = cy.ts
          /\ ~cy.due[x] => /\ db.attempt[x] \in Nat /\ db.attempt[x] # None
                           /\ cy.ts - db.attempt[x] < Cadences[x]

(* A refresh that was due and not missed is in the cache. *)
CacheInv ==
    \A n \in Caches :
       ~missed[n] /\ ~(pc \in Unfinished /\ cy.due[Cadence[n]]) =>
          \/ db.attempt[Cadence[n]] = None
          \/ db.cache[n] # None /\ db.cache[n].at = db.attempt[Cadence[n]]

(* An estimate is the cached value. *)
EstimateInv ==
    \A n \in Caches :
       LET p == db.pt[n]
       IN  p # None /\ p.q = "estimated" =>
              /\ p.of = p.v /\ p.at = db.cache[n].at
              /\ p.ts \in Nat /\ p.ts <= now /\ (pc \in Unfinished => p.ts <= cy.ts)
              /\ missed[n] \/ p.ts - p.at < Cadences[Cadence[n]]

(* Where no service is followed, there are no points. *)
QuietInv == kind # "service" => \A p \in Points : db.pt[p] = None

(* When the service served and when it did not; what a cycle under way has read *)
(* is not older than its beginning.                                             *)
ServeInv ==
    kind = "service" =>
       /\ served \in Int /\ served <= now /\ out_of_service \in Int /\ out_of_service <= now
       /\ (proc # 0 /\ listening) => served = now
       /\ ~(proc # 0 /\ listening) => out_of_service = now
       /\ pc \in {"capture_services", "transact"} /\ cy.owner # 0 => served >= cy.ts
       /\ pc = "capture_services" /\ cy.owner # proc => out_of_service >= cy.ts
       /\ pc = "transact" /\ (cy.pid = 0 \/ cy.owner # cy.pid) => out_of_service >= cy.ts

(* A point with a value. *)
Usable(m) == m # None /\ m.q # "unavailable"

(* A tunnel that is shown in service, or out of it, was so since the cycle that *)
(* says it began; the points of a current tunnel are of the last cycle.         *)
TunnelInv ==
    LET active == db.pt["tunnel_active"]
        ownership == db.pt["ownership"]
    IN  kind = "service" =>
          /\ Usable(active) /\ active.v # 0 /\ Usable(ownership) /\ ownership.v # 0 =>
                ownership.ts \in Nat /\ served >= ownership.ts
          /\ Usable(active) /\ (active.v = 0 \/ (Usable(ownership) /\ ownership.v = 0)) =>
                active.ts \in Nat /\ out_of_service >= active.ts
          /\ db.cycle # None /\ db.cycle.ok /\ db.member => ownership.ts = db.cycle.ts

(* The inductive invariant. *)
IInv == /\ Shape(db) /\ Agrees(db)
        /\ CycleInv /\ AttemptInv /\ CacheInv /\ EstimateInv /\ QuietInv
        /\ ServeInv /\ TunnelInv

(* No attempt, no point: the part of the database that is not followed. *)
Blank(d) == (\A x \in CadenceNames : d.attempt[x] = None) /\ (\A p \in Points : d.pt[p] = None)

(* A step that leaves attempts, caches and points alone, and adds no successful cycle. *)
Light(d, e) ==
    /\ e.attempt = d.attempt
    /\ \A n \in Caches : e.cache[n] = d.cache[n]
    /\ \A p \in Points : e.pt[p] = d.pt[p]
    /\ (e.cycle = d.cycle /\ e.member = d.member) \/ ~e.cycle.ok

(* The empty database. *)
LEMMA EmptyDbFacts ==
    Shape(EmptyDb) /\ Agrees(EmptyDb) /\ Blank(EmptyDb) /\ EmptyDb.cycle = None
<1>1. /\ DOMAIN EmptyDb = DbFields
      /\ EmptyDb.state = [k \in Keys |-> None] /\ EmptyDb.told = [k \in Keys |-> None]
      /\ EmptyDb.cache = [n \in Caches |-> None] /\ EmptyDb.pt = [p \in Points |-> None]
      /\ EmptyDb.attempt = [x \in DOMAIN Cadences |-> None] /\ EmptyDb.cycle = None
  BY DEF EmptyDb, DbFields
<1>2. DOMAIN Cadences = {"sockets", "slow"}
  BY DEF Cadences
<1>3. Shape(EmptyDb) /\ Blank(EmptyDb)
  BY <1>1, <1>2 DEF Shape, Blank, CadenceNames
<1>4. None # "failed"
  BY NoneAssumption DEF Values
<1>5. \A k \in Telling : EmptyDb.state[k] = None /\ EmptyDb.told[k] = None
  BY <1>1, KeyFacts
<1>6. Agrees(EmptyDb)
  BY <1>4, <1>5 DEF Agrees, SourceAgrees, FailAgrees, ServiceAgrees, ListenerAgrees, Telling
<1> QED
  BY <1>1, <1>3, <1>6

(* What is kept of the database. *)
LEMMA SliceStep ==
    ASSUME NEW d, Shape(d), Agrees(d)
    PROVE  /\ Shape(Slice(d)) /\ Agrees(Slice(d))
           /\ kind = "service" => /\ Rest(d, Slice(d))
                                  /\ Slice(d).cycle = d.cycle /\ Slice(d).member = d.member
           /\ kind # "service" => Blank(Slice(d))
<1> DEFINE e == Slice(d)
<1>1. CASE kind = "service"
  <2>1. e = [d EXCEPT !.rate = EmptyDb.rate, !.reported = EmptyDb.reported]
    BY <1>1 DEF Slice
  <2> HIDE DEF e
  <2>2. DOMAIN e = DbFields /\ \A f \in DbFields \ {"rate", "reported"} : e[f] = d[f]
    BY <2>1 DEF Shape, DbFields
  <2>3. /\ e.state = d.state /\ e.told = d.told /\ e.dropped = d.dropped /\ e.cache = d.cache
        /\ e.pt = d.pt /\ e.attempt = d.attempt /\ e.cycle = d.cycle /\ e.member = d.member
    BY <2>2 DEF DbFields
  <2>4. Rest(d, e)
    BY <2>2, <2>3 DEF Rest, Shape
  <2>5. Shape(e) /\ Agrees(e)
    BY <2>4, RestAgrees DEF Rest
  <2> QED BY <1>1, <2>3, <2>4, <2>5 DEF e
<1>2. CASE kind # "service"
  <2>1. e = [EmptyDb EXCEPT !.prev = d.prev, !.rate = d.rate, !.reported = d.reported]
    BY <1>2 DEF Slice
  <2> HIDE DEF e
  <2>2. /\ DOMAIN e = DbFields
        /\ \A f \in DbFields \ {"prev", "rate", "reported"} : e[f] = EmptyDb[f]
    BY <2>1, EmptyDbFacts DEF Shape, DbFields
  <2>3. /\ e.state = EmptyDb.state /\ e.told = EmptyDb.told /\ e.dropped = EmptyDb.dropped
        /\ e.cache = EmptyDb.cache /\ e.pt = EmptyDb.pt /\ e.attempt = EmptyDb.attempt
    BY <2>2 DEF DbFields
  <2>4. Rest(EmptyDb, e)
    BY <2>2, <2>3, EmptyDbFacts DEF Rest, Shape
  <2>5. Shape(e) /\ Agrees(e) /\ Blank(e)
    BY <2>3, <2>4, EmptyDbFacts, RestAgrees DEF Rest, Blank
  <2> QED BY <1>2, <2>5 DEF e
<1> QED
  BY <1>1, <1>2

(* The cadences are decided and saved. *)
LEMMA BeginDb ==
    ASSUME Begin, Shape(db), Agrees(db)
    PROVE  /\ Shape(db') /\ Agrees(db')
           /\ kind # "service" => Blank(db')
           /\ kind = "service" =>
                 /\ \A x \in CadenceNames : db'.attempt[x] =
                       IF Due(db.attempt[x], now, Cadences[x]) THEN now ELSE db.attempt[x]
                 /\ db'.cache = db.cache /\ db'.pt = db.pt
                 /\ db'.cycle = db.cycle /\ db'.member = db.member
           /\ cy'.ts = now
           /\ \A x \in CadenceNames : cy'.due[x] = Due(db.attempt[x], now, Cadences[x])
<1> DEFINE due == [c \in DOMAIN Cadences |-> Due(db.attempt[c], now, Cadences[c])]
           a == [c \in DOMAIN Cadences |-> IF due[c] THEN now ELSE db.attempt[c]]
           e == [db EXCEPT !.attempt = a]
           maint == mono >= next_maint /\ kind = "service"
<1>1. db' = Slice(e) /\ cy' = [ts |-> now, due |-> due, maint |-> maint]
  BY Zenon DEF Begin
<1>2. DOMAIN Cadences = CadenceNames
  BY DEF Cadences, CadenceNames
<1>3. \A x \in CadenceNames : due[x] = Due(db.attempt[x], now, Cadences[x])
  BY <1>2
<1>4. DOMAIN a = CadenceNames /\ \A x \in CadenceNames : a[x] = IF due[x] THEN now ELSE db.attempt[x]
  BY <1>2
<1> HIDE DEF due, a, maint
<1>5. DOMAIN e = DbFields /\ e.attempt = a /\ \A f \in DbFields \ {"attempt"} : e[f] = db[f]
  BY DEF Shape, DbFields
<1>6. /\ e.state = db.state /\ e.told = db.told /\ e.dropped = db.dropped /\ e.cache = db.cache
      /\ e.pt = db.pt /\ e.cycle = db.cycle /\ e.member = db.member
  BY <1>5 DEF DbFields
<1> HIDE DEF e
<1>7. Shape(e)
  BY <1>4, <1>5, <1>6 DEF Shape, CadenceNames
<1>8. Agrees(e)
  BY <1>6 DEF Agrees, SourceAgrees, FailAgrees, ServiceAgrees, ListenerAgrees
<1>9. /\ Shape(db') /\ Agrees(db') /\ (kind # "service" => Blank(db'))
      /\ kind = "service" => Rest(e, db') /\ db'.cycle = e.cycle /\ db'.member = e.member
  BY <1>1, <1>7, <1>8, SliceStep
<1>10. cy'.ts = now /\ cy'.due = due
  BY <1>1
<1> QED
  BY <1>3, <1>4, <1>5, <1>6, <1>9, <1>10 DEF Rest

(* What is recorded outside of the transaction. *)
LEMMA RecordDb ==
    ASSUME RecordFailure \/ Checkpoint \/ RecordOverrun, Shape(db), Agrees(db), cy.ts \in Nat
    PROVE  /\ Shape(db') /\ Agrees(db')
           /\ Light(db, db') \/ (kind # "service" /\ Blank(db'))
<1>1. Light(db, db)
  BY DEF Light
<1>2. CASE RecordFailure
  <2> DEFINE k == One("collection")
             code == Failed(db.state[k], "collection_failed")
             told == Keep(db, k, "failed", code, cy.ts)
             e == CycleRow(told, cy.ts, FALSE)
  <2>1. db' = Slice(e) \/ db' = db
    BY <1>2, Zenon DEF RecordFailure
  <2>2. \/ code = None /\ ("failed" = "failed") = (db.state[k] = "failed")
        \/ code \in Codes /\ (code \in FailureCodes) = ("failed" = "failed")
    BY DEF Failed, Codes, FailureCodes
  <2>3. k \in FailKeys
    BY DEF FailKeys
  <2> HIDE DEF k, code
  <2>4. Frame(db, told, {k}, {}) /\ Agrees(told) /\ Shape(told)
    BY <2>2, <2>3, FailKeyAgrees DEF Frame
  <2> HIDE DEF told
  <2>5. Rest(told, e) /\ e.cycle = [ts |-> cy.ts, ok |-> FALSE]
    <3>1. FALSE \in BOOLEAN
      OBVIOUS
    <3> QED BY <2>4, <3>1, CycleRowRest, Zenon
  <2> HIDE DEF e
  <2>6. Shape(e) /\ Agrees(e)
    BY <2>4, <2>5, RestAgrees DEF Rest
  <2>7. ~e.cycle.ok
    BY <2>5
  <2>8. /\ Shape(Slice(e)) /\ Agrees(Slice(e)) /\ (kind # "service" => Blank(Slice(e)))
        /\ kind = "service" => Rest(e, Slice(e)) /\ Slice(e).cycle = e.cycle
    BY <2>6, SliceStep
  <2>9. kind = "service" => Light(db, Slice(e))
    BY <2>4, <2>5, <2>7, <2>8 DEF Light, Frame, Rest
  <2> QED BY <1>1, <2>1, <2>8, <2>9
<1>3. CASE Checkpoint
  <2>1. \/ db' = db \/ db' = CheckpointResult(db, TRUE, cy.ts)
        \/ db' = CheckpointResult(db, FALSE, cy.ts)
    BY <1>3 DEF Checkpoint
  <2>2. ASSUME NEW ok, db' = CheckpointResult(db, ok, cy.ts)
        PROVE  Shape(db') /\ Agrees(db') /\ Light(db, db')
    <3>1. Frame(db, db', {One("checkpoint")}, {}) /\ Agrees(db')
      BY <2>2, CheckpointAgrees
    <3> QED BY <3>1 DEF Frame, Light
  <2> QED BY <1>1, <2>1, <2>2, Zenon
<1>4. CASE RecordOverrun
  <2> DEFINE k == One("overrun")
             late == mono > deadline + 1
             level == IF late THEN "active" ELSE "inactive"
             code == Edge(db.state[k], late, "collection_overrun")
             e == Keep(db, k, level, code, cy.ts)
  <2>1. db' = Slice(e) \/ db' = db
    BY <1>4, Zenon DEF RecordOverrun
  <2>2. k \in Keys /\ k \notin Telling
    <3>1. k \in Keys
      BY DEF Keys, Families
    <3> QED BY <3>1, TellingNames DEF One
  <2> HIDE DEF k, late, level, code
  <2>3. Frame(db, e, {k}, {})
    BY <2>2, KeepFrame
  <2> HIDE DEF e
  <2>4. Frame(db, e, {}, {})
    BY <2>2, <2>3, FrameTelling
  <2>5. Shape(e) /\ Agrees(e)
    BY <2>4, QuietAgrees DEF Frame
  <2>6. /\ Shape(Slice(e)) /\ Agrees(Slice(e)) /\ (kind # "service" => Blank(Slice(e)))
        /\ kind = "service" => /\ Rest(e, Slice(e)) /\ Slice(e).cycle = e.cycle
                               /\ Slice(e).member = e.member
    BY <2>5, SliceStep
  <2>7. kind = "service" => Light(db, Slice(e))
    BY <2>4, <2>6 DEF Light, Frame, Rest
  <2> QED BY <1>1, <2>1, <2>6, <2>7
<1> QED
  BY <1>2, <1>3, <1>4

(* The transaction. *)
LEMMA TransactDb ==
    ASSUME Transact, Shape(db), Agrees(db), cy.ts \in Nat, OutOK(cy.out)
    PROVE  /\ Shape(db') /\ Agrees(db')
           /\ kind # "service" => Blank(db')
           /\ kind = "service" =>
                 /\ db'.attempt = db.attempt
                 /\ \A n \in Caches : CacheStep(db, db', cy, n)
                 /\ TunnelStep(db, db', cy)
                 /\ db'.cycle = [ts |-> cy.ts, ok |-> TRUE] /\ db'.member = Discovered(cy)
<1>1. PICK bad \in (IF kind = "service" THEN PartFailures ELSE {{}, {PartOf}}), late \in BOOLEAN :
           db' = Slice(CycleResult(db, cy, bad, late))
  BY Zenon DEF Transact
<1> DEFINE r == CycleResult(db, cy, bad, late)
<1>2. /\ Shape(r) /\ Agrees(r) /\ r.attempt = db.attempt
      /\ \A n \in Caches : CacheStep(db, r, cy, n)
      /\ TunnelStep(db, r, cy)
      /\ r.cycle = [ts |-> cy.ts, ok |-> TRUE] /\ r.member = Discovered(cy)
  BY CycleStep
<1> HIDE DEF r
<1>3. /\ Shape(db') /\ Agrees(db') /\ (kind # "service" => Blank(db'))
      /\ kind = "service" => Rest(r, db') /\ db'.cycle = r.cycle /\ db'.member = r.member
  BY <1>1, <1>2, SliceStep DEF r
<1>4. CASE kind = "service"
  <2>1. /\ db'.attempt = db.attempt /\ db'.cache = r.cache /\ db'.pt = r.pt
        /\ db'.cycle = r.cycle /\ db'.member = r.member
    BY <1>2, <1>3, <1>4 DEF Rest
  <2>2. \A n \in Caches : CacheStep(db, db', cy, n)
    BY <1>2, <2>1 DEF CacheStep
  <2>3. TunnelStep(db, db', cy)
    BY <1>2, <2>1 DEF TunnelStep
  <2> QED BY <1>2, <1>3, <1>4, <2>1, <2>2, <2>3
<1> QED
  BY <1>3, <1>4

-----------------------------------------------------------------------------
(* The steps, by what they leave alone *)

(* Time passes, or the host changes. *)
HostFacts == UNCHANGED <<kind, pc, cy, missed, db>> /\ (now' = now \/ now' = now + 1)

(* The daemon starts, or a cycle ends without its transaction. *)
EndFacts ==
    /\ UNCHANGED <<kind, now, db>> /\ pc' \notin Unfinished
    /\ missed' = Owed \/ (missed' = missed /\ pc \notin Unfinished)
    /\ cy'.ts = 0 \/ cy'.ts = cy.ts

(* Something is recorded after the transaction. *)
RecordFacts ==
    /\ UNCHANGED <<kind, now, missed>> /\ pc \notin Unfinished /\ pc' \notin Unfinished
    /\ cy'.ts = 0 \/ cy'.ts = cy.ts

(* Something is read. *)
CaptureFacts ==
    /\ UNCHANGED <<kind, now, missed, db>> /\ pc \in Unfinished /\ pc' \in Unfinished
    /\ cy'.ts = cy.ts /\ cy'.due = cy.due

(* The transaction is committed. *)
TransactFacts ==
    /\ UNCHANGED <<kind, now>> /\ pc = "transact" /\ pc' \notin Unfinished
    /\ cy'.ts = cy.ts
    /\ missed' = [c \in Caches |-> IF cy.due[Cadence[c]]
                                   THEN db'.cache[c] = None \/ db'.cache[c].at # cy.ts
                                   ELSE missed[c]]

(* The actions of the host. *)
LEMMA HostSteps ==
    ASSUME Tick \/ ServiceStop \/ ServiceStart \/ Remove \/ Create \/ UNCHANGED vars
    PROVE  HostFacts
BY DEF HostFacts, Tick, ServiceStop, ServiceStart, Remove, Create, vars, daemon

(* The actions that end a cycle or start the daemon. *)
LEMMA EndSteps ==
    ASSUME Reboot \/ Start \/ Crash \/ TransactFails
    PROVE  EndFacts
<1>1. CASE Reboot
  BY <1>1 DEF Reboot, EndFacts, Unfinished, Idle
<1>2. CASE Start
  BY <1>2 DEF Start, EndFacts, Unfinished
<1>3. CASE Crash
  BY <1>3 DEF Crash, EndFacts, Unfinished, Idle
<1>4. CASE TransactFails
  BY <1>4 DEF TransactFails, EndFacts, Unfinished
<1> QED
  BY <1>1, <1>2, <1>3, <1>4

(* The actions after the transaction. *)
LEMMA RecordSteps ==
    ASSUME RecordFailure \/ Checkpoint \/ RecordOverrun
    PROVE  RecordFacts
<1>1. CASE RecordFailure
  BY <1>1 DEF RecordFailure, RecordFacts, Unfinished
<1>2. CASE Checkpoint
  BY <1>2 DEF Checkpoint, RecordFacts, Unfinished
<1>3. CASE RecordOverrun
  <2>1. /\ pc = "overrun" /\ pc' = "idle" /\ cy' = Idle
        /\ kind' = kind /\ now' = now /\ missed' = missed
    BY <1>3, Zenon DEF RecordOverrun
  <2> QED BY <2>1 DEF RecordFacts, Unfinished, Idle
<1> QED
  BY <1>1, <1>2, <1>3

(* The two readings. *)
LEMMA CaptureSteps ==
    ASSUME CaptureHost \/ CaptureServices
    PROVE  CaptureFacts
<1>1. CASE CaptureHost
  BY <1>1 DEF CaptureHost, CaptureFacts, Unfinished
<1>2. CASE CaptureServices
  BY <1>2, SMTT(30) DEF CaptureServices, CaptureFacts, Unfinished
<1> QED
  BY <1>1, <1>2

(* The transaction. *)
LEMMA TransactSteps ==
    ASSUME Transact
    PROVE  TransactFacts
<1>1. cy' = [ts |-> cy.ts] /\ pc = "transact" /\ kind' = kind /\ now' = now
      /\ pc' = (IF cy.maint THEN "checkpoint" ELSE "overrun")
      /\ missed' = [c \in Caches |-> IF cy.due[Cadence[c]]
                                     THEN db'.cache[c] = None \/ db'.cache[c].at # cy.ts
                                     ELSE missed[c]]
  BY DEF Transact
<1> QED
  BY <1>1 DEF TransactFacts, Unfinished

(* Every step is one of these. *)
LEMMA Steps ==
    ASSUME [Next]_vars
    PROVE  \/ Tick \/ ServiceStop \/ ServiceStart \/ Remove \/ Create \/ UNCHANGED vars
           \/ Reboot \/ Start \/ Crash \/ TransactFails
           \/ RecordFailure \/ Checkpoint \/ RecordOverrun
           \/ CaptureHost \/ CaptureServices \/ Begin \/ Transact
BY DEF Next

-----------------------------------------------------------------------------
(* The invariant is kept *)

(* What the two readings find of the sources. *)
LEMMA HostOut ==
    ASSUME CaptureHost
    PROVE  OutOK(cy'.out)
<1>1. PICK bad \in HostFailures,
           conntrack \in {"failed", "unsupported"} :
         LET looked == IF cy.due["sockets"] THEN HostSources
                                            ELSE HostSources \ {One("ss_connections")}
         IN  cy'.out = Conntrack(Outcome(looked, bad), conntrack)
  BY DEF CaptureHost
<1> DEFINE looked == IF cy.due["sockets"] THEN HostSources
                                          ELSE HostSources \ {One("ss_connections")}
           out == Outcome(looked, bad)
<1>2. cy'.out = Conntrack(out, conntrack)
  BY <1>1
<1>3. conntrack \in {"failed", "unsupported"}
  BY <1>1
<1>4. looked \subseteq Sources
  BY DEF Sources
<1>5. DOMAIN out = looked /\ \A k \in looked : out[k] \in {"available", "failed"}
  BY DEF Outcome
<1> HIDE DEF looked, out
<1>6. /\ DOMAIN cy'.out = looked
      /\ \A k \in looked : \/ cy'.out[k] = out[k]
                           \/ k = One("conntrack") /\ cy'.out[k] = conntrack
  BY <1>2, <1>5 DEF Conntrack
<1>7. \A k \in looked : k \notin FailKeys /\ k # One("service") /\ k # One("listener")
  BY <1>4, KeyFacts
<1> QED
  BY <1>3, <1>5, <1>6, <1>7 DEF OutOK

(* The second reading. *)
LEMMA ServiceOut ==
    ASSUME CaptureServices, OutOK(cy.out)
    PROVE  OutOK(cy'.out)
<1> DEFINE inside == IF proc = 0 THEN {}
                     ELSE {One("cgroup_pids"), <<"process_fast", proc>>}
                          \cup IF cy.due["slow"]
                               THEN {<<"process_slow", proc>>, One("cgroup_memory")} ELSE {}
           Looked(bad) == {One("systemd")} \cup IF One("systemd") \in bad THEN {} ELSE inside
           Unseen(bad) == {One("systemd"), <<"process_fast", proc>>} \cap bad # {} \/ proc = 0
<1>0. PICK bad \in ServiceFailures :
         cy' = [ts |-> cy.ts, due |-> cy.due, maint |-> cy.maint,
                malformed |-> cy.malformed, owner |-> cy.owner,
                out |-> [s \in DOMAIN cy.out \cup Looked(bad) |->
                          IF s \in Looked(bad) THEN Outcome(Looked(bad), bad)[s] ELSE cy.out[s]],
                pid |-> proc,
                read |-> IF kind = "process" THEN mono ELSE cy.read,
                samples |-> IF kind # "process" THEN cy.samples
                            ELSE IF Unseen(bad) THEN None ELSE counter,
                stamp |-> mono]
  BY Zenon DEF CaptureServices
<1> HIDE DEF Looked, Unseen
<1>1. cy'.out = [s \in DOMAIN cy.out \cup Looked(bad) |->
                   IF s \in Looked(bad) THEN Outcome(Looked(bad), bad)[s] ELSE cy.out[s]]
  BY <1>0
<1> DEFINE looked == Looked(bad)
<1>2. \A k \in looked : k[1] \in {"systemd", "cgroup_pids", "process_fast", "process_slow",
                                  "cgroup_memory"}
  BY DEF One, Looked
<1>3. \A k \in FailKeys \cup {One("service"), One("listener")} :
         k[1] \in {"collection", "retention", "checkpoint", "env", "service", "listener"}
  BY DEF FailKeys, One
<1>4. cy'.out = [s \in DOMAIN cy.out \cup looked |->
                      IF s \in looked THEN Outcome(looked, bad)[s] ELSE cy.out[s]]
  BY <1>1
<1> HIDE DEF looked
<1>5. \A k \in looked : k \notin FailKeys /\ k # One("service") /\ k # One("listener")
  BY <1>2, <1>3
<1>6. \A k \in looked : Outcome(looked, bad)[k] \in {"available", "failed"}
  BY DEF Outcome
<1> QED
  BY <1>4, <1>5, <1>6 DEF OutOK

(* Events and states agree after every step. *)
LEMMA AgreesInv ==
    ASSUME IInv, [Next]_vars
    PROVE  Shape(db') /\ Agrees(db') /\ CycleInv'
<1> USE DEF IInv
<1>1. CASE Tick \/ ServiceStop \/ ServiceStart \/ Remove \/ Create \/ UNCHANGED vars
  <2>1. HostFacts
    BY <1>1, HostSteps
  <2> QED BY <2>1 DEF HostFacts, CycleInv
<1>2. CASE Reboot \/ Start \/ Crash \/ TransactFails
  <2>1. EndFacts
    BY <1>2, EndSteps
  <2> QED BY <2>1 DEF EndFacts, CycleInv, Unfinished
<1>3. CASE RecordFailure \/ Checkpoint \/ RecordOverrun
  <2>1. RecordFacts
    BY <1>3, RecordSteps
  <2>2. CycleInv'
    BY <2>1 DEF RecordFacts, CycleInv, Unfinished
  <2> QED BY <1>3, <2>2, RecordDb DEF CycleInv
<1>4. CASE CaptureHost
  <2>1. CaptureFacts
    BY <1>4, CaptureSteps
  <2> QED BY <1>4, <2>1, HostOut DEF CaptureFacts, CycleInv
<1>5. CASE CaptureServices
  <2>1. CaptureFacts /\ pc = "capture_services"
    BY <1>5, CaptureSteps DEF CaptureServices
  <2> QED BY <1>5, <2>1, ServiceOut DEF CaptureFacts, CycleInv
<1>6. CASE Begin
  <2>1. Shape(db') /\ Agrees(db') /\ cy'.ts = now
    BY <1>6, BeginDb
  <2>2. pc' = "capture_host" /\ now' = now
    BY <1>6 DEF Begin
  <2> QED BY <2>1, <2>2 DEF CycleInv
<1>7. CASE Transact
  <2>1. TransactFacts
    BY <1>7, TransactSteps
  <2>2. OutOK(cy.out) /\ cy.ts \in Nat
    BY <2>1 DEF TransactFacts, CycleInv
  <2>3. Shape(db') /\ Agrees(db')
    BY <1>7, <2>2, TransactDb
  <2> QED BY <2>1, <2>3 DEF TransactFacts, CycleInv, Unfinished
<1> QED
  BY <1>1, <1>2, <1>3, <1>4, <1>5, <1>6, <1>7, Steps

(* Every cache has one of the two cadences, and they are positive. *)
LEMMA CadenceFacts ==
    /\ \A n \in Caches : Cadence[n] \in CadenceNames
    /\ \A x \in CadenceNames : Cadences[x] \in Nat /\ Cadences[x] > 0
<1>1. \A n \in Caches : Cadence[n] \in CadenceNames
  BY KeyFacts DEF Cadence, CadenceNames
<1>2. SocketInterval \in Nat /\ SlowInterval \in Nat /\ SocketInterval > 0 /\ SlowInterval > 0
  BY CollectorAssumption
<1> QED
  BY <1>1, <1>2 DEF Cadences, CadenceNames

(* Where no service is followed, nothing of it is stored. *)
LEMMA BlankInv ==
    ASSUME IInv, [Next]_vars
    PROVE  kind' = kind /\ (kind # "service" => Blank(db'))
<1> USE DEF IInv
<1>0. kind # "service" => Blank(db)
  BY DEF AttemptInv, QuietInv, Blank
<1>1. CASE Tick \/ ServiceStop \/ ServiceStart \/ Remove \/ Create \/ UNCHANGED vars
  BY <1>0, <1>1, HostSteps DEF HostFacts
<1>2. CASE Reboot \/ Start \/ Crash \/ TransactFails
  BY <1>0, <1>2, EndSteps DEF EndFacts
<1>3. CASE RecordFailure \/ Checkpoint \/ RecordOverrun
  <2>1. Light(db, db') \/ Blank(db')
    BY <1>3, RecordDb DEF CycleInv
  <2>2. Light(db, db') /\ Blank(db) => Blank(db')
    BY DEF Light, Blank
  <2> QED BY <1>0, <1>3, <2>1, <2>2, RecordSteps DEF RecordFacts
<1>4. CASE CaptureHost \/ CaptureServices
  BY <1>0, <1>4, CaptureSteps DEF CaptureFacts
<1>5. CASE Begin
  <2>1. kind' = kind
    BY <1>5 DEF Begin
  <2> QED BY <1>5, <2>1, BeginDb
<1>6. CASE Transact
  <2>1. TransactFacts
    BY <1>6, TransactSteps
  <2>2. OutOK(cy.out) /\ cy.ts \in Nat
    BY <2>1 DEF TransactFacts, CycleInv
  <2> QED BY <1>6, <2>1, <2>2, TransactDb DEF TransactFacts
<1> QED
  BY <1>1, <1>2, <1>3, <1>4, <1>5, <1>6, Steps

(* The attempts. *)
LEMMA AttemptStep ==
    ASSUME IInv, [Next]_vars
    PROVE  AttemptInv' /\ QuietInv'
<1> USE DEF IInv
<1>0. kind' = kind /\ (kind # "service" => Blank(db'))
  BY BlankInv
<1>1. QuietInv'
  BY <1>0 DEF QuietInv, Blank
<1>2. kind' # "service" => \A x \in CadenceNames : db'.attempt[x] = None
  BY <1>0 DEF Blank
<1>3. CASE Tick \/ ServiceStop \/ ServiceStart \/ Remove \/ Create \/ UNCHANGED vars
  <2>1. HostFacts
    BY <1>3, HostSteps
  <2> QED BY <1>1, <2>1 DEF HostFacts, AttemptInv
<1>4. CASE Reboot \/ Start \/ Crash \/ TransactFails
  <2>1. EndFacts
    BY <1>4, EndSteps
  <2> QED BY <1>1, <2>1 DEF EndFacts, AttemptInv
<1>5. CASE RecordFailure \/ Checkpoint \/ RecordOverrun
  <2>1. RecordFacts
    BY <1>5, RecordSteps
  <2>2. Light(db, db') \/ Blank(db')
    BY <1>5, RecordDb DEF CycleInv
  <2>3. \A x \in CadenceNames : db'.attempt[x] \in Nat \/ db'.attempt[x] = None
    BY <2>2 DEF Light, Blank, AttemptInv
  <2> QED BY <1>1, <1>2, <2>1, <2>3 DEF RecordFacts, AttemptInv
<1>6. CASE CaptureHost \/ CaptureServices
  <2>1. CaptureFacts
    BY <1>6, CaptureSteps
  <2> QED BY <1>1, <2>1 DEF CaptureFacts, AttemptInv
<1>7. CASE Begin
  <2>1. /\ kind = "service" => \A x \in CadenceNames : db'.attempt[x] =
                 IF Due(db.attempt[x], now, Cadences[x]) THEN now ELSE db.attempt[x]
        /\ cy'.ts = now
        /\ \A x \in CadenceNames : cy'.due[x] = Due(db.attempt[x], now, Cadences[x])
    BY <1>7, BeginDb
  <2>2. ASSUME NEW x \in CadenceNames
        PROVE  /\ db'.attempt[x] \in Nat \/ db'.attempt[x] = None
               /\ cy'.due[x] => db'.attempt[x] = None \/ db'.attempt[x] = cy'.ts
               /\ ~cy'.due[x] => /\ db'.attempt[x] \in Nat /\ db'.attempt[x] # None
                                 /\ cy'.ts - db'.attempt[x] < Cadences[x]
    <3>1. now \in Nat /\ (db.attempt[x] \in Nat \/ db.attempt[x] = None)
      BY DEF AttemptInv, CycleInv
    <3>2. cy'.due[x] = Due(db.attempt[x], now, Cadences[x])
      BY <2>1
    <3>3. CASE kind # "service"
      <4>1. db.attempt[x] = None /\ db'.attempt[x] = None
        BY <1>0, <1>2, <3>3 DEF AttemptInv
      <4>2. cy'.due[x]
        BY <3>2, <4>1 DEF Due
      <4> QED BY <4>1, <4>2
    <3>4. CASE kind = "service"
      <4>1. db'.attempt[x] = IF Due(db.attempt[x], now, Cadences[x]) THEN now ELSE db.attempt[x]
        BY <2>1, <3>4
      <4>2. CASE Due(db.attempt[x], now, Cadences[x])
        BY <2>1, <3>1, <3>2, <4>1, <4>2
      <4>3. CASE ~Due(db.attempt[x], now, Cadences[x])
        <5>1. db.attempt[x] # None /\ ~(now - db.attempt[x] >= Cadences[x])
          BY <4>3 DEF Due
        <5>2. Cadences[x] \in Nat
          BY CadenceFacts
        <5> QED BY <2>1, <3>1, <3>2, <4>1, <4>3, <5>1, <5>2
      <4> QED BY <4>2, <4>3
    <3> QED BY <3>3, <3>4
  <2> QED BY <1>1, <1>2, <2>2 DEF AttemptInv
<1>8. CASE Transact
  <2>1. TransactFacts
    BY <1>8, TransactSteps
  <2>2. OutOK(cy.out) /\ cy.ts \in Nat
    BY <2>1 DEF TransactFacts, CycleInv
  <2>3. kind = "service" => db'.attempt = db.attempt
    BY <1>8, <2>2, TransactDb
  <2>4. \A x \in CadenceNames : db'.attempt[x] \in Nat \/ db'.attempt[x] = None
    BY <1>0, <1>2, <2>3 DEF AttemptInv
  <2> QED BY <1>1, <1>2, <2>1, <2>4 DEF TransactFacts, AttemptInv
<1> QED
  BY <1>3, <1>4, <1>5, <1>6, <1>7, <1>8, Steps

(* The caches and the estimates, one at a time. *)
FreshAt(n) ==
    ~missed[n] /\ ~(pc \in Unfinished /\ cy.due[Cadence[n]]) =>
       \/ db.attempt[Cadence[n]] = None
       \/ db.cache[n] # None /\ db.cache[n].at = db.attempt[Cadence[n]]

(* An estimate and its cache. *)
EstimateAt(n) ==
    db.pt[n] # None /\ db.pt[n].q = "estimated" =>
       /\ db.pt[n].of = db.pt[n].v /\ db.pt[n].at = db.cache[n].at
       /\ db.pt[n].ts \in Nat /\ db.pt[n].ts <= now
       /\ (pc \in Unfinished => db.pt[n].ts <= cy.ts)
       /\ missed[n] \/ db.pt[n].ts - db.pt[n].at < Cadences[Cadence[n]]

(* The transaction and one cache: the four cases of CacheStep. *)
LEMMA TransactCache ==
    ASSUME IInv, Transact, kind = "service", NEW n \in Caches
    PROVE  FreshAt(n)' /\ EstimateAt(n)'
<1> USE DEF IInv
<1>1. TransactFacts
  BY TransactSteps
<1>2. OutOK(cy.out) /\ cy.ts \in Nat /\ now \in Nat /\ cy.ts <= now
  BY <1>1 DEF TransactFacts, CycleInv
<1>3. db'.attempt = db.attempt /\ CacheStep(db, db', cy, n)
  BY <1>2, TransactDb
<1> DEFINE x == Cadence[n]
           i == Cadences[Cadence[n]]
<1>4. x \in CadenceNames /\ i \in Nat /\ i > 0
  BY CadenceFacts
<1>5. pc' \notin Unfinished /\ now' = now /\ pc \in Unfinished
  BY <1>1 DEF TransactFacts, Unfinished
<1>6. /\ cy.due[x] => db.attempt[x] = None \/ db.attempt[x] = cy.ts
      /\ ~cy.due[x] => db.attempt[x] \in Nat /\ db.attempt[x] # None /\ cy.ts - db.attempt[x] < i
  BY <1>4, <1>5 DEF AttemptInv
<1>7. FreshAt(n) /\ EstimateAt(n)
  BY DEF CacheInv, EstimateInv, FreshAt, EstimateAt
<1>8. /\ cy.due[x] /\ ~missed'[n] => db'.cache[n] # None /\ db'.cache[n].at = cy.ts
      /\ ~cy.due[x] => missed'[n] = missed[n]
  BY <1>1 DEF TransactFacts
<1>9. ~cy.due[x] => db'.cache[n] = db.cache[n]
  BY <1>3 DEF CacheStep
<1>10. FreshAt(n)'
  <2>1. CASE cy.due[x]
    BY <1>3, <1>6, <1>8, <2>1 DEF FreshAt
  <2>2. CASE ~cy.due[x]
    BY <1>3, <1>7, <1>8, <1>9, <2>2 DEF FreshAt
  <2> QED BY <2>1, <2>2
<1>11. EstimateAt(n)'
  <2>1. SUFFICES ASSUME db'.pt[n] # None, db'.pt[n].q = "estimated"
                 PROVE  /\ db'.pt[n].of = db'.pt[n].v /\ db'.pt[n].at = db'.cache[n].at
                        /\ db'.pt[n].ts \in Nat /\ db'.pt[n].ts <= now
                        /\ missed'[n] \/ db'.pt[n].ts - db'.pt[n].at < i
    BY <1>5 DEF EstimateAt
  <2>2. CASE db'.cache[n] = db.cache[n] /\ db'.pt[n] = db.pt[n]
    <3>1. /\ db.pt[n].of = db.pt[n].v /\ db.pt[n].at = db.cache[n].at
          /\ db.pt[n].ts \in Nat /\ db.pt[n].ts <= now /\ db.pt[n].ts <= cy.ts
          /\ missed[n] \/ db.pt[n].ts - db.pt[n].at < i
      BY <1>5, <1>7, <2>1, <2>2 DEF EstimateAt
    <3>2. CASE ~cy.due[x]
      BY <1>8, <2>2, <3>1, <3>2
    <3>3. CASE cy.due[x]
      <4>1. missed'[n] \/ db.cache[n].at = cy.ts
        BY <1>8, <2>2, <3>3
      <4> QED BY <1>2, <1>4, <2>2, <3>1, <4>1
    <3> QED BY <3>2, <3>3
  <2>3. CASE cy.due[x] /\ db'.cache[n] = [of |-> cy.pid, at |-> cy.ts]
             /\ db'.pt[n].ts = cy.ts /\ db'.pt[n].v = cy.pid
             /\ db'.pt[n].of = cy.pid /\ db'.pt[n].at = cy.ts
    BY <1>2, <1>4, <2>3
  <2>4. CASE /\ db'.cache[n] = db.cache[n] /\ db.cache[n] # None /\ db.cache[n].of = cy.pid
             /\ db'.pt[n].ts = cy.ts /\ db'.pt[n].v = cy.pid
             /\ db'.pt[n].of = db.cache[n].of /\ db'.pt[n].at = db.cache[n].at
    <3>1. CASE cy.due[x]
      <4>1. missed'[n] \/ db.cache[n].at = cy.ts
        BY <1>8, <2>4, <3>1
      <4> QED BY <1>2, <1>4, <2>4, <4>1
    <3>2. CASE ~cy.due[x]
      <4>1. missed'[n] \/ db.cache[n].at = db.attempt[x]
        BY <1>6, <1>7, <1>8, <3>2 DEF FreshAt
      <4> QED BY <1>2, <1>4, <1>6, <2>4, <3>2, <4>1
    <3> QED BY <3>1, <3>2
  <2> QED BY <1>3, <2>1, <2>2, <2>3, <2>4 DEF CacheStep
<1> QED
  BY <1>10, <1>11

(* The caches and the estimates. *)
LEMMA CacheInvStep ==
    ASSUME IInv, [Next]_vars
    PROVE  CacheInv' /\ EstimateInv'
<1> USE DEF IInv
<1> SUFFICES ASSUME NEW n \in Caches PROVE FreshAt(n)' /\ EstimateAt(n)'
  BY DEF CacheInv, EstimateInv, FreshAt, EstimateAt
<1>0. FreshAt(n) /\ EstimateAt(n)
  BY DEF CacheInv, EstimateInv, FreshAt, EstimateAt
<1>a. n \in Points /\ Cadence[n] \in CadenceNames /\ now \in Nat
  BY CadenceFacts, KeyFacts DEF CycleInv
<1>b. kind' = kind /\ (kind # "service" => Blank(db'))
  BY BlankInv
<1>c. CASE kind # "service"
  BY <1>a, <1>b, <1>c DEF Blank, FreshAt, EstimateAt
<1>d. CASE kind = "service"
  <2>3. CASE Tick \/ ServiceStop \/ ServiceStart \/ Remove \/ Create \/ UNCHANGED vars
    <3>1. HostFacts
      BY <2>3, HostSteps
    <3> QED BY <1>0, <1>a, <3>1 DEF HostFacts, FreshAt, EstimateAt
  <2>4. CASE Reboot \/ Start \/ Crash \/ TransactFails
    <3>1. EndFacts
      BY <2>4, EndSteps
    <3>2. ~missed'[n] => ~missed[n] /\ ~(pc \in Unfinished /\ cy.due[Cadence[n]])
      BY <3>1 DEF EndFacts, Owed
    <3> QED BY <1>0, <1>a, <3>1, <3>2 DEF EndFacts, FreshAt, EstimateAt
  <2>5. CASE RecordFailure \/ Checkpoint \/ RecordOverrun
    <3>1. RecordFacts
      BY <2>5, RecordSteps
    <3>2. Light(db, db')
      BY <1>d, <2>5, RecordDb DEF CycleInv
    <3>3. db'.attempt = db.attempt /\ db'.cache[n] = db.cache[n] /\ db'.pt[n] = db.pt[n]
      BY <1>a, <3>2 DEF Light
    <3> QED BY <1>0, <3>1, <3>3 DEF RecordFacts, FreshAt, EstimateAt
  <2>6. CASE CaptureHost \/ CaptureServices
    <3>1. CaptureFacts
      BY <2>6, CaptureSteps
    <3> QED BY <1>0, <3>1 DEF CaptureFacts, FreshAt, EstimateAt
  <2>7. CASE Begin
    <3> DEFINE x == Cadence[n]
    <3>1. /\ db'.attempt[x] = IF Due(db.attempt[x], now, Cadences[x]) THEN now ELSE db.attempt[x]
          /\ db'.cache = db.cache /\ db'.pt = db.pt /\ cy'.ts = now
          /\ cy'.due[x] = Due(db.attempt[x], now, Cadences[x])
      BY <1>a, <1>d, <2>7, BeginDb
    <3>2. pc \notin Unfinished /\ pc' \in Unfinished /\ now' = now /\ missed' = missed
      BY <2>7 DEF Begin, Unfinished
    <3>3. FreshAt(n)'
      BY <1>0, <3>1, <3>2 DEF FreshAt
    <3>4. EstimateAt(n)'
      BY <1>0, <3>1, <3>2 DEF EstimateAt
    <3> QED BY <3>3, <3>4
  <2>8. CASE Transact
    BY <1>d, <2>8, TransactCache
  <2> QED BY <2>3, <2>4, <2>5, <2>6, <2>7, <2>8, Steps
<1> QED
  BY <1>c, <1>d

(* What an event of the host does to the two ghosts, when a service is followed. *)
LEMMA ObserveStep ==
    ASSUME IInv, kind = "service", Observe, now' = now \/ now' = now + 1
    PROVE  /\ served' \in Int /\ served' <= now' /\ served' >= served
           /\ out_of_service' \in Int /\ out_of_service' <= now'
           /\ out_of_service' >= out_of_service
           /\ (proc' # 0 /\ listening') => served' = now'
           /\ ~(proc' # 0 /\ listening') => out_of_service' = now'
<1>1. /\ now \in Nat /\ served \in Int /\ served <= now
      /\ out_of_service \in Int /\ out_of_service <= now
  BY DEF IInv, CycleInv, ServeInv
<1>2. CASE proc' # 0 /\ listening'
  <2>1. served' = now' /\ out_of_service' = out_of_service
    BY <1>2 DEF Observe
  <2> QED BY <1>1, <1>2, <2>1
<1>3. CASE ~(proc' # 0 /\ listening')
  <2>1. out_of_service' = now' /\ served' = served
    BY <1>3 DEF Observe, Serving
  <2> QED BY <1>1, <1>3, <2>1
<1> QED
  BY <1>2, <1>3

(* The ghosts, and what a cycle under way has read. *)
LEMMA ServeStep ==
    ASSUME IInv, [Next]_vars, kind = "service"
    PROVE  ServeInv' /\ served' \in Int /\ served' >= served
           /\ out_of_service' \in Int /\ out_of_service' >= out_of_service
<1> USE DEF IInv
<1>0. /\ served \in Int /\ served <= now /\ out_of_service \in Int /\ out_of_service <= now
      /\ (proc # 0 /\ listening) => served = now
      /\ ~(proc # 0 /\ listening) => out_of_service = now
      /\ pc \in {"capture_services", "transact"} /\ cy.owner # 0 => served >= cy.ts
      /\ pc = "capture_services" /\ cy.owner # proc => out_of_service >= cy.ts
      /\ pc = "transact" /\ (cy.pid = 0 \/ cy.owner # cy.pid) => out_of_service >= cy.ts
      /\ now \in Nat /\ cy.ts \in Nat /\ cy.ts <= now
  BY DEF ServeInv, CycleInv
<1>1. CASE Tick \/ ServiceStop \/ ServiceStart
  <2>1. Observe /\ (now' = now \/ now' = now + 1) /\ pc' = pc /\ cy' = cy /\ Between
    BY <1>1 DEF Tick, ServiceStop, ServiceStart, daemon
  <2>2. /\ served' \in Int /\ served' <= now' /\ served' >= served
        /\ out_of_service' \in Int /\ out_of_service' <= now'
        /\ out_of_service' >= out_of_service
        /\ (proc' # 0 /\ listening') => served' = now'
        /\ ~(proc' # 0 /\ listening') => out_of_service' = now'
    BY <2>1, ObserveStep
  <2>3. pc = "capture_services" /\ cy.owner # proc' => out_of_service' >= cy.ts
    <3>1. CASE Tick
      <4>1. proc' = proc
        BY <3>1 DEF Tick
      <4> QED BY <1>0, <2>2, <4>1
    <3>2. CASE ServiceStop
      <4>1. proc' = 0 /\ now' = now
        BY <3>2 DEF ServiceStop
      <4> QED BY <1>0, <2>2, <4>1
    <3>3. CASE ServiceStart
      <4>1. proc = 0
        BY <3>3 DEF ServiceStart
      <4> QED BY <1>0, <2>2, <4>1
    <3> QED BY <1>1, <3>1, <3>2, <3>3
  <2>4. pc' # "transact"
    BY <2>1 DEF Between
  <2> QED BY <1>0, <2>1, <2>2, <2>3, <2>4 DEF ServeInv
<1>2. CASE Remove \/ Create \/ UNCHANGED vars
  <2>1. UNCHANGED <<kind, now, proc, listening, served, out_of_service, pc, cy>>
    BY <1>2 DEF Remove, Create, vars, host, daemon
  <2> QED BY <1>0, <2>1 DEF ServeInv
<1>3. CASE Reboot
  <2>1. served' = now /\ out_of_service' = now /\ now' = now /\ pc' = "down"
    BY <1>3 DEF Reboot
  <2> QED BY <1>0, <2>1 DEF ServeInv
<1>4. CASE Start \/ Crash \/ TransactFails \/ RecordFailure \/ Checkpoint \/ RecordOverrun
           \/ Begin \/ Transact
  <2>1. UNCHANGED <<now, proc, listening, served, out_of_service>>
    BY <1>4 DEF Start, Crash, TransactFails, RecordFailure, Checkpoint, RecordOverrun, Begin,
                Transact, host
  <2>2. pc' \notin {"capture_services", "transact"}
    BY <1>4 DEF Start, Crash, TransactFails, RecordFailure, Checkpoint, RecordOverrun, Begin,
                Transact
  <2> QED BY <1>0, <2>1, <2>2 DEF ServeInv
<1>5. CASE CaptureHost
  <2>1. UNCHANGED <<now, proc, listening, served, out_of_service>> /\ pc' = "capture_services"
    BY <1>5 DEF CaptureHost, host
  <2>2. cy'.owner = (IF listening THEN proc ELSE 0) /\ cy'.ts = cy.ts
    BY <1>5 DEF CaptureHost
  <2> QED BY <1>0, <2>1, <2>2 DEF ServeInv
<1>6. CASE CaptureServices
  <2>1. /\ UNCHANGED <<now, proc, listening, served, out_of_service>>
        /\ pc = "capture_services" /\ pc' = "transact"
    BY <1>6 DEF CaptureServices, host
  <2>2. cy'.owner = cy.owner /\ cy'.pid = proc /\ cy'.ts = cy.ts
    BY <1>6 DEF CaptureServices
  <2>3. /\ served' \in Int /\ served' <= now' /\ out_of_service' \in Int /\ out_of_service' <= now'
        /\ (proc' # 0 /\ listening') => served' = now'
        /\ ~(proc' # 0 /\ listening') => out_of_service' = now'
    BY <1>0, <2>1
  <2>4. cy'.owner # 0 => served' >= cy'.ts
    BY <1>0, <2>1, <2>2
  <2>5. (cy'.pid = 0 \/ cy'.owner # cy'.pid) => out_of_service' >= cy'.ts
    BY <1>0, <2>1, <2>2
  <2> QED BY <1>0, <2>1, <2>3, <2>4, <2>5 DEF ServeInv
<1> QED
  BY <1>1, <1>2, <1>3, <1>4, <1>5, <1>6, Steps

(* What the points say of the tunnel. *)
LEMMA TunnelStepInv ==
    ASSUME IInv, [Next]_vars
    PROVE  TunnelInv'
<1> USE DEF IInv
<1>0. kind' = kind
  BY BlankInv
<1> SUFFICES ASSUME kind = "service" PROVE TunnelInv'
  BY <1>0 DEF TunnelInv
<1>g. /\ served \in Int /\ served' \in Int /\ served' >= served
      /\ out_of_service \in Int /\ out_of_service' \in Int /\ out_of_service' >= out_of_service
  BY ServeStep DEF ServeInv
<1>p. "tunnel_active" \in Points /\ "ownership" \in Points
  BY DEF Points
<1>1. ASSUME /\ db'.pt["tunnel_active"] = db.pt["tunnel_active"]
             /\ db'.pt["ownership"] = db.pt["ownership"],
             (db'.cycle = db.cycle /\ db'.member = db.member) \/ ~db'.cycle.ok
      PROVE  TunnelInv'
  <2> DEFINE P == db.pt["tunnel_active"]
             O == db.pt["ownership"]
  <2>1. /\ Usable(P) /\ P.v # 0 /\ Usable(O) /\ O.v # 0 => O.ts \in Nat /\ served >= O.ts
        /\ Usable(P) /\ (P.v = 0 \/ (Usable(O) /\ O.v = 0)) =>
               P.ts \in Nat /\ out_of_service >= P.ts
        /\ db.cycle # None /\ db.cycle.ok /\ db.member => O.ts = db.cycle.ts
    BY DEF TunnelInv
  <2>2. db'.pt["tunnel_active"] = P /\ db'.pt["ownership"] = O
    BY <1>1
  <2> HIDE DEF P, O
  <2>3. /\ Usable(P) /\ P.v # 0 /\ Usable(O) /\ O.v # 0 => O.ts \in Nat /\ served' >= O.ts
        /\ Usable(P) /\ (P.v = 0 \/ (Usable(O) /\ O.v = 0)) =>
               P.ts \in Nat /\ out_of_service' >= P.ts
    BY <1>g, <2>1
  <2>4. db'.cycle # None /\ db'.cycle.ok /\ db'.member => O.ts = db'.cycle.ts
    BY <1>1, <2>1
  <2> QED BY <2>2, <2>3, <2>4 DEF TunnelInv
<1>2. CASE Tick \/ ServiceStop \/ ServiceStart \/ Remove \/ Create \/ UNCHANGED vars
  BY <1>1, <1>2, HostSteps DEF HostFacts
<1>3. CASE Reboot \/ Start \/ Crash \/ TransactFails
  BY <1>1, <1>3, EndSteps DEF EndFacts
<1>4. CASE RecordFailure \/ Checkpoint \/ RecordOverrun
  <2>1. Light(db, db')
    BY <1>4, RecordDb DEF CycleInv
  <2> QED BY <1>1, <1>p, <2>1 DEF Light
<1>5. CASE CaptureHost \/ CaptureServices
  BY <1>1, <1>5, CaptureSteps DEF CaptureFacts
<1>6. CASE Begin
  BY <1>1, <1>6, BeginDb
<1>7. CASE Transact
  <2>1. TransactFacts
    BY <1>7, TransactSteps
  <2>2. OutOK(cy.out) /\ cy.ts \in Nat /\ pc = "transact"
    BY <2>1 DEF TransactFacts, CycleInv
  <2>3. /\ TunnelStep(db, db', cy)
        /\ db'.cycle = [ts |-> cy.ts, ok |-> TRUE] /\ db'.member = Discovered(cy)
    BY <1>7, <2>2, TransactDb
  <2>4. /\ cy.owner # 0 => served >= cy.ts
        /\ (cy.pid = 0 \/ cy.owner # cy.pid) => out_of_service >= cy.ts
    BY <2>2 DEF ServeInv
  <2> DEFINE P == db'.pt["tunnel_active"]
             O == db'.pt["ownership"]
  <2>5. CASE /\ ~Discovered(cy)
             /\ P = db.pt["tunnel_active"] /\ O = db.pt["ownership"]
    <3>1. ~db'.member
      BY <2>3, <2>5
    <3>2. /\ Usable(P) /\ P.v # 0 /\ Usable(O) /\ O.v # 0 => O.ts \in Nat /\ served >= O.ts
          /\ Usable(P) /\ (P.v = 0 \/ (Usable(O) /\ O.v = 0)) =>
                 P.ts \in Nat /\ out_of_service >= P.ts
      BY <2>5 DEF TunnelInv
    <3> HIDE DEF P, O
    <3>3. /\ Usable(P) /\ P.v # 0 /\ Usable(O) /\ O.v # 0 => O.ts \in Nat /\ served' >= O.ts
          /\ Usable(P) /\ (P.v = 0 \/ (Usable(O) /\ O.v = 0)) =>
                 P.ts \in Nat /\ out_of_service' >= P.ts
      BY <1>g, <3>2
    <3> QED BY <3>1, <3>3 DEF TunnelInv, P, O
  <2>6. CASE /\ P.ts = cy.ts /\ O.ts = cy.ts
             /\ P.q # "unavailable" => P.v = Flag(cy.pid # 0)
             /\ O.q # "unavailable" => cy.pid # 0 /\ O.v = Flag(cy.owner = cy.pid)
    <3> HIDE DEF P, O
    <3>1. Usable(P) /\ P.v # 0 /\ Usable(O) /\ O.v # 0 => O.ts \in Nat /\ served' >= O.ts
      BY <1>g, <2>2, <2>4, <2>6 DEF Usable, Flag
    <3>2. Usable(P) /\ (P.v = 0 \/ (Usable(O) /\ O.v = 0)) =>
                 P.ts \in Nat /\ out_of_service' >= P.ts
      BY <1>g, <2>2, <2>4, <2>6 DEF Usable, Flag
    <3>3. O.ts = db'.cycle.ts
      BY <2>3, <2>6
    <3> QED BY <3>1, <3>2, <3>3 DEF TunnelInv, P, O
  <2> QED BY <2>3, <2>5, <2>6 DEF TunnelStep
<1> QED
  BY <1>2, <1>3, <1>4, <1>5, <1>6, <1>7, Steps

(* The invariant holds initially. *)
LEMMA InvInit == Init => IInv
<1> SUFFICES ASSUME Init PROVE IInv
  OBVIOUS
<1>1. /\ now = 0 /\ cy = Idle /\ pc = "idle" /\ db = EmptyDb /\ proc = 1 /\ listening = TRUE
      /\ served = 0 /\ out_of_service = -1
  BY DEF Init
<1>2. cy.ts = 0 /\ pc \notin Unfinished
  BY <1>1 DEF Idle, Unfinished
<1>3. Shape(db) /\ Agrees(db) /\ Blank(db) /\ db.cycle = None
  BY <1>1, EmptyDbFacts
<1>4. CycleInv /\ AttemptInv /\ QuietInv
  BY <1>1, <1>2, <1>3 DEF CycleInv, AttemptInv, QuietInv, Blank
<1>5. CacheInv /\ EstimateInv
  BY <1>3, CadenceFacts, KeyFacts DEF CacheInv, EstimateInv, Blank
<1>6. ServeInv
  BY <1>1 DEF ServeInv
<1>7. TunnelInv
  <2>1. db.pt["tunnel_active"] = None /\ db.pt["ownership"] = None
    BY <1>3 DEF Blank, Points
  <2> QED BY <1>3, <2>1 DEF TunnelInv, Usable
<1> QED
  BY <1>3, <1>4, <1>5, <1>6, <1>7 DEF IInv

(* Every step keeps it. *)
LEMMA InvNext == IInv /\ [Next]_vars => IInv'
<1> SUFFICES ASSUME IInv, [Next]_vars PROVE IInv'
  OBVIOUS
<1>1. ServeInv'
  <2>1. kind' = kind
    BY BlankInv
  <2>2. CASE kind # "service"
    BY <2>1, <2>2 DEF ServeInv
  <2> QED BY <2>2, ServeStep
<1> QED
  BY <1>1, AgreesInv, AttemptStep, CacheInvStep, TunnelStepInv DEF IInv

(* The database of every behaviour satisfies it. *)
THEOREM CollectorInvariant == Spec => []IInv
BY InvInit, InvNext, PTL DEF Spec

(* Events and saved states agree in every reachable state, for any cadences and  *)
(* any number of failures, crashes, rollbacks and reboots (collector.py's events *)
(* and collector_state, EventState).                                             *)
THEOREM EventsAlwaysTell == Spec => []EventTellsState
<1>1. IInv => EventTellsState
  <2> SUFFICES ASSUME IInv PROVE EventTellsState
    OBVIOUS
  <2>1. Agrees(db)
    BY DEF IInv
  <2>2. \A k \in Sources \ db.dropped :
          /\ db.state[k] = "failed" => db.told[k] # None
          /\ db.told[k] # None => (db.state[k] = "failed") =
                                  (db.told[k].code = "metric_source_unavailable")
    BY <2>1 DEF Agrees, SourceAgrees
  <2>3. \A k \in FailKeys : (db.state[k] = "failed") =
              (db.told[k] # None /\ db.told[k].code \in FailureCodes)
    BY <2>1 DEF Agrees, FailAgrees
  <2>4. {One(f) : f \in {"collection", "retention", "checkpoint", "env"}} = FailKeys
    BY DEF FailKeys
  <2>5. FailureCodes = {"collection_failed", "env_parse_error", "database_retention_failed",
                        "wal_checkpoint_failed"}
    BY DEF FailureCodes
  <2>6. /\ db.told[One("service")] # None =>
              db.told[One("service")].code = db.state[One("service")]
        /\ db.told[One("listener")] # None =>
              (db.told[One("listener")].code = "listener_returned") =
              (db.state[One("listener")] = "ok")
    BY <2>1 DEF Agrees, ServiceAgrees, ListenerAgrees
  <2> QED BY <2>2, <2>3, <2>4, <2>5, <2>6, Zenon DEF EventTellsState
<1> QED
  BY <1>1, CollectorInvariant, PTL

(* An estimate is of the process that runs and younger than its cadence, unless  *)
(* the refresh that was due was missed (the caches of _process_slow_values,      *)
(* _cgroup_memory_values and the two socket metrics).                            *)
THEOREM EstimatesAlwaysHonest == Spec => []EstimateHonest
<1>1. IInv => EstimateHonest
  BY DEF IInv, EstimateInv, EstimateHonest
<1> QED
  BY <1>1, CollectorInvariant, PTL

-----------------------------------------------------------------------------
(* What health reads *)

(* The metrics of a snapshot: the newest points, those of a tunnel only while it is  *)
(* a current entity.                                                                 *)
LEMMA SnapshotMetrics ==
    ASSUME Shape(db), NEW p \in {"tunnel_active", "ownership"}
    PROVE  LET m == Snapshot(db, now).metrics[p]
           IN  ~Unusable(m) =>
                 /\ db.member /\ Usable(db.pt[p]) /\ m.v = db.pt[p].v /\ m.ts = db.pt[p].ts
                 /\ ~(2 * (now - db.pt[p].ts) > 5)
<1> DEFINE points == LatestPoints(db)
           m == Snapshot(db, now).metrics[p]
<1>1. p \in Points /\ p \in TunnelPoints /\ DOMAIN db.pt = Points /\ p # "filesystem"
  BY DEF Points, TunnelPoints, Shape
<1>2. DOMAIN points = Points
      /\ points[p] = IF "tunnel" \notin CurrentEntities(db) THEN None ELSE db.pt[p]
  BY <1>1 DEF LatestPoints
<1>3. "tunnel" \in CurrentEntities(db) => db.member
  BY DEF CurrentEntities
<1> DEFINE Metric(q) == IF points[q] = None THEN None
                        ELSE [ts |-> points[q].ts, q |-> points[q].q, v |-> points[q].v,
                              stale |-> 2 * (now - points[q].ts) > 5 * CadenceFor(q)]
<1>4. Snapshot(db, now).metrics = [q \in DOMAIN points |-> Metric(q)]
  BY DEF Snapshot
<1> HIDE DEF points
<1>5. m = Metric(p)
  BY <1>1, <1>2, <1>4
<1>6. 5 * CadenceFor(p) = 5
  BY <1>1 DEF CadenceFor
<1>7. ASSUME ~Unusable(m)
      PROVE  /\ db.member /\ Usable(db.pt[p]) /\ m.v = db.pt[p].v /\ m.ts = db.pt[p].ts
             /\ ~(2 * (now - db.pt[p].ts) > 5)
  <2>1. m # None /\ m.q # "unavailable" /\ ~m.stale
    BY <1>7 DEF Unusable
  <2>2. points[p] # None
    BY <1>5, <2>1
  <2>3. points[p] = db.pt[p] /\ db.member
    BY <1>2, <1>3, <2>2
  <2>4. m.v = points[p].v /\ m.ts = points[p].ts /\ m.q = points[p].q
        /\ m.stale = (2 * (now - points[p].ts) > 5)
    <3>1. m = [ts |-> points[p].ts, q |-> points[p].q, v |-> points[p].v,
               stale |-> 2 * (now - points[p].ts) > 5 * CadenceFor(p)]
      BY <1>5, <2>2
    <3> QED BY <1>6, <3>1
  <2>5. ~(2 * (now - db.pt[p].ts) > 5)
    BY <2>1, <2>3, <2>4, Zenon
  <2> QED BY <2>1, <2>2, <2>3, <2>4, <2>5 DEF Usable
<1> QED
  BY <1>7

(* A tunnel that is shown healthy, or down, is what its points say. *)
LEMMA TunnelVerdict ==
    ASSUME Shape(db)
    PROVE  LET P == db.pt["tunnel_active"]
               O == db.pt["ownership"]
               verdict == EvaluateTunnel(Snapshot(db, now))
           IN  /\ verdict = "healthy" =>
                     /\ Usable(P) /\ P.v # 0 /\ Usable(O) /\ O.v # 0 /\ db.member
                     /\ ~(2 * (now - O.ts) > 5)
               /\ verdict = "down" =>
                     Usable(P) /\ (P.v = 0 \/ (Usable(O) /\ O.v = 0))
<1> DEFINE s == Snapshot(db, now)
           active == s.metrics["tunnel_active"]
           own == s.metrics["ownership"]
<1>1. ~Unusable(active) => /\ db.member /\ Usable(db.pt["tunnel_active"])
                           /\ active.v = db.pt["tunnel_active"].v
  BY SnapshotMetrics
<1>2. ~Unusable(own) => /\ Usable(db.pt["ownership"]) /\ own.v = db.pt["ownership"].v
                        /\ ~(2 * (now - db.pt["ownership"].ts) > 5)
  BY SnapshotMetrics
<1>3. EvaluateTunnel(s) = IF Unusable(active) THEN "unknown"
                          ELSE IF active.v = 0 THEN "down"
                          ELSE IF Unusable(own) THEN "unknown"
                          ELSE IF own.v = 0 THEN "down" ELSE "healthy"
  BY DEF EvaluateTunnel
<1> HIDE DEF s, active, own
<1>4. /\ EvaluateTunnel(s) = "healthy" =>
            ~Unusable(active) /\ active.v # 0 /\ ~Unusable(own) /\ own.v # 0
      /\ EvaluateTunnel(s) = "down" =>
            ~Unusable(active) /\ (active.v = 0 \/ (~Unusable(own) /\ own.v = 0))
  BY <1>3
<1> QED
  BY <1>1, <1>2, <1>4 DEF s

(* The whole is healthy only with a fresh and successful cycle and a healthy tunnel. *)
LEMMA WholeVerdict ==
    ASSUME NEW s, Required(s), NEW sources, EvaluateSnapshot(s, sources) = "healthy"
    PROVE  /\ s.cycle # None /\ ~(s.generated_at - s.cycle.ts > StaleAfter) /\ s.cycle.ok
           /\ EvaluateTunnel(s) = "healthy"
<1> DEFINE all == {EvaluateNode(s, sources)} \cup {EvaluateService(s), EvaluateTunnel(s)}
<1>1. all \cap {"critical", "down"} = {} /\ "unknown" \notin all /\ "degraded" \notin all
  BY DEF EvaluateSnapshot
<1>2. EvaluateNode(s, sources) \notin {"critical", "unknown"}
  BY <1>1
<1>3. s.cycle # None /\ ~(s.generated_at - s.cycle.ts > StaleAfter) /\ s.cycle.ok
  BY <1>2 DEF EvaluateNode
<1>4. EvaluateTunnel(s) \in {"unknown", "down", "healthy"}
  BY DEF EvaluateTunnel
<1> QED
  BY <1>1, <1>3, <1>4

(* Health is right about the tunnel in every reachable state: nothing that was out  *)
(* of service for longer than its freshness is called healthy, and nothing is called *)
(* down that was not out of service since the cycle that says so began               *)
(* (evaluate_tunnels, evaluate_snapshot).                                            *)
THEOREM HealthAlwaysTrue == Spec => []HealthIsTrue
<1>1. IInv => HealthIsTrue
  <2> SUFFICES ASSUME IInv PROVE HealthIsTrue
    OBVIOUS
  <2> DEFINE P == db.pt["tunnel_active"]
             O == db.pt["ownership"]
             s == Snapshot(db, now)
  <2>0. Shape(db) /\ now \in Nat /\ StaleAfter \in Nat
    BY CollectorAssumption DEF IInv, CycleInv
  <2>1. /\ EvaluateTunnel(s) = "healthy" =>
              /\ Usable(P) /\ P.v # 0 /\ Usable(O) /\ O.v # 0 /\ db.member
              /\ ~(2 * (now - O.ts) > 5)
        /\ EvaluateTunnel(s) = "down" => Usable(P) /\ (P.v = 0 \/ (Usable(O) /\ O.v = 0))
    BY <2>0, TunnelVerdict
  <2>2. s.cycle = db.cycle /\ s.generated_at = now
    BY DEF Snapshot, LatestCycle
  <2>3. CASE kind # "service"
    <3>1. P = None
      BY <2>3 DEF IInv, QuietInv, Points
    <3>2. EvaluateTunnel(s) # "healthy" /\ EvaluateTunnel(s) # "down"
      BY <2>1, <3>1 DEF Usable
    <3>3. Required(s) => EvaluateSnapshot(s, RequiredSources) # "healthy"
      BY <3>2, WholeVerdict
    <3> QED BY <3>2, <3>3 DEF HealthIsTrue, HealthyIsTrue, DownIsTrue
  <2>4. CASE kind = "service"
    <3>1. /\ Usable(P) /\ P.v # 0 /\ Usable(O) /\ O.v # 0 => O.ts \in Nat /\ served >= O.ts
          /\ Usable(P) /\ (P.v = 0 \/ (Usable(O) /\ O.v = 0)) =>
                P.ts \in Nat /\ out_of_service >= P.ts
          /\ db.cycle # None /\ db.cycle.ok /\ db.member => O.ts = db.cycle.ts
      BY <2>4 DEF IInv, TunnelInv
    <3>2. served \in Int /\ out_of_service \in Int
      BY <2>4 DEF IInv, ServeInv
    <3> HIDE DEF P, O, s
    <3>3. 2 * (now - served) > 5 => EvaluateTunnel(s) # "healthy"
      BY <2>0, <2>1, <3>1, <3>2
    <3>4. now - served > StaleAfter =>
             ~(Required(s) /\ EvaluateSnapshot(s, RequiredSources) = "healthy")
      <4>1. SUFFICES ASSUME Required(s), EvaluateSnapshot(s, RequiredSources) = "healthy"
                     PROVE  ~(now - served > StaleAfter)
        OBVIOUS
      <4>2. /\ s.cycle # None /\ ~(s.generated_at - s.cycle.ts > StaleAfter) /\ s.cycle.ok
            /\ EvaluateTunnel(s) = "healthy"
        BY <4>1, WholeVerdict
      <4>3. O.ts = db.cycle.ts /\ O.ts \in Nat /\ served >= O.ts
        BY <2>1, <2>2, <3>1, <4>2
      <4> QED BY <2>0, <2>2, <3>2, <4>2, <4>3
    <3>5. P # None /\ out_of_service < P.ts => EvaluateTunnel(s) # "down"
      BY <2>1, <3>1, <3>2
    <3> QED BY <3>3, <3>4, <3>5 DEF HealthIsTrue, HealthyIsTrue, DownIsTrue, P, s
  <2> QED BY <2>3, <2>4
<1> QED
  BY <1>1, CollectorInvariant, PTL

-----------------------------------------------------------------------------
(* Types, and the counters in the database *)

(* A point has a quality, a state one of the values. *)
Graded(x) == x # None => x.q \in {"exact", "derived", "estimated", "unavailable"}

Typed(d) ==
    /\ Shape(d)
    /\ d.state \in [Keys -> {None} \cup Values]
    /\ \A p \in Points : Graded(d.pt[p])
    /\ d.dropped \subseteq Keys

(* The counters, their rates and what was reported are left alone. *)
SameCounts(d, e) == e.prev = d.prev /\ e.rate = d.rate /\ e.reported = d.reported

(* An operation on something else. *)
Aside(d, e) == Typed(e) /\ SameCounts(d, e)

(* The results of CounterStep for each series. *)
Result(d, c) ==
    [n \in Series |->
        IF n \in {i \in Names : c.samples[i] # None}
        THEN Metrics(n, c.samples[n], PreviousSample(d, n), Elapsed(d, c))
        ELSE IF n = Total /\ kind = "interface"
        THEN InterfaceMetrics(AggregateExternal(c.samples),
                              IF \A i \in Names : PreviousSample(d, i) = None THEN None
                              ELSE AggregateExternal(d.prev.samples), Elapsed(d, c))
        ELSE Unavailable]

RateOf(d, c) ==
    [n \in Series |-> [delta   |-> Result(d, c)[n].delta,
                       elapsed |-> Elapsed(d, c),
                       slack   |-> IF d.prev = None THEN 0 ELSE d.prev.slack,
                       boot    |-> IF d.prev = None THEN boot ELSE d.prev.boot]]

ReportedOf(d, c) ==
    [n \in Series |-> d.reported[n] + IF Result(d, c)[n].delta = None THEN 0
                                      ELSE Result(d, c)[n].delta]

(* The samples of the cycle are saved, and its rates stored or lost. *)
Counted(d, e, c) ==
    /\ c.samples # None /\ e.prev = SaveSamples(c)
    /\ \/ e.rate = d.rate /\ e.reported = d.reported
       \/ e.rate = RateOf(d, c) /\ e.reported = ReportedOf(d, c)

(* What is counted depends on the counters only. *)
LEMMA CountedCongruent ==
    ASSUME NEW d, NEW e, NEW f, NEW c
    PROVE  /\ SameCounts(d, e) /\ Counted(e, f, c) => Counted(d, f, c)
           /\ Counted(d, e, c) /\ SameCounts(e, f) => Counted(d, f, c)
<1>1. ASSUME SameCounts(d, e)
      PROVE  RateOf(d, c) = RateOf(e, c) /\ ReportedOf(d, c) = ReportedOf(e, c)
  <2>1. Elapsed(d, c) = Elapsed(e, c) /\ \A n : PreviousSample(d, n) = PreviousSample(e, n)
    BY <1>1 DEF SameCounts, Elapsed, PreviousSample
  <2>2. Result(d, c) = Result(e, c)
    BY <1>1, <2>1 DEF Result, SameCounts
  <2> QED BY <1>1, <2>1, <2>2 DEF RateOf, ReportedOf, SameCounts
<1> QED
  BY <1>1 DEF SameCounts, Counted

(* A point is written. *)
LEMMA PutAside ==
    ASSUME NEW d, Typed(d), NEW p \in Points, NEW x, Graded(x)
    PROVE  Aside(d, Put(d, p, x))
<1>1. /\ DOMAIN Put(d, p, x) = DbFields
      /\ Put(d, p, x).pt = [d.pt EXCEPT ![p] = x]
      /\ \A f \in DbFields \ {"pt"} : Put(d, p, x)[f] = d[f]
  BY DEF Put, Typed, Shape, DbFields
<1>2. /\ Put(d, p, x).state = d.state /\ Put(d, p, x).dropped = d.dropped
      /\ SameCounts(d, Put(d, p, x))
  BY <1>1 DEF DbFields, SameCounts
<1>3. Shape(Put(d, p, x))
  BY PutFrame DEF Frame, Typed
<1>4. \A r \in Points : Graded(Put(d, p, x).pt[r])
  BY <1>1 DEF Typed, Shape
<1> QED
  BY <1>2, <1>3, <1>4 DEF Aside, Typed

(* A state is saved. *)
LEMMA KeepAside ==
    ASSUME NEW d, Typed(d), NEW k \in Keys, NEW v \in Values, NEW code, NEW ts
    PROVE  Aside(d, Keep(d, k, v, code, ts))
<1> DEFINE e == Keep(d, k, v, code, ts)
<1>1. /\ DOMAIN e = DbFields
      /\ e.state = [d.state EXCEPT ![k] = v]
      /\ e.dropped = IF code = None THEN d.dropped ELSE d.dropped \ {k}
      /\ \A f \in DbFields \ {"state", "told", "dropped"} : e[f] = d[f]
  BY DEF Keep, Typed, Shape, DbFields
<1>2. Shape(e)
  BY KeepFrame DEF Frame, Typed
<1> HIDE DEF e
<1>3. e.pt = d.pt /\ SameCounts(d, e)
  BY <1>1 DEF DbFields, SameCounts
<1>4. e.state \in [Keys -> {None} \cup Values] /\ e.dropped \subseteq Keys
  BY <1>1 DEF Typed
<1>5. Aside(d, e)
  BY <1>2, <1>3, <1>4 DEF Aside, Typed
<1> QED
  BY <1>5 DEF e

(* A value is cached. *)
LEMMA StoreAside ==
    ASSUME NEW d, Typed(d), NEW n \in Caches, NEW c
    PROVE  Aside(d, Store(d, n, c))
<1> DEFINE e == Store(d, n, c)
<1>1. DOMAIN e = DbFields /\ \A f \in DbFields \ {"cache"} : e[f] = d[f]
  BY DEF Store, Typed, Shape, DbFields
<1>2. Shape(e)
  BY StoreFrame DEF Frame, Typed
<1> HIDE DEF e
<1>3. e.pt = d.pt /\ e.state = d.state /\ e.dropped = d.dropped /\ SameCounts(d, e)
  BY <1>1 DEF DbFields, SameCounts
<1>4. Aside(d, e)
  BY <1>2, <1>3 DEF Aside, Typed
<1> QED
  BY <1>4 DEF e

(* Nothing is done, or two things one after the other. *)
LEMMA AsideChain ==
    /\ \A d : Typed(d) => Aside(d, d)
    /\ \A d, e, f : Aside(d, e) /\ Aside(e, f) => Aside(d, f)
BY DEF Aside, SameCounts

(* The qualities of the points that are written. *)
LEMMA PointsGraded ==
    ASSUME NEW c, NEW d, NEW n, NEW v, NEW ts,
           NEW q \in {"exact", "derived", "estimated", "unavailable"}
    PROVE  Graded(Point(ts, q, v)) /\ Graded(Measured(c, q)) /\ Graded(Estimated(d, n, c))
<1>1. \A t, r, w : Point(t, r, w).q = r
  BY DEF Point
<1>2. Measured(c, q).q = q
  BY DEF Measured, Point
<1>3. Estimated(d, n, c).q \in {"estimated", "unavailable"}
  BY DEF Estimated, Point
<1> QED
  BY <1>1, <1>2, <1>3 DEF Graded

(* The samples are counted. *)
LEMMA CounterStepCounts ==
    ASSUME NEW d, Typed(d), NEW c, c.samples # None
    PROVE  Typed(CounterStep(d, c)) /\ Counted(d, CounterStep(d, c), c)
<1> DEFINE e == CounterStep(d, c)
<1> DEFINE elapsed == Elapsed(d, c)
           Previous(n) == PreviousSample(d, n)
           known == {n \in Names : c.samples[n] # None}
           result == Result(d, c)
           flagged == {k \in Edges : k[2] \in known /\ (k[1] = "gap" => kind # "process")}
           Flagged(k) == IF k[1] = "reset" THEN result[k[2]].reset ELSE result[k[2]].gap
           was == IF d.prev = None THEN None ELSE {n \in Names : Previous(n) # None}
           code == [k \in Keys |->
                     IF k \in flagged
                     THEN Edge(d.state[k], Flagged(k),
                               IF k[1] = "reset" THEN "counter_reset" ELSE "sampling_gap")
                     ELSE IF k[1] # "interface" \/ kind # "interface" THEN None
                     ELSE IF k[2] \in Added(was, known) THEN "interface_added"
                     ELSE IF k[2] \in Removed(was, known) THEN "interface_removed"
                     ELSE None]
<1>0. e = [d EXCEPT !.rate = RateOf(d, c), !.reported = ReportedOf(d, c),
                    !.state = [k \in Keys |-> IF k \notin flagged THEN @[k]
                                              ELSE IF Flagged(k) THEN "active" ELSE "inactive"],
                    !.told = [k \in Keys |-> IF code[k] = None THEN @[k]
                                             ELSE [ts |-> c.ts, code |-> code[k]]],
                    !.prev = SaveSamples(c)]
  BY Zenon DEF CounterStep, RateOf, ReportedOf, Result
<1> HIDE DEF flagged, code, Flagged, e
<1>1. /\ DOMAIN e = DbFields
      /\ e.rate = RateOf(d, c) /\ e.reported = ReportedOf(d, c) /\ e.prev = SaveSamples(c)
      /\ e.state = [k \in Keys |-> IF k \notin flagged THEN d.state[k]
                                   ELSE IF Flagged(k) THEN "active" ELSE "inactive"]
      /\ \A f \in DbFields \ {"rate", "reported", "state", "told", "prev"} : e[f] = d[f]
  BY <1>0 DEF Typed, Shape, DbFields
<1>2. e.pt = d.pt /\ e.dropped = d.dropped
  BY <1>1 DEF DbFields
<1>3. Shape(e)
  BY CounterStepFrame DEF Typed, Frame, e
<1>4. e.state \in [Keys -> {None} \cup Values]
  <2>1. "active" \in Values /\ "inactive" \in Values
    BY DEF Values
  <2>2. \A k \in Keys : d.state[k] \in {None} \cup Values
    BY DEF Typed
  <2> QED BY <1>1, <2>1, <2>2
<1>5. Typed(e) /\ Counted(d, e, c)
  BY <1>1, <1>2, <1>3, <1>4 DEF Typed, Counted
<1> QED
  BY <1>5 DEF e

-----------------------------------------------------------------------------
(* Counters in the parts of a cycle *)

(* The malformed env files; the rates of the last cycle are gone. *)
LEMMA EnvEventsCounts ==
    ASSUME NEW d, Typed(d), NEW c
    PROVE  LET e == EnvEvents(d, c)
           IN  /\ Typed(e) /\ e.prev = d.prev /\ e.reported = d.reported
               /\ e.rate = [n \in Series |-> None]
<1> DEFINE k == One("env")
           b == [d EXCEPT !.rate = [n \in Series |-> None]]
           code == IF c.malformed /\ d.state[k] # "failed" THEN "env_parse_error"
                   ELSE IF ~c.malformed /\ d.state[k] = "failed" THEN "env_parse_recovered"
                   ELSE None
           v == IF c.malformed THEN "failed" ELSE "ok"
           e == EnvEvents(d, c)
<1>1. e = Keep(b, k, v, code, c.ts)
  BY Zenon DEF EnvEvents
<1>2. k \in Keys /\ v \in Values
  BY DEF Keys, Families, Values
<1>3. /\ DOMAIN b = DbFields /\ b.rate = [n \in Series |-> None]
      /\ \A f \in DbFields \ {"rate"} : b[f] = d[f]
  BY DEF Typed, Shape, DbFields
<1> HIDE DEF k, b, code, v, e
<1>4. /\ b.state = d.state /\ b.told = d.told /\ b.dropped = d.dropped /\ b.cache = d.cache
      /\ b.pt = d.pt /\ b.attempt = d.attempt /\ b.prev = d.prev /\ b.reported = d.reported
  BY <1>3 DEF DbFields
<1>5. Typed(b)
  BY <1>3, <1>4 DEF Typed, Shape
<1>6. Aside(b, e)
  BY <1>1, <1>2, <1>5, KeepAside
<1> QED
  BY <1>3, <1>4, <1>6 DEF Aside, SameCounts, e

(* A part in a try: it is done, not done, or its rates are lost. *)
LEMMA GuardedCounts ==
    ASSUME NEW d, NEW e, Typed(d), Typed(e), NEW c, NEW part, NEW bad, NEW late \in BOOLEAN,
           SameCounts(d, e) \/ Counted(d, e, c)
    PROVE  LET g == Guarded(d, e, part, bad, late)
           IN  Typed(g) /\ (SameCounts(d, g) \/ Counted(d, g, c))
               /\ (SameCounts(d, e) => SameCounts(d, g))
<1> DEFINE g == Guarded(d, e, part, bad, late)
           lost == [e EXCEPT !.told = d.told, !.pt = d.pt, !.rate = d.rate,
                             !.reported = d.reported,
                             !.dropped = @ \cup {k \in Keys : e.told[k] # d.told[k]}]
<1>1. g = d \/ g = e \/ g = lost
  BY DEF Guarded
<1>2. /\ DOMAIN lost = DbFields
      /\ lost.told = d.told /\ lost.pt = d.pt /\ lost.rate = d.rate /\ lost.reported = d.reported
      /\ lost.dropped = e.dropped \cup {k \in Keys : e.told[k] # d.told[k]}
      /\ \A f \in DbFields \ {"told", "pt", "rate", "reported", "dropped"} : lost[f] = e[f]
  BY DEF Typed, Shape, DbFields
<1> HIDE DEF lost, g
<1>3. /\ lost.state = e.state /\ lost.cache = e.cache /\ lost.attempt = e.attempt
      /\ lost.prev = e.prev
  BY <1>2 DEF DbFields
<1>4. Typed(lost)
  BY <1>2, <1>3 DEF Typed, Shape
<1>5. Typed(g)
  BY <1>1, <1>4
<1>6. SameCounts(d, d) /\ (SameCounts(d, e) => SameCounts(d, lost))
  BY <1>2, <1>3 DEF SameCounts
<1>7. Counted(d, e, c) => Counted(d, lost, c)
  BY <1>2, <1>3 DEF Counted
<1> QED
  BY <1>1, <1>5, <1>6, <1>7 DEF g

(* What a part of the cycle does to the counters: it counts those of its kinds. *)
CountsOf(d, e, c, kinds) == Typed(e) /\ (SameCounts(d, e) \/ (kind \in kinds /\ Counted(d, e, c)))

(* _host_metrics *)
LEMMA HostPartCounts ==
    ASSUME NEW d, Typed(d), NEW c, NEW bad, NEW late \in BOOLEAN
    PROVE  CountsOf(d, HostPart(d, c, bad, late), c, {"cpu", "service"})
<1> DEFINE b == IF c.samples = None THEN d ELSE CounterStep(d, c)
           e == HostMetrics(d, c)
<1>1. Typed(b) /\ (SameCounts(d, b) \/ Counted(d, b, c))
  BY CounterStepCounts DEF SameCounts
<1>2. "cpu" \in Points
  BY DEF Points
<1>3. e = (IF kind \notin {"cpu", "service"} THEN d ELSE CpuPoint(b, c))
  BY DEF HostMetrics
<1> HIDE DEF b, e
<1>4. Aside(b, CpuPoint(b, c))
  BY <1>1, <1>2, PutAside, PointsGraded DEF CpuPoint
<1>5. CountsOf(d, e, c, {"cpu", "service"})
  BY <1>1, <1>3, <1>4, CountedCongruent DEF CountsOf, Aside, SameCounts
<1>6. LET g == Guarded(d, e, One("host_metrics"), bad, late)
      IN  Typed(g) /\ (SameCounts(d, g) \/ Counted(d, g, c)) /\ (SameCounts(d, e) => SameCounts(d, g))
  BY <1>5, GuardedCounts DEF CountsOf
<1> QED
  BY <1>5, <1>6 DEF HostPart, CountsOf, e

(* _storage_metrics *)
LEMMA StoragePartCounts ==
    ASSUME NEW d, Typed(d), NEW c, NEW bad, NEW late \in BOOLEAN
    PROVE  CountsOf(d, StoragePart(d, c, bad, late), c, {"disk"})
<1> DEFINE k == One("filesystem")
           q == IF k \in bad THEN "failed" ELSE "available"
           code == Availability(d.state[k], q)
           b == Keep(d, k, q, code, c.ts)
           y == IF k \in bad THEN "unavailable" ELSE "exact"
           x == Point(c.ts, y, 0)
           f == FilesystemMetrics(d, c, bad)
           e == StorageMetrics(d, c, bad)
<1>1. k \in Keys /\ q \in Values /\ "filesystem" \in Points
  BY DEF Keys, Sources, Values, Points
<1>2. f = d \/ f = Put(b, "filesystem", x)
  BY Zenon DEF FilesystemMetrics
<1>3. Graded(x)
  <2>1. y \in {"exact", "derived", "estimated", "unavailable"}
    OBVIOUS
  <2> HIDE DEF y
  <2> QED BY <2>1, PointsGraded
<1>4. e = IF kind = "disk" /\ c.samples # None THEN CounterStep(f, c) ELSE f
  BY DEF StorageMetrics, DiskCounters
<1> HIDE DEF k, q, x, f, code, e
<1>5. Aside(d, b)
  BY <1>1, KeepAside
<1> HIDE DEF b
<1>6. Aside(d, f)
  BY <1>1, <1>2, <1>3, <1>5, PutAside, AsideChain DEF Aside
<1>7. CountsOf(d, e, c, {"disk"})
  BY <1>4, <1>6, CounterStepCounts, CountedCongruent DEF CountsOf, Aside
<1>8. LET g == Guarded(d, e, One("storage_metrics"), bad, late)
      IN  Typed(g) /\ (SameCounts(d, g) \/ Counted(d, g, c)) /\ (SameCounts(d, e) => SameCounts(d, g))
  BY <1>7, GuardedCounts DEF CountsOf
<1> QED
  BY <1>7, <1>8 DEF StoragePart, CountsOf, e

(* _network_metrics *)
LEMMA NetworkPartCounts ==
    ASSUME NEW d, Typed(d), NEW c, NEW bad, NEW late \in BOOLEAN
    PROVE  CountsOf(d, NetworkPart(d, c, bad, late), c, {"interface", "tcp"})
<1> DEFINE b == [d EXCEPT !.state = [k \in Keys |-> IF k \in {<<"reset", 1>>, <<"gap", 1>>}
                                             THEN "inactive" ELSE @[k]]]
           e == NetworkMetrics(d, c)
<1>1. Aside(d, b)
  <2>1. /\ DOMAIN b = DbFields
        /\ b.state = [k \in Keys |-> IF k \in {<<"reset", 1>>, <<"gap", 1>>}
                                     THEN "inactive" ELSE d.state[k]]
        /\ \A f \in DbFields \ {"state"} : b[f] = d[f]
    BY DEF Typed, Shape, DbFields
  <2> HIDE DEF b
  <2>2. /\ b.told = d.told /\ b.dropped = d.dropped /\ b.cache = d.cache
        /\ b.pt = d.pt /\ b.attempt = d.attempt /\ SameCounts(d, b)
    BY <2>1 DEF DbFields, SameCounts
  <2>3. b.state \in [Keys -> {None} \cup Values]
    <3>1. "inactive" \in Values
      BY DEF Values
    <3>2. \A k \in Keys : d.state[k] \in {None} \cup Values
      BY DEF Typed
    <3> QED BY <2>1, <3>1, <3>2
  <2> QED BY <2>1, <2>2, <2>3 DEF Aside, Typed, Shape
<1>2. \/ e = d \/ e = b
      \/ e = CounterStep(d, c) /\ c.samples # None /\ kind \in {"interface", "tcp"}
  BY DEF NetworkMetrics
<1> HIDE DEF b, e
<1>3. CountsOf(d, e, c, {"interface", "tcp"})
  BY <1>1, <1>2, CounterStepCounts, AsideChain DEF CountsOf, Aside
<1>4. LET g == Guarded(d, e, One("network_metrics"), bad, late)
      IN  Typed(g) /\ (SameCounts(d, g) \/ Counted(d, g, c)) /\ (SameCounts(d, e) => SameCounts(d, g))
  BY <1>3, GuardedCounts DEF CountsOf
<1> QED
  BY <1>3, <1>4 DEF NetworkPart, CountsOf, e

(* Points that are overwritten with "unavailable". *)
LEMMA OverwriteAside ==
    ASSUME NEW d, Typed(d), NEW c, NEW P, NEW e,
           e = [d EXCEPT !.pt = [p \in Points |-> IF p \in P
                                  THEN Point(c.ts, "unavailable", c.pid) ELSE @[p]]]
    PROVE  Aside(d, e)
<1>1. /\ DOMAIN e = DbFields
      /\ e.pt = [p \in Points |-> IF p \in P THEN Point(c.ts, "unavailable", c.pid) ELSE d.pt[p]]
      /\ \A f \in DbFields \ {"pt"} : e[f] = d[f]
  BY DEF Typed, Shape, DbFields
<1>2. /\ e.state = d.state /\ e.told = d.told /\ e.dropped = d.dropped /\ e.cache = d.cache
      /\ e.attempt = d.attempt /\ SameCounts(d, e)
  BY <1>1 DEF DbFields, SameCounts
<1>3. \A p \in Points : Graded(e.pt[p])
  BY <1>1, PointsGraded DEF Typed
<1> QED
  BY <1>1, <1>2, <1>3 DEF Aside, Typed, Shape

(* The cached values of the service. *)
LEMMA CachedAside ==
    ASSUME NEW d, Typed(d), NEW c
    PROVE  /\ Aside(d, SlowValues(d, c)) /\ Aside(d, MemoryValues(d, c))
           /\ Aside(d, SocketMetrics(d, c))
           /\ \A props : Aside(d, RemoteSockets(d, c, props))
<1> DEFINE Good == {"exact", "derived", "estimated", "unavailable"}
<1>1. ASSUME NEW n \in Caches, NEW x, Graded(x)
      PROVE  Aside(d, Put(d, n, x)) /\ Aside(d, Put(Store(d, n, c), n, x))
  <2>1. n \in Points
    BY KeyFacts
  <2>2. Aside(d, Store(d, n, c))
    BY StoreAside
  <2>3. Aside(Store(d, n, c), Put(Store(d, n, c), n, x))
    BY <1>1, <2>1, <2>2, PutAside DEF Aside
  <2> QED BY <1>1, <2>1, <2>2, <2>3, PutAside, AsideChain
<1>2. /\ Graded(Point(c.ts, "unavailable", c.pid)) /\ \A n : Graded(Estimated(d, n, c))
      /\ Graded(Measured(c, "exact")) /\ Graded(Measured(c, "estimated"))
  BY PointsGraded
<1>3. {"slow", "memory", "sockets", "remote"} \subseteq Caches /\ Aside(d, d)
  BY KeyFacts, AsideChain
<1>4. Aside(d, SlowValues(d, c))
  <2>1. Graded(Measured(c, IF Authoritative(c) THEN "exact" ELSE "estimated"))
    BY <1>2
  <2> QED BY <1>1, <1>2, <1>3, <2>1 DEF SlowValues
<1>5. Aside(d, MemoryValues(d, c))
  BY <1>1, <1>2, <1>3 DEF MemoryValues
<1>6. Aside(d, SocketMetrics(d, c))
  BY <1>1, <1>2, <1>3 DEF SocketMetrics
<1>7. ASSUME NEW props PROVE Aside(d, RemoteSockets(d, c, props))
  BY <1>1, <1>2, <1>3 DEF RemoteSockets
<1> QED
  BY <1>4, <1>5, <1>6, <1>7

(* The state of the service and the identity of its processes. *)
LEMMA ServiceStateAside ==
    ASSUME NEW d, Typed(d), NEW c
    PROVE  Aside(d, ServiceState(d, c)) /\ Aside(d, PidIdentity(d, c))
<1> DEFINE k == One("service")
           active == IF c.pid = 0 THEN "service_inactive" ELSE "service_active"
           code == ValueTransition(d.state[k], active, active)
           x == Point(c.ts, "exact", Flag(c.pid # 0))
           b == Put(d, "service_active", x)
<1>1. ServiceState(d, c) = Keep(b, k, active, code, c.ts)
  BY Zenon DEF ServiceState
<1>2. k \in Keys /\ active \in Values /\ "service_active" \in Points /\ Graded(x)
  BY PointsGraded DEF Keys, Families, Values, Points
<1> HIDE DEF k, active, code, x
<1>3. Aside(d, b)
  BY <1>2, PutAside
<1> HIDE DEF b
<1>4. Aside(d, ServiceState(d, c))
  BY <1>1, <1>2, <1>3, KeepAside, AsideChain DEF Aside
<1> DEFINE j == One("pid")
           changed == ValueTransition(d.pid, c.pid, "pid_replaced")
           h == Keep(d, j, "known", changed, c.ts)
           e == [h EXCEPT !.pid = c.pid]
<1>5. PidIdentity(d, c) = d \/ PidIdentity(d, c) = e
  BY Zenon DEF PidIdentity
<1>6. j \in Keys /\ "known" \in Values
  BY DEF Keys, Families, Values
<1> HIDE DEF j, changed
<1>7. Aside(d, h)
  BY <1>6, KeepAside
<1> HIDE DEF h
<1>8. /\ DOMAIN e = DbFields /\ \A f \in DbFields \ {"pid"} : e[f] = h[f]
  BY <1>7 DEF Aside, Typed, Shape, DbFields
<1> HIDE DEF e
<1>9. /\ e.state = h.state /\ e.told = h.told /\ e.dropped = h.dropped /\ e.cache = h.cache
      /\ e.pt = h.pt /\ e.attempt = h.attempt /\ SameCounts(h, e)
  BY <1>8 DEF DbFields, SameCounts
<1>10. Aside(d, e)
  <2>1. Aside(h, e)
    BY <1>7, <1>8, <1>9 DEF Aside, Typed, Shape
  <2> QED BY <1>7, <2>1, AsideChain
<1> QED
  BY <1>4, <1>5, <1>10, AsideChain

(* The metrics of the processes, and their counters. *)
LEMMA ProcessMetricsCounts ==
    ASSUME NEW d, Typed(d), NEW c
    PROVE  CountsOf(d, ProcessMetrics(d, c), c, {"process"})
<1> DEFINE b == IF kind = "process" /\ c.samples # None THEN CounterStep(d, c) ELSE d
           q == IF ~Sampled(c) THEN "unavailable"
                ELSE IF Authoritative(c) THEN "exact" ELSE "estimated"
           x == Point(c.ts, q, 0)
<1>1. ProcessMetrics(d, c) = Put(b, "process", x)
  BY Zenon DEF ProcessMetrics
<1>2. CountsOf(d, b, c, {"process"})
  BY CounterStepCounts DEF CountsOf, SameCounts
<1>3. Graded(x) /\ "process" \in Points
  <2>1. q \in {"exact", "derived", "estimated", "unavailable"}
    OBVIOUS
  <2> HIDE DEF q
  <2> QED BY <2>1, PointsGraded DEF Points
<1> HIDE DEF b, x
<1>4. Aside(b, Put(b, "process", x))
  BY <1>2, <1>3, PutAside DEF CountsOf
<1> QED
  BY <1>1, <1>2, <1>4, CountedCongruent DEF CountsOf, Aside, SameCounts

(* The service, behind its savepoint. *)
LEMMA ServicePartCounts ==
    ASSUME NEW d, Typed(d), NEW c, NEW bad
    PROVE  CountsOf(d, ServicePart(d, c, bad), c, {"process"})
<1> DEFINE d2 == PidIdentity(ServiceState(d, c), c)
           d3 == ProcessMetrics(d2, c)
           d4 == SlowValues(d3, c)
           d5 == MemoryValues(d4, c)
           d6 == ListenerCount(d5, c)
           d7 == SocketMetrics(d6, c)
<1>1. \/ ServicePart(d, c, bad) = ServiceUnavailable(d, c)
      \/ ServicePart(d, c, bad) = d7
  BY Zenon DEF ServicePart, ServiceMetrics
<1>2. Aside(d, ServiceUnavailable(d, c))
  <2>1. PICK P : P = {"service_active", "process", "listener", "slow", "memory", "sockets"}
    OBVIOUS
  <2>2. ServiceUnavailable(d, c) = [d EXCEPT !.pt = [p \in Points |-> IF p \in P
                                  THEN Point(c.ts, "unavailable", c.pid) ELSE @[p]]]
    BY <2>1, Zenon DEF ServiceUnavailable
  <2> QED BY <2>2, OverwriteAside
<1>3. Aside(d, d2)
  BY ServiceStateAside, AsideChain DEF Aside
<1> HIDE DEF d2
<1>4. CountsOf(d2, d3, c, {"process"})
  BY <1>3, ProcessMetricsCounts DEF Aside
<1> HIDE DEF d3
<1>5. Aside(d3, d4)
  BY <1>4, CachedAside DEF CountsOf
<1> HIDE DEF d4
<1>6. Aside(d4, d5)
  BY <1>5, CachedAside DEF Aside
<1> HIDE DEF d5
<1>7. Aside(d5, d6)
  <2>1. \A v : Graded(Point(c.ts, "exact", v)) /\ Graded(Point(c.ts, "unavailable", v))
    BY PointsGraded
  <2>2. "listener" \in Points
    BY DEF Points
  <2>3. \A x : Graded(x) => Aside(d5, Put(d5, "listener", x))
    BY <1>6, <2>2, PutAside DEF Aside
  <2> QED BY <2>1, <2>3 DEF ListenerCount
<1> HIDE DEF d6
<1>8. Aside(d6, d7)
  BY <1>7, CachedAside DEF Aside
<1> HIDE DEF d7
<1>9. Aside(d3, d7)
  BY <1>5, <1>6, <1>7, <1>8, AsideChain
<1>10. CountsOf(d, d3, c, {"process"})
  BY <1>3, <1>4, CountedCongruent DEF CountsOf, Aside, SameCounts
<1>11. CountsOf(d, d7, c, {"process"})
  BY <1>9, <1>10, CountedCongruent DEF CountsOf, Aside, SameCounts
<1> QED
  BY <1>1, <1>2, <1>11 DEF CountsOf, Aside

(* The tunnel, behind its savepoint. *)
LEMMA TunnelPartAside ==
    ASSUME NEW d, Typed(d), NEW c, NEW bad
    PROVE  Aside(d, TunnelPart(d, c, bad))
<1>1. Aside(d, TunnelUnavailable(d, c))
  <2>1. PICK P : P = {"tunnel_active", "ownership", "remote"}
    OBVIOUS
  <2>2. TunnelUnavailable(d, c) = [d EXCEPT !.pt = [p \in Points |-> IF p \in P
                                  THEN Point(c.ts, "unavailable", c.pid) ELSE @[p]]]
    BY <2>1, Zenon DEF TunnelUnavailable
  <2> QED BY <2>2, OverwriteAside
<1>2. ASSUME NEW props \in BOOLEAN PROVE Aside(d, TunnelMetrics(d, c, props))
  <2> DEFINE q == IF props THEN "exact" ELSE "unavailable"
             active == Point(c.ts, q, Flag(c.pid # 0))
             o == Ownership(c, props)
             b == Put(d, "tunnel_active", active)
             points == Put(b, "ownership", o)
             r == RemoteSockets(points, c, props)
  <2>1. TunnelMetrics(d, c, props) = d \/ TunnelMetrics(d, c, props) = ListenerState(r, o)
    BY Zenon DEF TunnelMetrics
  <2>2. Graded(active)
    <3>1. q \in {"exact", "derived", "estimated", "unavailable"}
      OBVIOUS
    <3> HIDE DEF q
    <3> QED BY <3>1, PointsGraded
  <2>3. Graded(o)
    <3>1. \A v : Graded(Point(c.ts, "exact", v)) /\ Graded(Point(c.ts, "unavailable", v))
      BY PointsGraded
    <3> QED BY <3>1 DEF Ownership
  <2>4. "tunnel_active" \in Points /\ "ownership" \in Points
    BY DEF Points
  <2> HIDE DEF active, o
  <2>5. Aside(d, b)
    BY <2>2, <2>4, PutAside
  <2> HIDE DEF b
  <2>6. Aside(b, points)
    BY <2>3, <2>4, <2>5, PutAside DEF Aside
  <2> HIDE DEF points
  <2>7. Aside(points, r)
    BY <2>6, CachedAside DEF Aside
  <2> HIDE DEF r
  <2>8. Aside(r, ListenerState(r, o))
    <3> DEFINE k == One("listener")
               found == IF o.v = 1 THEN "ok" ELSE "missing"
               code == IF found = "ok" THEN "listener_returned" ELSE "listener_disappeared"
               told == ValueTransition(r.state[k], found, code)
    <3>1. ListenerState(r, o) = r \/ ListenerState(r, o) = Keep(r, k, found, told, o.ts)
      BY Zenon DEF ListenerState
    <3>2. k \in Keys /\ found \in Values
      BY DEF Keys, Families, Values
    <3>3. Typed(r)
      BY <2>7 DEF Aside
    <3> HIDE DEF k, found, told
    <3>4. Aside(r, Keep(r, k, found, told, o.ts))
      BY <3>2, <3>3, KeepAside
    <3> QED BY <3>1, <3>3, <3>4, AsideChain
  <2>9. Aside(d, ListenerState(r, o))
    BY <2>5, <2>6, <2>7, <2>8, AsideChain
  <2> QED BY <2>1, <2>9, AsideChain
<1>3. (One("service_processing") \notin bad /\ Available(c, One("systemd"))) \in BOOLEAN
  BY DEF Available
<1> QED
  BY <1>1, <1>2, <1>3 DEF TunnelPart

(* _source_status *)
LEMMA SourceStatusAside ==
    ASSUME NEW d, Typed(d), NEW out, OutOK(out), NEW ts
    PROVE  Aside(d, SourceStatus(d, out, ts))
<1> DEFINE Code(k) == IF k = One("conntrack") THEN OptionalAvailability(d.state[k], out[k])
                      ELSE Availability(d.state[k], out[k])
           new == {k \in DOMAIN out : Code(k) # None}
           e == SourceStatus(d, out, ts)
<1>0. e = [d EXCEPT !.state = [k \in Keys |-> IF k \in DOMAIN out THEN out[k] ELSE @[k]],
                    !.told = [k \in Keys |-> IF k \in new THEN [ts |-> ts, code |-> Code(k)]
                                             ELSE @[k]],
                    !.dropped = @ \ new]
  BY Zenon DEF SourceStatus
<1> HIDE DEF e, Code
<1>1. /\ DOMAIN e = DbFields
      /\ e.state = [k \in Keys |-> IF k \in DOMAIN out THEN out[k] ELSE d.state[k]]
      /\ DOMAIN e.told = Keys
      /\ e.dropped = d.dropped \ new
      /\ \A f \in DbFields \ {"state", "told", "dropped"} : e[f] = d[f]
  BY <1>0 DEF Typed, Shape, DbFields
<1>2. e.pt = d.pt /\ e.cache = d.cache /\ e.attempt = d.attempt /\ SameCounts(d, e)
  BY <1>1 DEF DbFields, SameCounts
<1>3. e.state \in [Keys -> {None} \cup Values]
  <2>1. \A k \in DOMAIN out : out[k] \in Values
    BY DEF OutOK, Values
  <2>2. \A k \in Keys : d.state[k] \in {None} \cup Values
    BY DEF Typed
  <2> QED BY <1>1, <2>1, <2>2
<1>4. e.dropped \subseteq Keys
  BY <1>1 DEF Typed
<1>5. Aside(d, e)
  BY <1>1, <1>2, <1>3, <1>4 DEF Aside, Typed, Shape
<1> QED
  BY <1>5 DEF e

(* The states the collector keeps itself. *)
LEMMA OwnStatesAside ==
    ASSUME NEW d, Typed(d), NEW c, NEW ts, NEW ok \in BOOLEAN
    PROVE  /\ Aside(d, CycleRecovery(d, ts)) /\ Aside(d, Maintenance(d, c, ok))
           /\ Aside(d, CheckpointResult(d, ok, ts))
<1>1. /\ {One("collection"), One("retention"), One("checkpoint")} \subseteq Keys
      /\ "ok" \in Values /\ "failed" \in Values
  BY DEF Keys, Families, Values
<1>2. \A k \in {One("collection"), One("retention"), One("checkpoint")} : \A code, t :
         Aside(d, Keep(d, k, "ok", code, t)) /\ Aside(d, Keep(d, k, "failed", code, t))
  BY <1>1, KeepAside
<1>3. Aside(d, d)
  BY AsideChain
<1>4. Aside(d, CycleRecovery(d, ts))
  BY <1>2 DEF CycleRecovery
<1>5. Aside(d, Maintenance(d, c, ok))
  BY <1>2, <1>3 DEF Maintenance
<1>6. Aside(d, CheckpointResult(d, ok, ts))
  BY <1>2 DEF CheckpointResult
<1> QED
  BY <1>4, <1>5, <1>6

(* The row of the cycle and the tunnel's entity. *)
LEMMA RowsAside ==
    ASSUME NEW d, Typed(d), NEW c, NEW ts, NEW ok \in BOOLEAN
    PROVE  Aside(d, CycleRow(d, ts, ok)) /\ Aside(d, UpsertTunnel(d, c))
<1> DEFINE e == CycleRow(d, ts, ok)
           f == UpsertTunnel(d, c)
<1>1. Rest(d, e) /\ Rest(d, f)
  BY CycleRowRest, UpsertTunnelRest DEF Typed
<1>2. DOMAIN e = DbFields /\ \A x \in DbFields \ {"cycle"} : e[x] = d[x]
  BY DEF CycleRow, Typed, Shape, DbFields
<1>3. DOMAIN f = DbFields /\ \A x \in DbFields \ {"member", "seen"} : f[x] = d[x]
  <2> DEFINE m == Discovered(c)
  <2>1. f = [d EXCEPT !.member = m, !.seen = IF m THEN c.ts ELSE @]
    BY Zenon DEF UpsertTunnel
  <2> HIDE DEF f, m
  <2> QED BY <2>1 DEF Typed, Shape, DbFields
<1> HIDE DEF e, f
<1>4. SameCounts(d, e) /\ SameCounts(d, f)
  BY <1>2, <1>3 DEF SameCounts, DbFields
<1>5. Aside(d, e) /\ Aside(d, f)
  BY <1>1, <1>4 DEF Aside, Typed, Rest
<1> QED
  BY <1>5 DEF e, f

(* The cycle: the counters of the kind are counted once, or not at all. *)
LEMMA CycleCounts ==
    ASSUME NEW d, Typed(d), NEW c, OutOK(c.out), NEW bad, NEW late \in BOOLEAN
    PROVE  LET r == CycleResult(d, c, bad, late)
               z == [d EXCEPT !.rate = [n \in Series |-> None]]
           IN  Typed(r) /\ (SameCounts(z, r) \/ Counted(z, r, c))
<1> DEFINE z == [d EXCEPT !.rate = [n \in Series |-> None]]
           d0 == EnvEvents(d, c)
           d1 == HostPart(d0, c, bad, late)
           d2 == StoragePart(d1, c, bad, late)
           d3 == NetworkPart(d2, c, bad, late)
           d4 == ServicePart(d3, c, bad)
           d5 == TunnelPart(d4, c, bad)
           d6 == SourceStatus(d5, SourcesSeen(c, bad, late), c.ts)
           d7 == CycleRecovery(d6, c.ts)
           d8 == Maintenance(d7, c, One("retention") \notin bad)
           d9 == UpsertTunnel(d8, c)
           r == CycleResult(d, c, bad, late)
<1>0. r = CycleRow(d9, c.ts, TRUE)
  BY Zenon DEF CycleResult
<1>a. Typed(d0) /\ SameCounts(z, d0)
  <2>1. z.prev = d.prev /\ z.reported = d.reported /\ z.rate = [n \in Series |-> None]
    BY DEF Typed, Shape, DbFields
  <2>2. /\ Typed(d0) /\ d0.prev = d.prev /\ d0.reported = d.reported
        /\ d0.rate = [n \in Series |-> None]
    BY EnvEventsCounts
  <2> QED BY <2>1, <2>2 DEF SameCounts
<1> HIDE DEF d0, z
<1>b. CountsOf(d0, d1, c, {"cpu", "service"})
  BY <1>a, HostPartCounts
<1> HIDE DEF d1
<1>c. CountsOf(d1, d2, c, {"disk"})
  BY <1>b, StoragePartCounts DEF CountsOf
<1> HIDE DEF d2
<1>d. CountsOf(d2, d3, c, {"interface", "tcp"})
  BY <1>c, NetworkPartCounts DEF CountsOf
<1> HIDE DEF d3
<1>e. CountsOf(d3, d4, c, {"process"})
  BY <1>d, ServicePartCounts DEF CountsOf
<1> HIDE DEF d4
<1>f. Aside(d4, d5)
  BY <1>e, TunnelPartAside DEF CountsOf
<1> HIDE DEF d5
<1>g. Aside(d5, d6)
  BY <1>f, SourcesSeenOK, SourceStatusAside DEF Aside
<1> HIDE DEF d6
<1>h. Aside(d6, d7)
  BY <1>g, OwnStatesAside DEF Aside
<1> HIDE DEF d7
<1>i. Aside(d7, d8)
  BY <1>h, OwnStatesAside DEF Aside
<1> HIDE DEF d8
<1>j. Aside(d8, d9)
  BY <1>i, RowsAside DEF Aside
<1> HIDE DEF d9, r
<1>k. Aside(d9, r)
  <2>1. TRUE \in BOOLEAN
    OBVIOUS
  <2> QED BY <1>0, <1>j, <2>1, RowsAside DEF Aside
<1>1. Aside(d4, r)
  BY <1>f, <1>g, <1>h, <1>i, <1>j, <1>k, AsideChain
<1>2. SameCounts(z, d1) \/ (kind \in {"cpu", "service"} /\ Counted(z, d1, c))
  BY <1>a, <1>b, CountedCongruent DEF CountsOf, SameCounts
<1>3. SameCounts(z, d2) \/ (kind \in {"cpu", "service", "disk"} /\ Counted(z, d2, c))
  BY <1>2, <1>c, CountedCongruent DEF CountsOf, SameCounts
<1>4. \/ SameCounts(z, d3)
      \/ (kind \in {"cpu", "service", "disk", "interface", "tcp"} /\ Counted(z, d3, c))
  BY <1>3, <1>d, CountedCongruent DEF CountsOf, SameCounts
<1>5. SameCounts(z, d4) \/ Counted(z, d4, c)
  BY <1>4, <1>e, CountedCongruent DEF CountsOf, SameCounts
<1>6. Typed(r) /\ (SameCounts(z, r) \/ Counted(z, r, c))
  BY <1>1, <1>5, CountedCongruent DEF Aside, SameCounts
<1> QED
  BY <1>6 DEF r, z

-----------------------------------------------------------------------------
(* Counters and what they gain *)

(* What the kernel shows of a counter, and a reading of all of them. *)
Sample == [id : Nat, n : Nat, idle : Nat]
Reading == [Names -> {None} \cup Sample]

(* The count of a series in a reading; the total is there when an interface is. *)
Amount(x) == IF x = None THEN 0 ELSE x.n
Level(s, n) ==
    IF n \in Names THEN Count(s[n])
    ELSE IF s[1] = None /\ s[2] = None THEN None ELSE Amount(s[1]) + Amount(s[2])

(* The level at the sample that was saved. *)
Before(d, n) == IF d.prev = None THEN None ELSE Level(d.prev.samples, n)

(* By how much a counter seems to have moved between two levels. *)
Gain(a, b) == IF a = None \/ b = None \/ b < a THEN 0 ELSE b - a

(* What really happened in a series, and the most that can happen in some time. *)
Real(t, n) == IF n = Total THEN t[1] + t[2] ELSE t[n]
Most(n, time) == time * IF n = Total THEN 2 ELSE 1

(* When the saved sample was read. *)
ReadAt(p) == p.mono - p.slack

(* A cycle has read the counters and has not stored them yet. *)
HasRead == pc \in {"capture_services", "transact"} /\ cy.samples # None

(* Clocks and counters of the host. *)
HostInv ==
    /\ pc \in Unfinished \cup {"down", "idle", "failing", "checkpoint", "overrun"}
    /\ now \in 0..MaxTime /\ mono \in 0..now /\ faults \in 0..MaxFaults
    /\ boot \in Nat /\ starts \in Nat
    /\ counter \in Reading /\ traffic \in [Names -> Nat]

(* The readings, saved and under way. *)
SampleInv ==
    /\ db.prev # None =>
          /\ db.prev.samples \in Reading /\ db.prev.mono \in Nat
          /\ db.prev.slack \in 0..db.prev.mono
          /\ db.prev.boot \in Nat /\ db.prev.boot <= boot
    /\ pc \in {"capture_services", "transact"} =>
          cy.read \in 0..mono /\ (cy.samples # None => cy.samples \in Reading)
    /\ pc = "transact" => cy.stamp \in cy.read..mono

(* What was reported, and what the next rates will report, has happened. *)
BalanceInv ==
    /\ db.reported \in [Series -> Nat]
    /\ \A n \in Series :
          LET rep == db.reported[n]
              old == Before(db, n)
              new == Level(counter, n)
          IN  /\ rep + Gain(old, new) <= Real(traffic, n)
              /\ HasRead => rep + Gain(old, Level(cy.samples, n)) + Gain(Level(cy.samples, n), new)
                            <= Real(traffic, n)

(* Within one boot a counter gains no more than time allows. *)
SpeedInv ==
    \A n \in Series :
       LET current == db.prev # None /\ db.prev.boot = boot
           old == Before(db, n)
           new == Level(counter, n)
           r == db.rate[n]
       IN  /\ current => Gain(old, new) <= Most(n, mono - ReadAt(db.prev))
           /\ HasRead => Gain(Level(cy.samples, n), new) <= Most(n, mono - cy.read)
           /\ HasRead /\ current =>
                 Gain(old, Level(cy.samples, n)) <= Most(n, cy.read - ReadAt(db.prev))
           /\ r # None /\ r.delta # None =>
                 /\ r.boot \in Nat /\ r.boot <= boot
                 /\ r.boot = boot => r.delta <= Most(n, r.elapsed + r.slack)

RatesInv == Typed(db) /\ HostInv /\ SampleInv /\ BalanceInv /\ SpeedInv

-----------------------------------------------------------------------------
(* What a level gains between two readings *)

(* What aggregate_external adds up. *)
LEMMA AggregateIsSum ==
    ASSUME NEW s \in Reading
    PROVE  AggregateExternal(s).n = Amount(s[1]) + Amount(s[2])
<1>1. PICK S : S = {i \in DOMAIN s : s[i] # None /\ i # 0}
  OBVIOUS
<1>2. S \subseteq {1, 2} /\ (1 \in S <=> s[1] # None) /\ (2 \in S <=> s[2] # None)
  BY <1>1 DEF Reading, Names
<1>3. \A i \in S : s[i].n \in Nat
  BY <1>2 DEF Reading, Names, Sample
<1> DEFINE iter == CHOOSE iter : iter = [r \in SUBSET S |->
              IF r = {} THEN 0
              ELSE s[CHOOSE x \in r : TRUE].n + iter[r \ {CHOOSE x \in r : TRUE}]]
           Body(h, r) == IF r = {} THEN 0
                         ELSE s[CHOOSE x \in r : TRUE].n + h[r \ {CHOOSE x \in r : TRUE}]
           g == [r \in SUBSET S |-> (IF 1 \in r THEN s[1].n ELSE 0)
                                    + (IF 2 \in r THEN s[2].n ELSE 0)]
<1>4. AggregateExternal(s).n = iter[S]
  <2>1. AggregateExternal(s).n =
           MapThenSumSet(LAMBDA i : s[i].n, {i \in DOMAIN s : s[i] # None /\ i # 0})
    BY DEF AggregateExternal
  <2> QED BY <1>1, <2>1, Zenon DEF MapThenSumSet, MapThenFoldSet
<1>5. ASSUME NEW r \in SUBSET S, r # {}
      PROVE  \E x \in r : (x = CHOOSE y \in r : TRUE) /\ x \in {1, 2}
  BY <1>2, <1>5
<1>6. ASSUME NEW r \in SUBSET S PROVE g[r] = Body(g, r)
  <2>1. CASE r = {}
    BY <2>1
  <2>2. CASE r # {}
    <3>1. PICK x \in r : (x = CHOOSE y \in r : TRUE) /\ x \in {1, 2}
      BY <1>5, <2>2
    <3>2. r \ {x} \in SUBSET S /\ x \in r
      BY <3>1
    <3>3. PICK a, b : a = s[1].n /\ b = s[2].n
      OBVIOUS
    <3>4. \A q \in SUBSET S : g[q] = (IF 1 \in q THEN a ELSE 0) + (IF 2 \in q THEN b ELSE 0)
      BY <3>3
    <3>5. (1 \in r => a \in Nat) /\ (2 \in r => b \in Nat)
      BY <1>3, <3>3
    <3> HIDE DEF g
    <3>6. ASSUME x = 1 PROVE g[r] = s[x].n + g[r \ {x}]
      <4>1. 1 \in r /\ 1 \notin r \ {x} /\ (2 \in r \ {x} <=> 2 \in r)
        BY <3>2, <3>6
      <4> QED BY <3>2, <3>3, <3>4, <3>5, <3>6, <4>1
    <3>7. ASSUME x = 2 PROVE g[r] = s[x].n + g[r \ {x}]
      <4>1. 2 \in r /\ 2 \notin r \ {x} /\ (1 \in r \ {x} <=> 1 \in r)
        BY <3>2, <3>7
      <4> QED BY <3>2, <3>3, <3>4, <3>5, <3>7, <4>1
    <3>8. g[r] = s[x].n + g[r \ {x}]
      BY <3>1, <3>6, <3>7
    <3>9. Body(g, r) = s[x].n + g[r \ {x}]
      BY <2>2, <3>1
    <3> QED BY <3>8, <3>9
  <2> QED BY <2>1, <2>2
<1>7. g = [r \in SUBSET S |-> Body(g, r)]
  <2>1. g = [r \in SUBSET S |-> g[r]]
    OBVIOUS
  <2> HIDE DEF g, Body
  <2> QED BY <1>6, <2>1
<1>8. iter = [r \in SUBSET S |-> Body(iter, r)]
  <2>1. \E h : h = [r \in SUBSET S |-> Body(h, r)]
    BY <1>7
  <2> QED BY <2>1, Zenon DEF iter
<1> HIDE DEF iter, g
<1>9. iter[{}] = 0
  BY <1>8
<1>10. ASSUME NEW r \in SUBSET S, NEW x \in r, x = CHOOSE y \in r : TRUE
       PROVE  iter[r] = s[x].n + iter[r \ {x}]
  <2>1. iter[r] = Body(iter, r) /\ r # {}
    BY <1>8
  <2> QED BY <1>10, <2>1
<1> HIDE DEF Body
<1>11. ASSUME NEW x \in S PROVE iter[{x}] = s[x].n
  <2>1. x = CHOOSE y \in {x} : TRUE
    OBVIOUS
  <2>2. {x} \in SUBSET S /\ x \in {x} /\ {x} \ {x} = {}
    OBVIOUS
  <2>3. iter[{x}] = s[x].n + iter[{}]
    BY <1>10, <2>1, <2>2
  <2> QED BY <1>3, <1>9, <2>3
<1>12. ASSUME S = {1, 2} PROVE iter[S] = s[1].n + s[2].n
  <2>1. PICK x \in S : (x = CHOOSE y \in S : TRUE) /\ x \in {1, 2}
    BY <1>5, <1>12
  <2>2. iter[S] = s[x].n + iter[S \ {x}]
    BY <1>10, <2>1
  <2>3. CASE x = 1
    <3>1. S \ {x} = {2}
      BY <1>12, <2>3
    <3>2. s[1].n \in Nat /\ s[2].n \in Nat /\ iter[{2}] = s[2].n
      BY <1>3, <1>11, <1>12
    <3> QED BY <2>2, <2>3, <3>1, <3>2
  <2>4. CASE x = 2
    <3>1. S \ {x} = {1}
      BY <1>12, <2>4
    <3>2. PICK a \in Nat, b \in Nat : a = s[1].n /\ b = s[2].n
      BY <1>3, <1>12
    <3>3. iter[{1}] = a
      BY <1>11, <1>12, <3>2
    <3>4. iter[S] = b + a
      BY <2>2, <2>4, <3>1, <3>2, <3>3
    <3>5. b + a = a + b
      OBVIOUS
    <3> QED BY <3>2, <3>4, <3>5
  <2> QED BY <2>1, <2>3, <2>4
<1>13. CASE S = {}
  BY <1>2, <1>4, <1>9, <1>13 DEF Amount
<1>14. CASE S = {1}
  <2>1. iter[S] = s[1].n /\ s[1].n \in Nat /\ s[1] # None /\ s[2] = None
    BY <1>2, <1>3, <1>11, <1>14
  <2> QED BY <1>4, <2>1 DEF Amount
<1>15. CASE S = {2}
  <2>1. iter[S] = s[2].n /\ s[2].n \in Nat /\ s[2] # None /\ s[1] = None
    BY <1>2, <1>3, <1>11, <1>15
  <2> QED BY <1>4, <2>1 DEF Amount
<1>16. CASE S = {1, 2}
  <2>1. iter[S] = s[1].n + s[2].n /\ s[2] # None /\ s[1] # None
    BY <1>2, <1>12, <1>16
  <2> QED BY <1>4, <2>1 DEF Amount
<1>17. S = {} \/ S = {1} \/ S = {2} \/ S = {1, 2}
  BY <1>2
<1> QED
  BY <1>13, <1>14, <1>15, <1>16, <1>17

(* Levels are numbers or missing. *)
LEMMA LevelType ==
    ASSUME NEW s \in Reading, NEW n \in Series
    PROVE  Level(s, n) \in Nat \cup {None}
<1>1. \A i \in Names : s[i] \in {None} \cup Sample
  BY DEF Reading
<1>2. \A i \in Names : Count(s[i]) \in Nat \cup {None} /\ Amount(s[i]) \in Nat
  BY <1>1 DEF Count, Amount, Sample
<1>3. 1 \in Names /\ 2 \in Names
  BY DEF Names
<1> QED
  BY <1>2, <1>3 DEF Level

(* The level of a counter. *)
LEMMA LevelOfName ==
    ASSUME NEW s \in Reading, NEW n \in Names
    PROVE  Level(s, n) = (IF s[n] = None THEN None ELSE s[n].n) /\ n \in Series
BY DEF Level, Count, Series

(* The level of the total. *)
LEMMA LevelOfTotal ==
    ASSUME NEW s
    PROVE  /\ Total \in Series /\ Total \notin Names
           /\ Level(s, Total) = IF s[1] = None /\ s[2] = None THEN None
                                ELSE Amount(s[1]) + Amount(s[2])
BY DEF Level, Series, Total, Names

(* Gains are numbers, and none without two levels. *)
LEMMA GainType ==
    ASSUME NEW a \in Nat \cup {None}, NEW b \in Nat \cup {None}
    PROVE  Gain(a, b) \in Nat
BY NoneAssumption DEF Gain

(* A derived rate is at most the gain of the count. *)
LEMMA DeltaIsGain ==
    ASSUME NEW p \in Nat \cup {None}, NEW x \in Nat, NEW t, CounterDelta(p, x, t).delta # None
    PROVE  /\ p # None /\ CounterDelta(p, x, t).delta \in Nat
           /\ CounterDelta(p, x, t).delta = Gain(p, x)
<1>1. p # None
  BY DEF CounterDelta, Unavailable
<1>2. p \in Nat /\ x # None
  BY <1>1, NoneAssumption
<1>3. CounterDelta(p, x, t).delta = (IF x < p THEN None ELSE x - p)
  BY DEF CounterDelta, Unavailable
<1> QED
  BY <1>1, <1>2, <1>3 DEF Gain

(* The metrics of each kind. *)
LEMMA MetricsGain ==
    ASSUME NEW n, NEW current \in Sample, NEW previous \in {None} \cup Sample, NEW t,
           Metrics(n, current, previous, t).delta # None
    PROVE  /\ previous # None /\ Metrics(n, current, previous, t).delta \in Nat
           /\ Metrics(n, current, previous, t).delta <= Gain(Count(previous), current.n)
<1> DEFINE m == Metrics(n, current, previous, t)
           same == IF SameIdentity(current, previous) THEN previous.n ELSE None
<1>1. /\ current.n \in Nat /\ Count(previous) \in Nat \cup {None} /\ same \in Nat \cup {None}
      /\ (Count(previous) # None => previous # None)
      /\ (same # None => same = Count(previous))
  BY DEF Sample, Count, SameIdentity
<1>2. ASSUME NEW p \in Nat \cup {None}, p # None => p = Count(previous),
             NEW d, d = CounterDelta(p, current.n, t), m.delta = d.delta
      PROVE  previous # None /\ m.delta \in Nat /\ m.delta <= Gain(Count(previous), current.n)
  <2>1. d.delta # None
    BY <1>2
  <2>2. p # None /\ d.delta \in Nat /\ d.delta = Gain(p, current.n)
    BY <1>1, <1>2, <2>1, DeltaIsGain
  <2> QED BY <1>1, <1>2, <2>2
<1>3. CASE kind = "interface"
  <2>1. m = CounterDelta(Count(previous), current.n, t)
    BY <1>3 DEF Metrics, InterfaceMetrics
  <2> QED BY <1>1, <1>2, <2>1
<1>4. CASE kind = "tcp"
  <2>1. m = CounterDelta(Count(previous), current.n, t)
    BY <1>4 DEF Metrics, TcpCounterMetrics
  <2> QED BY <1>1, <1>2, <2>1
<1>5. PICK d : d = CounterDelta(same, current.n, t)
  OBVIOUS
<1>6. "delta" \in DOMAIN d /\ \A r : [d EXCEPT !.reset = r].delta = d.delta
  BY <1>5 DEF CounterDelta, Unavailable
<1>7. CASE kind = "disk"
  <2>1. m = [d EXCEPT !.reset = (previous # None /\ previous.id # current.id) \/ d.reset]
    BY <1>5, <1>7, Zenon DEF Metrics, DiskMetrics
  <2>2. m.delta = d.delta
    <3> HIDE DEF m, same
    <3> QED BY <1>6, <2>1
  <2>3. same # None => same = Count(previous)
    BY <1>1
  <2> HIDE DEF same
  <2>4. previous # None /\ m.delta \in Nat /\ m.delta <= Gain(Count(previous), current.n)
    BY <1>1, <1>2, <1>5, <2>2, <2>3
  <2> QED BY <2>4
<1>8. CASE kind = "process"
  <2>1. m = [d EXCEPT !.reset = (previous # None /\ previous.id # current.id) \/ d.reset]
    BY <1>5, <1>8, Zenon DEF Metrics, ServiceProcessMetrics
  <2>2. m.delta = d.delta
    <3> HIDE DEF m, same
    <3> QED BY <1>6, <2>1
  <2>3. same # None => same = Count(previous)
    BY <1>1
  <2> HIDE DEF same
  <2>4. previous # None /\ m.delta \in Nat /\ m.delta <= Gain(Count(previous), current.n)
    BY <1>1, <1>2, <1>5, <2>2, <2>3
  <2> QED BY <2>4
<1>9. CASE kind \notin {"interface", "disk", "tcp", "process"}
  <2>1. m = CpuMetrics(current, previous, t)
    BY <1>9 DEF Metrics
  <2>2. /\ previous # None /\ ~(current.n < previous.n) /\ m.delta = current.n - previous.n
    BY <2>1 DEF CpuMetrics
  <2>3. previous.n \in Nat
    BY <2>2 DEF Sample
  <2> QED BY <1>1, <2>2, <2>3, NoneAssumption DEF Count, Gain
<1> QED
  BY <1>3, <1>4, <1>7, <1>8, <1>9

(* What a cycle reports of a series is at most its gain since the saved sample. *)
LEMMA ResultGain ==
    ASSUME NEW d, d.prev # None => d.prev.samples \in Reading, NEW c, c.samples \in Reading,
           NEW n \in Series, Result(d, c)[n].delta # None
    PROVE  /\ d.prev # None /\ Result(d, c)[n].delta \in Nat
           /\ Result(d, c)[n].delta <= Gain(Before(d, n), Level(c.samples, n))
<1> DEFINE x == Result(d, c)[n].delta
<1>1. ASSUME NEW i \in Names
      PROVE  /\ PreviousSample(d, i) \in {None} \cup Sample
             /\ d.prev # None => PreviousSample(d, i) = d.prev.samples[i]
             /\ d.prev = None => PreviousSample(d, i) = None
  BY DEF PreviousSample, Reading
<1>2. CASE n \in Names /\ c.samples[n] # None
  <2>1. x = Metrics(n, c.samples[n], PreviousSample(d, n), Elapsed(d, c)).delta
    BY <1>2 DEF Result
  <2>2. c.samples[n] \in Sample
    BY <1>2 DEF Reading
  <2>3. /\ PreviousSample(d, n) # None /\ x \in Nat
        /\ x <= Gain(Count(PreviousSample(d, n)), c.samples[n].n)
    BY <1>1, <1>2, <2>1, <2>2, MetricsGain
  <2>4. d.prev # None /\ Before(d, n) = Count(PreviousSample(d, n))
    BY <1>1, <1>2, <2>3 DEF Before, Level
  <2>5. Level(c.samples, n) = c.samples[n].n
    BY <1>2 DEF Level, Count
  <2> QED BY <2>3, <2>4, <2>5
<1>3. CASE ~(n \in Names /\ c.samples[n] # None)
  <2> DEFINE p == IF \A i \in Names : PreviousSample(d, i) = None THEN None
                  ELSE AggregateExternal(d.prev.samples)
             y == AggregateExternal(c.samples)
  <2>1. n = Total /\ Result(d, c)[n] = InterfaceMetrics(y, p, Elapsed(d, c))
    <3>1. Result(d, c)[n] = (IF n = Total /\ kind = "interface"
                             THEN InterfaceMetrics(y, p, Elapsed(d, c)) ELSE Unavailable)
      BY <1>3 DEF Result
    <3> QED BY <3>1 DEF Unavailable
  <2>2. ASSUME NEW s \in Reading
        PROVE  /\ AggregateExternal(s).n = Amount(s[1]) + Amount(s[2])
               /\ AggregateExternal(s).n \in Nat /\ AggregateExternal(s) # None
    <3>1. AggregateExternal(s).n = Amount(s[1]) + Amount(s[2])
      BY AggregateIsSum
    <3>2. s[1] \in {None} \cup Sample /\ s[2] \in {None} \cup Sample
      BY DEF Reading, Names
    <3>3. AggregateExternal(s).n \in Nat
      BY <3>1, <3>2 DEF Amount, Sample
    <3>4. AggregateExternal(s) = [id |-> 0, idle |-> 0, n |-> AggregateExternal(s).n]
      BY DEF AggregateExternal
    <3>5. AggregateExternal(s) \in Sample
      BY <3>3, <3>4 DEF Sample
    <3> QED BY <3>1, <3>3, <3>5, NoneAssumption DEF Sample
  <2>3. p # None => d.prev # None /\ p = AggregateExternal(d.prev.samples)
                    /\ ~(d.prev.samples[1] = None /\ d.prev.samples[2] = None)
    BY <1>1 DEF Names
  <2>4. y.n \in Nat /\ y.n = Amount(c.samples[1]) + Amount(c.samples[2])
    BY <2>2
  <2>5. Count(p) \in Nat \cup {None} /\ (Count(p) # None => p # None)
    BY <2>2, <2>3 DEF Count
  <2>6. Result(d, c)[n] = CounterDelta(Count(p), y.n, Elapsed(d, c))
    BY <2>1 DEF InterfaceMetrics
  <2> HIDE DEF p, y
  <2>7. Count(p) # None /\ x \in Nat /\ x = Gain(Count(p), y.n)
    <3>1. CounterDelta(Count(p), y.n, Elapsed(d, c)).delta # None
      BY <2>6
    <3>2. PICK t : t = Elapsed(d, c)
      OBVIOUS
    <3>3. /\ Count(p) # None /\ CounterDelta(Count(p), y.n, t).delta \in Nat
          /\ CounterDelta(Count(p), y.n, t).delta = Gain(Count(p), y.n)
      BY <2>4, <2>5, <3>1, <3>2, DeltaIsGain, Zenon
    <3> QED BY <2>6, <3>2, <3>3
  <2>8. d.prev # None /\ Before(d, n) = Count(p)
    <3>1. p # None
      BY <2>5, <2>7
    <3>2. d.prev.samples \in Reading
      BY <2>3, <3>1
    <3> QED BY <2>1, <2>2, <2>3, <3>1, <3>2, LevelOfTotal DEF Before, Count
  <2>9. Gain(Count(p), y.n) <= Gain(Before(d, n), Level(c.samples, n))
    <3>1. CASE c.samples[1] = None /\ c.samples[2] = None
      <4>1. y.n = 0
        BY <2>4, <3>1 DEF Amount
      <4>2. Level(c.samples, n) = None
        BY <2>1, <3>1, LevelOfTotal
      <4> QED BY <2>5, <2>7, <4>1, <4>2 DEF Gain
    <3>2. CASE ~(c.samples[1] = None /\ c.samples[2] = None)
      <4>1. Level(c.samples, n) = y.n
        BY <2>1, <2>4, <3>2, LevelOfTotal
      <4> QED BY <2>7, <2>8, <4>1
    <3> QED BY <3>1, <3>2
  <2> QED BY <2>7, <2>8, <2>9
<1> QED
  BY <1>2, <1>3

(* What happened is a number. *)
LEMMA RealType ==
    ASSUME NEW t \in [Names -> Nat], NEW n \in Series
    PROVE  Real(t, n) \in Nat
BY DEF Real, Series, Names, Total

(* A counter that moves by k gains at most k more; one that falls gains nothing. *)
LEMMA GainMoves ==
    ASSUME NEW a \in Nat \cup {None}, NEW b \in Nat \cup {None}
    PROVE  /\ \A k \in Nat : Gain(a, IF b = None THEN None ELSE b + k) <= Gain(a, b) + k
           /\ \A x \in Nat \cup {None} :
                 (x = None \/ x = 0 \/ (b \in Nat /\ x \in Nat /\ x <= b)) => Gain(a, x) <= Gain(a, b)
<1>1. None \notin Nat /\ Gain(a, b) \in Nat
  BY NoneAssumption, GainType
<1>2. ASSUME NEW k \in Nat PROVE Gain(a, IF b = None THEN None ELSE b + k) <= Gain(a, b) + k
  <2>1. CASE b = None
    BY <1>1, <2>1 DEF Gain
  <2>2. CASE b # None
    <3>1. b \in Nat /\ b + k \in Nat /\ b + k # None
      BY <1>1, <2>2
    <3> QED BY <1>1, <2>2, <3>1 DEF Gain
  <2> QED BY <2>1, <2>2
<1>3. ASSUME NEW x \in Nat \cup {None}, x = None \/ x = 0 \/ (b \in Nat /\ x \in Nat /\ x <= b)
      PROVE  Gain(a, x) <= Gain(a, b)
  <2>1. CASE x = None
    BY <1>1, <2>1 DEF Gain
  <2>2. CASE x = 0
    <3>1. Gain(a, x) = 0
      BY <1>1, <2>2 DEF Gain
    <3> QED BY <1>1, <3>1
  <2>3. CASE b \in Nat /\ x \in Nat /\ x <= b
    BY <1>1, <2>3 DEF Gain
  <2> QED BY <1>3, <2>1, <2>2, <2>3
<1> QED
  BY <1>2, <1>3

(* A step of the host: no counter gains more than what happens, and no more   *)
(* happens than time allows.                                                  *)
HostMove ==
    /\ UNCHANGED <<pc, cy, db, boot>> /\ mono' \in Nat /\ mono <= mono'
    /\ \A n \in Series :
          /\ Real(traffic', n) - Real(traffic, n) \in 0..Most(n, mono' - mono)
          /\ \A a \in Nat \cup {None} :
                Gain(a, Level(counter', n)) <= Gain(a, Level(counter, n))
                                               + (Real(traffic', n) - Real(traffic, n))

(* A sample interval passes. *)
LEMMA TickMoves ==
    ASSUME HostInv, Tick
    PROVE  HostMove /\ HostInv'
<1> DEFINE here == {n \in Names : counter[n] # None /\ Counting}
<1>1. PICK moved \in SUBSET here :
          /\ counter' = [n \in Names |->
                IF counter[n] = None THEN None
                ELSE IF n \in moved THEN [counter[n] EXCEPT !.n = @ + 1]
                ELSE IF kind \in {"cpu", "service"} THEN [counter[n] EXCEPT !.idle = @ + 1]
                ELSE counter[n]]
          /\ traffic' = [n \in Names |-> traffic[n] + Flag(n \in moved)]
  BY Zenon DEF Tick
<1>2. /\ now < MaxTime /\ now' = now + 1 /\ mono' = mono + 1 /\ UNCHANGED <<boot, faults, starts>>
      /\ UNCHANGED <<pc, cy, db>>
  BY DEF Tick, daemon
<1>3. /\ now \in 0..MaxTime /\ mono \in 0..now /\ MaxTime \in Nat
      /\ counter \in Reading /\ traffic \in [Names -> Nat]
  BY CollectorAssumption DEF HostInv
<1> DEFINE f(i) == Flag(i \in moved)
<1>4. ASSUME NEW i \in Names
      PROVE  /\ f(i) \in {0, 1} /\ traffic'[i] = traffic[i] + f(i)
             /\ counter'[i] \in {None} \cup Sample
             /\ counter[i] = None => counter'[i] = None /\ f(i) = 0
             /\ counter[i] # None => counter'[i] # None /\ counter'[i].n = counter[i].n + f(i)
             /\ Amount(counter'[i]) = Amount(counter[i]) + f(i) /\ Amount(counter[i]) \in Nat
  <2>1. f(i) \in {0, 1} /\ traffic'[i] = traffic[i] + f(i)
    BY <1>1 DEF Flag
  <2>2. CASE counter[i] = None
    <3>1. counter'[i] = None /\ f(i) = 0
      BY <1>1, <2>2 DEF Flag
    <3> QED BY <2>1, <2>2, <3>1 DEF Amount
  <2>3. CASE counter[i] # None
    <3>1. counter[i] \in Sample
      BY <1>3, <2>3 DEF Reading
    <3>2. PICK x : x = counter[i]
      OBVIOUS
    <3>3. /\ [x EXCEPT !.n = @ + 1] \in Sample /\ [x EXCEPT !.n = @ + 1].n = x.n + 1
          /\ [x EXCEPT !.idle = @ + 1] \in Sample /\ [x EXCEPT !.idle = @ + 1].n = x.n
          /\ x.n \in Nat
      BY <3>1, <3>2 DEF Sample
    <3>4. counter'[i] = (IF i \in moved THEN [x EXCEPT !.n = @ + 1]
                         ELSE IF kind \in {"cpu", "service"} THEN [x EXCEPT !.idle = @ + 1]
                         ELSE x)
      BY <1>1, <2>3, <3>2
    <3>5. counter'[i] \in Sample /\ counter'[i].n = x.n + f(i)
      <4>1. CASE i \in moved
        BY <3>3, <3>4, <4>1 DEF Flag
      <4>2. CASE i \notin moved
        BY <3>1, <3>2, <3>3, <3>4, <4>2 DEF Flag
      <4> QED BY <4>1, <4>2
    <3>6. counter'[i] # None
      BY <3>5, NoneAssumption DEF Sample
    <3> QED BY <2>1, <2>3, <3>2, <3>3, <3>5, <3>6 DEF Amount
  <2> QED BY <2>2, <2>3
<1>5. counter' \in Reading /\ traffic' \in [Names -> Nat]
  <2>1. DOMAIN counter' = Names /\ counter' = [i \in Names |-> counter'[i]]
    BY <1>1
  <2>2. traffic' = [i \in Names |-> traffic'[i]] /\ \A i \in Names : traffic'[i] \in Nat
    <3>1. ASSUME NEW i \in Names PROVE traffic'[i] \in Nat
      <4>1. PICK x \in {0, 1} : x = f(i)
        BY <1>4
      <4>2. traffic[i] \in Nat /\ traffic'[i] = traffic[i] + x
        BY <1>3, <1>4, <4>1
      <4> QED BY <4>2
    <3> QED BY <1>1, <3>1
  <2> QED BY <1>4, <2>1, <2>2 DEF Reading
<1>6. now' \in 0..MaxTime /\ mono' \in 0..now' /\ mono' \in Nat /\ mono <= mono' /\ mono' - mono = 1
  BY <1>2, <1>3
<1>7. HostInv'
  BY <1>2, <1>5, <1>6 DEF HostInv
<1>8. 1 \in Names /\ 2 \in Names /\ Names = {1, 2} /\ Series = Names \cup {Total}
  BY DEF Names, Series
<1> DEFINE g(n) == IF n = Total THEN f(1) + f(2) ELSE f(n)
<1>9. ASSUME NEW n \in Series
      PROVE  /\ g(n) \in Nat /\ g(n) <= Most(n, 1)
             /\ Real(traffic', n) = Real(traffic, n) + g(n)
             /\ Level(counter', n) = IF Level(counter, n) = None THEN None
                                     ELSE Level(counter, n) + g(n)
  <2>1. CASE n \in Names
    <3>1. n # Total /\ Level(counter', n) = (IF counter'[n] = None THEN None ELSE counter'[n].n)
          /\ Level(counter, n) = IF counter[n] = None THEN None ELSE counter[n].n
      BY <1>3, <1>5, <2>1, LevelOfName, LevelOfTotal
    <3>2. f(n) \in {0, 1}
      BY <1>4, <2>1
    <3> HIDE DEF f
    <3>3. g(n) \in Nat /\ g(n) <= Most(n, 1)
      BY <3>1, <3>2 DEF Most
    <3>4. Real(traffic', n) = Real(traffic, n) + g(n)
      BY <1>4, <2>1, <3>1 DEF Real
    <3>5. counter[n] # None => counter[n].n # None
      <4>1. counter[n] # None => counter[n].n \in Nat
        BY <1>3, <2>1 DEF Reading, Sample
      <4> QED BY <4>1, NoneAssumption
    <3>6. Level(counter', n) = IF Level(counter, n) = None THEN None
                               ELSE Level(counter, n) + g(n)
      BY <1>4, <2>1, <3>1, <3>5
    <3> QED BY <3>3, <3>4, <3>6
  <2>2. CASE n = Total
    <3>1. PICK x \in {0, 1}, y \in {0, 1} : x = f(1) /\ y = f(2)
      BY <1>4, <1>8
    <3>2. g(n) = x + y
      BY <2>2, <3>1
    <3>3. g(n) \in Nat /\ g(n) <= Most(n, 1)
      <4> HIDE DEF f, g
      <4> QED BY <2>2, <3>2 DEF Most
    <3>4. Real(traffic', n) = Real(traffic, n) + g(n)
      <4>1. traffic'[1] = traffic[1] + x /\ traffic'[2] = traffic[2] + y
        BY <1>4, <1>8, <3>1
      <4>2. traffic[1] \in Nat /\ traffic[2] \in Nat
        BY <1>3, <1>8
      <4> HIDE DEF f, g
      <4> QED BY <2>2, <3>2, <4>1, <4>2 DEF Real
    <3>5. PICK a \in Nat, b \in Nat : a = Amount(counter[1]) /\ b = Amount(counter[2])
      BY <1>4, <1>8
    <3>6. Amount(counter'[1]) = a + x /\ Amount(counter'[2]) = b + y
      BY <1>4, <1>8, <3>1, <3>5
    <3>7. (counter'[1] = None <=> counter[1] = None) /\ (counter'[2] = None <=> counter[2] = None)
      BY <1>4, <1>8
    <3>8. /\ Level(counter, n) = IF counter[1] = None /\ counter[2] = None THEN None ELSE a + b
          /\ Level(counter', n) = IF counter[1] = None /\ counter[2] = None THEN None
                                  ELSE (a + x) + (b + y)
      BY <2>2, <3>5, <3>6, <3>7, LevelOfTotal
    <3>9. (a + x) + (b + y) = (a + b) + g(n) /\ a + b # None
      <4>1. a + b \in Nat
        OBVIOUS
      <4> HIDE DEF f, g
      <4> QED BY <3>2, <4>1, NoneAssumption
    <3> HIDE DEF f, g
    <3> QED BY <3>3, <3>4, <3>8, <3>9
  <2> QED BY <1>8, <2>1, <2>2
<1> HIDE DEF f, g
<1>10. ASSUME NEW n \in Series
       PROVE  /\ Real(traffic', n) - Real(traffic, n) = g(n)
              /\ \A a \in Nat \cup {None} :
                    Gain(a, Level(counter', n)) <= Gain(a, Level(counter, n)) + g(n)
  <2>1. Level(counter, n) \in Nat \cup {None} /\ Real(traffic, n) \in Nat
    BY <1>3, LevelType, RealType
  <2>2. PICK b \in Nat \cup {None}, k \in Nat : b = Level(counter, n) /\ k = g(n)
    BY <1>9, <2>1
  <2>3. Level(counter', n) = (IF b = None THEN None ELSE b + k)
    BY <1>9, <2>2
  <2>4. \A a \in Nat \cup {None} : Gain(a, IF b = None THEN None ELSE b + k) <= Gain(a, b) + k
    BY GainMoves
  <2>5. Real(traffic', n) - Real(traffic, n) = g(n)
    BY <1>9, <2>1
  <2> QED BY <2>2, <2>3, <2>4, <2>5
<1> QED
  BY <1>2, <1>6, <1>7, <1>9, <1>10 DEF HostMove

(* Counters that disappear or start again, or stay. *)
LEMMA DropMoves ==
    ASSUME HostInv, counter' \in Reading, UNCHANGED <<pc, cy, db, boot, mono, traffic>>,
           \A i \in Names : counter'[i] = counter[i] \/ counter'[i] = None \/ counter'[i].n = 0
    PROVE  HostMove
<1>1. mono \in Nat /\ counter \in Reading /\ traffic \in [Names -> Nat]
  BY DEF HostInv
<1>2. 1 \in Names /\ 2 \in Names /\ Series = Names \cup {Total}
  BY DEF Names, Series
<1>3. \A i \in Names : Amount(counter[i]) \in Nat /\ Amount(counter'[i]) \in Nat
                       /\ Amount(counter'[i]) <= Amount(counter[i])
  BY <1>1 DEF Reading, Sample, Amount
<1>4. ASSUME NEW n \in Series
      PROVE  LET x == Level(counter', n)
                 b == Level(counter, n)
             IN  x = None \/ x = 0 \/ (b \in Nat /\ x \in Nat /\ x <= b)
  <2>1. CASE n \in Names
    <3>1. Level(counter, n) \in Nat \cup {None}
      BY <1>1, LevelType
    <3>2. /\ Level(counter', n) = (IF counter'[n] = None THEN None ELSE counter'[n].n)
          /\ Level(counter, n) = IF counter[n] = None THEN None ELSE counter[n].n
      BY <1>1, <2>1, LevelOfName
    <3> QED BY <2>1, <3>1, <3>2
  <2>2. CASE n = Total
    <3>1. PICK a \in Nat, b \in Nat, p \in Nat, q \in Nat :
             /\ a = Amount(counter[1]) /\ b = Amount(counter[2])
             /\ p = Amount(counter'[1]) /\ q = Amount(counter'[2]) /\ p <= a /\ q <= b
      BY <1>2, <1>3
    <3>2. /\ Level(counter, n) = (IF counter[1] = None /\ counter[2] = None THEN None ELSE a + b)
          /\ Level(counter', n) = IF counter'[1] = None /\ counter'[2] = None THEN None ELSE p + q
      BY <2>2, <3>1, LevelOfTotal
    <3>3. counter[1] = None /\ counter[2] = None => a = 0 /\ b = 0
      BY <3>1 DEF Amount
    <3> QED BY <3>1, <3>2, <3>3
  <2> QED BY <1>2, <2>1, <2>2
<1>5. ASSUME NEW n \in Series, NEW a \in Nat \cup {None}
      PROVE  Gain(a, Level(counter', n)) <= Gain(a, Level(counter, n))
  <2>1. Level(counter, n) \in Nat \cup {None} /\ Level(counter', n) \in Nat \cup {None}
    BY <1>1, LevelType
  <2> QED BY <1>4, <2>1, GainMoves
<1>6. ASSUME NEW n \in Series
      PROVE  /\ Real(traffic', n) - Real(traffic, n) = 0 /\ Most(n, mono' - mono) = 0
             /\ \A a \in Nat \cup {None} : Gain(a, Level(counter, n)) \in Nat
  <2>1. PICK x \in Nat : x = Real(traffic, n) /\ x = Real(traffic', n)
    BY <1>1, RealType
  <2>2. mono' - mono = 0
    BY <1>1
  <2>3. Most(n, mono' - mono) = 0
    BY <2>2 DEF Most
  <2>4. \A a \in Nat \cup {None} : Gain(a, Level(counter, n)) \in Nat
    BY <1>1, LevelType, GainType
  <2> QED BY <2>1, <2>3, <2>4
<1> QED
  BY <1>1, <1>5, <1>6 DEF HostMove

(* The types of what the invariant compares. *)
LEMMA RateTypes ==
    ASSUME RatesInv, NEW n \in Series
    PROVE  /\ Before(db, n) \in Nat \cup {None} /\ Level(counter, n) \in Nat \cup {None}
           /\ HasRead => Level(cy.samples, n) \in Nat \cup {None}
           /\ db.reported[n] \in Nat /\ Real(traffic, n) \in Nat
           /\ Gain(Before(db, n), Level(counter, n)) \in Nat
           /\ HasRead => /\ Gain(Before(db, n), Level(cy.samples, n)) \in Nat
                         /\ Gain(Level(cy.samples, n), Level(counter, n)) \in Nat
<1>1. /\ counter \in Reading /\ traffic \in [Names -> Nat] /\ db.reported \in [Series -> Nat]
      /\ db.prev # None => db.prev.samples \in Reading
      /\ HasRead => cy.samples \in Reading
  BY DEF RatesInv, HostInv, SampleInv, BalanceInv, HasRead
<1>2. Level(counter, n) \in Nat \cup {None} /\ (HasRead => Level(cy.samples, n) \in Nat \cup {None})
  BY <1>1, LevelType
<1>3. Before(db, n) \in Nat \cup {None}
  BY <1>1, LevelType DEF Before
<1> QED
  BY <1>1, <1>2, <1>3, GainType, RealType

(* The most that can happen adds up over time. *)
LEMMA MostAdds ==
    ASSUME NEW n, NEW s \in Int, NEW t \in Int
    PROVE  Most(n, s) \in Int /\ Most(n, s + t) = Most(n, s) + Most(n, t)
<1>1. CASE n = Total
  BY <1>1 DEF Most
<1>2. CASE n # Total
  BY <1>2 DEF Most
<1> QED
  BY <1>1, <1>2

(* The host moves. *)
LEMMA MoveKeeps ==
    ASSUME RatesInv, HostMove, HostInv'
    PROVE  RatesInv'
<1>1. UNCHANGED <<pc, cy, db, boot>> /\ mono \in Nat /\ mono' \in Nat /\ mono <= mono'
  BY DEF HostMove, RatesInv, HostInv
<1>a. PICK m \in Nat, w \in Nat, t \in Nat : m = mono /\ w = mono' /\ w = m + t /\ t = w - m
  <2>1. mono \in Nat /\ mono' \in Nat /\ mono <= mono'
    BY <1>1
  <2>2. \A x, y \in Nat : x <= y => y - x \in Nat /\ y = x + (y - x)
    OBVIOUS
  <2> QED BY <2>1, <2>2
<1>2. Typed(db)' /\ (HasRead' <=> HasRead)
  BY <1>1 DEF RatesInv, HasRead
<1>3. SampleInv'
  BY <1>1 DEF RatesInv, SampleInv
<1>4. ASSUME NEW n \in Series
      PROVE  /\ db.reported[n] + Gain(Before(db, n), Level(counter', n)) <= Real(traffic', n)
             /\ HasRead => db.reported[n] + Gain(Before(db, n), Level(cy.samples, n))
                           + Gain(Level(cy.samples, n), Level(counter', n)) <= Real(traffic', n)
             /\ db.prev # None /\ db.prev.boot = boot =>
                   Gain(Before(db, n), Level(counter', n)) <= Most(n, mono' - ReadAt(db.prev))
             /\ HasRead => Gain(Level(cy.samples, n), Level(counter', n)) <= Most(n, mono' - cy.read)
  <2>1. PICK k \in Nat, x \in Nat, y \in Nat :
           /\ x = Real(traffic, n) /\ y = Real(traffic', n) /\ y = x + k /\ k = y - x
           /\ k <= Most(n, t)
    <3>1. Real(traffic, n) \in Nat /\ Real(traffic', n) \in Nat
      BY RealType DEF RatesInv, HostInv
    <3>2. Most(n, t) \in Nat
      BY DEF Most
    <3>3. Real(traffic', n) - Real(traffic, n) \in 0..Most(n, t)
      BY <1>a DEF HostMove
    <3> QED BY <3>1, <3>2, <3>3
  <2>2. \A a \in Nat \cup {None} : Gain(a, Level(counter', n)) <= Gain(a, Level(counter, n)) + k
    <3>1. \A a \in Nat \cup {None} :
             Gain(a, Level(counter', n)) <= Gain(a, Level(counter, n))
                                            + (Real(traffic', n) - Real(traffic, n))
      BY DEF HostMove
    <3> QED BY <2>1, <3>1
  <2>3. PICK rep \in Nat, p \in Nat, q \in Nat :
           /\ rep = db.reported[n] /\ p = Gain(Before(db, n), Level(counter, n))
           /\ q = Gain(Before(db, n), Level(counter', n)) /\ q <= p + k /\ rep + p <= x
    <3>1. Level(counter', n) \in Nat \cup {None}
      BY LevelType DEF HostInv
    <3>2. Gain(Before(db, n), Level(counter', n)) \in Nat
      BY <3>1, RateTypes, GainType
    <3>3. db.reported[n] + Gain(Before(db, n), Level(counter, n)) <= Real(traffic, n)
      BY DEF RatesInv, BalanceInv
    <3> QED BY <2>1, <2>2, <3>2, <3>3, RateTypes
  <2>4. rep + q <= y
    BY <2>1, <2>3
  <2>5. ASSUME HasRead
        PROVE  /\ db.reported[n] + Gain(Before(db, n), Level(cy.samples, n))
                  + Gain(Level(cy.samples, n), Level(counter', n)) <= Real(traffic', n)
               /\ Gain(Level(cy.samples, n), Level(counter', n)) <= Most(n, mono' - cy.read)
    <3>1. Level(counter', n) \in Nat \cup {None}
      BY LevelType DEF HostInv
    <3>2. PICK b \in Nat, c \in Nat, d \in Nat :
             /\ b = Gain(Before(db, n), Level(cy.samples, n))
             /\ c = Gain(Level(cy.samples, n), Level(counter, n))
             /\ d = Gain(Level(cy.samples, n), Level(counter', n)) /\ d <= c + k
      BY <2>2, <2>5, <3>1, RateTypes, GainType, ZenonT(40)
    <3>3. rep + b + c <= x /\ c <= Most(n, mono - cy.read)
      BY <2>1, <2>3, <2>5, <3>2 DEF RatesInv, BalanceInv, SpeedInv
    <3>4. rep + b + d <= y
      BY <2>1, <3>2, <3>3
    <3>5. cy.read \in Int
      BY <2>5, <1>1 DEF RatesInv, SampleInv, HasRead
    <3>6. d <= Most(n, mono' - cy.read)
      <4>1. PICK r \in Int : r = cy.read
        BY <3>5
      <4>2. w - r = (m - r) + t /\ m - r \in Int
        BY <1>a
      <4>3. Most(n, w - r) = Most(n, m - r) + Most(n, t) /\ Most(n, m - r) \in Int
            /\ Most(n, t) \in Int
        BY <4>2, MostAdds
      <4>4. d <= Most(n, w - r)
        BY <1>a, <2>1, <3>2, <3>3, <4>1, <4>3
      <4> QED BY <1>a, <4>1, <4>4
    <3> QED BY <2>1, <2>3, <3>2, <3>4, <3>6
  <2>6. ASSUME db.prev # None, db.prev.boot = boot
        PROVE  Gain(Before(db, n), Level(counter', n)) <= Most(n, mono' - ReadAt(db.prev))
    <3>1. PICK r \in Int : r = ReadAt(db.prev)
      BY <2>6 DEF RatesInv, SampleInv, ReadAt
    <3>2. p <= Most(n, mono - r)
      BY <2>3, <2>6, <3>1 DEF RatesInv, SpeedInv
    <3>3. q <= Most(n, mono' - r)
      <4>1. w - r = (m - r) + t /\ m - r \in Int
        BY <1>a
      <4>2. Most(n, w - r) = Most(n, m - r) + Most(n, t) /\ Most(n, m - r) \in Int
            /\ Most(n, t) \in Int
        BY <4>1, MostAdds
      <4>3. q <= Most(n, w - r)
        BY <1>a, <2>1, <2>3, <3>2, <4>2
      <4> QED BY <1>a, <4>3
    <3> QED BY <2>3, <3>1, <3>3
  <2> QED BY <2>1, <2>3, <2>4, <2>5, <2>6
<1>5. BalanceInv'
  BY <1>1, <1>2, <1>4 DEF RatesInv, BalanceInv
<1>6. SpeedInv'
  BY <1>1, <1>2, <1>4 DEF RatesInv, SpeedInv
<1> QED
  BY <1>2, <1>3, <1>5, <1>6 DEF RatesInv

(* The daemon does something else than reading; rates and what was reported are *)
(* as before, or no longer followed.                                            *)
LEMMA AsideKeeps ==
    ASSUME RatesInv, HostInv', UNCHANGED <<mono, boot, counter, traffic>>,
           pc' \notin {"capture_services", "transact"}, Typed(db'), db'.prev = db.prev,
           db'.rate = db.rate \/ db'.rate = [n \in Series |-> None],
           db'.reported = db.reported \/ db'.reported = [n \in Series |-> 0]
    PROVE  RatesInv'
<1>1. ~HasRead' /\ Typed(db)'
  BY DEF HasRead
<1>2. SampleInv'
  BY DEF RatesInv, SampleInv
<1>3. ASSUME NEW n \in Series
      PROVE  /\ Before(db', n) = Before(db, n)
             /\ db'.reported[n] \in Nat /\ db'.reported[n] <= db.reported[n]
             /\ db'.rate[n] = db.rate[n] \/ db'.rate[n] = None
  BY RateTypes DEF Before
<1>4. db'.reported \in [Series -> Nat]
  BY DEF RatesInv, BalanceInv
<1>5. BalanceInv'
  <2>1. ASSUME NEW n \in Series
        PROVE  db'.reported[n] + Gain(Before(db', n), Level(counter', n)) <= Real(traffic', n)
    <3>1. db.reported[n] + Gain(Before(db, n), Level(counter, n)) <= Real(traffic, n)
      BY DEF RatesInv, BalanceInv
    <3> QED BY <1>3, <3>1, RateTypes
  <2> QED BY <1>1, <1>4, <2>1 DEF BalanceInv
<1>6. SpeedInv'
  BY <1>1, <1>3 DEF RatesInv, SpeedInv
<1> QED
  BY <1>1, <1>2, <1>5, <1>6 DEF RatesInv

(* The counters are read, now or in the step before. *)
LEMMA CaptureKeeps ==
    ASSUME RatesInv, HostInv', UNCHANGED <<mono, boot, counter, traffic, db>>,
           pc' \in {"capture_services", "transact"}, pc' = "transact" => cy'.stamp = mono,
           \/ cy'.read = mono /\ (cy'.samples = None \/ cy'.samples = counter)
           \/ pc \in {"capture_services", "transact"} /\ cy'.read = cy.read
              /\ cy'.samples = cy.samples
    PROVE  RatesInv'
<1>1. mono \in Nat /\ counter \in Reading
  BY DEF RatesInv, HostInv
<1>2. cy'.read \in 0..mono /\ (cy'.samples # None => cy'.samples \in Reading)
  BY <1>1 DEF RatesInv, SampleInv
<1>3. SampleInv'
  <2>1. cy'.read \in Nat /\ cy'.read <= mono
    BY <1>1, <1>2
  <2> QED BY <1>1, <1>2, <2>1 DEF RatesInv, SampleInv
<1>4. HasRead' <=> cy'.samples # None
  BY DEF HasRead
<1>5. ASSUME NEW n \in Series, cy'.samples # None
      PROVE  /\ db.reported[n] + Gain(Before(db, n), Level(cy'.samples, n))
                + Gain(Level(cy'.samples, n), Level(counter, n)) <= Real(traffic, n)
             /\ Gain(Level(cy'.samples, n), Level(counter, n)) <= Most(n, mono - cy'.read)
             /\ db.prev # None /\ db.prev.boot = boot =>
                   Gain(Before(db, n), Level(cy'.samples, n)) <= Most(n, cy'.read - ReadAt(db.prev))
  <2>1. CASE cy'.read = mono /\ cy'.samples = counter
    <3>1. Gain(Level(counter, n), Level(counter, n)) = 0
      BY RateTypes, NoneAssumption DEF Gain
    <3>2. mono - mono = 0
      BY <1>1
    <3>3. Most(n, mono - mono) = 0
      BY <3>2 DEF Most
    <3>4. /\ db.reported[n] + Gain(Before(db, n), Level(counter, n)) <= Real(traffic, n)
          /\ db.prev # None /\ db.prev.boot = boot =>
                Gain(Before(db, n), Level(counter, n)) <= Most(n, mono - ReadAt(db.prev))
      BY DEF RatesInv, BalanceInv, SpeedInv
    <3> QED BY <2>1, <3>1, <3>3, <3>4, RateTypes
  <2>2. CASE HasRead /\ cy'.read = cy.read /\ cy'.samples = cy.samples
    BY <2>2 DEF RatesInv, BalanceInv, SpeedInv
  <2> QED BY <1>5, <2>1, <2>2 DEF HasRead
<1>6. BalanceInv'
  BY <1>4, <1>5 DEF RatesInv, BalanceInv
<1>7. SpeedInv'
  BY <1>4, <1>5 DEF RatesInv, SpeedInv
<1> QED
  BY <1>3, <1>6, <1>7 DEF RatesInv

(* The samples of the cycle are saved, its rates stored or lost. *)
LEMMA StoreKeeps ==
    ASSUME RatesInv, HostInv', UNCHANGED <<mono, boot, counter, traffic>>,
           pc = "transact", cy.samples # None, pc' \notin {"capture_services", "transact"},
           Typed(db'), db'.prev = SaveSamples(cy),
           NEW z, z.prev = db.prev, z.reported = db.reported,
           db'.rate = [n \in Series |-> None] \/ db'.rate = RateOf(z, cy),
           \/ db'.reported = db.reported \/ db'.reported = [n \in Series |-> 0]
           \/ db'.reported = ReportedOf(z, cy)
    PROVE  RatesInv'
<1>1. ~HasRead' /\ Typed(db)' /\ HasRead
  BY DEF HasRead
<1>2. /\ mono \in Nat /\ cy.read \in Nat /\ cy.stamp \in Nat /\ cy.read <= cy.stamp
      /\ cy.stamp <= mono /\ boot \in Nat /\ cy.samples \in Reading
      /\ db.prev # None =>
            /\ db.prev.samples \in Reading /\ db.prev.mono \in Nat /\ db.prev.slack \in Nat
            /\ db.prev.boot \in Nat /\ db.prev.boot <= boot
  BY DEF RatesInv, HostInv, SampleInv
<1>3. /\ db'.prev.samples = cy.samples /\ db'.prev.mono = cy.stamp
      /\ db'.prev.slack = cy.stamp - cy.read /\ db'.prev.boot = boot
  BY DEF SaveSamples
<1>4. SampleInv'
  <2>1. cy.stamp - cy.read \in 0..cy.stamp
    BY <1>2
  <2> QED BY <1>2, <1>3, <2>1 DEF SampleInv
<1>5. ReadAt(db'.prev) = cy.read
  BY <1>2, <1>3 DEF ReadAt
<1>6. ASSUME NEW n \in Series
      PROVE  /\ db'.reported[n] \in Nat
             /\ db'.reported[n] <= db.reported[n] + Gain(Before(db, n), Level(cy.samples, n))
             /\ Gain(Before(db', n), Level(counter, n)) \in Nat
             /\ Gain(Before(db', n), Level(counter, n))
                   <= Gain(Level(cy.samples, n), Level(counter, n))
             /\ LET r == db'.rate[n]
                IN  r # None /\ r.delta # None =>
                       /\ r.boot \in Nat /\ r.boot <= boot
                       /\ r.boot = boot => r.delta <= Most(n, r.elapsed + r.slack)
  <2>1. PICK rep \in Nat, g \in Nat, h \in Nat :
           /\ rep = db.reported[n] /\ g = Gain(Before(db, n), Level(cy.samples, n))
           /\ h = Gain(Level(cy.samples, n), Level(counter, n))
    BY <1>1, RateTypes
  <2>2. /\ Gain(Before(db', n), Level(counter, n)) \in Nat
        /\ Gain(Before(db', n), Level(counter, n)) <= h
    <3>1. Before(db', n) = None \/ Before(db', n) = Level(cy.samples, n)
      BY <1>3 DEF Before
    <3>2. Gain(None, Level(counter, n)) = 0
      BY DEF Gain
    <3> QED BY <2>1, <3>1, <3>2
  <2>3. PICK x : x = Result(z, cy)[n].delta
    OBVIOUS
  <2>4. x # None => db.prev # None /\ x \in Nat /\ x <= g
    <3> HAVE x # None
    <3>1. /\ z.prev # None /\ Result(z, cy)[n].delta \in Nat
          /\ Result(z, cy)[n].delta <= Gain(Before(z, n), Level(cy.samples, n))
      BY <1>2, <2>3, ResultGain
    <3>2. Before(z, n) = Before(db, n)
      BY DEF Before
    <3> QED BY <2>1, <2>3, <3>1, <3>2
  <2>5. db'.reported[n] \in Nat /\ db'.reported[n] <= rep + g
    <3>1. CASE db'.reported = db.reported \/ db'.reported = [i \in Series |-> 0]
      BY <2>1, <3>1
    <3>2. CASE db'.reported = ReportedOf(z, cy)
      <4>1. db'.reported[n] = rep + (IF x = None THEN 0 ELSE x)
        BY <2>1, <2>3, <3>2 DEF ReportedOf
      <4> QED BY <2>1, <2>4, <4>1
    <3> QED BY <3>1, <3>2
  <2>6. ASSUME db'.rate = RateOf(z, cy), x # None
        PROVE  LET r == db'.rate[n]
               IN  /\ r.delta = x /\ r.boot \in Nat /\ r.boot <= boot
                   /\ r.boot = boot => r.delta <= Most(n, r.elapsed + r.slack)
    <3>1. db.prev # None /\ x \in Nat /\ x <= g
      BY <2>4, <2>6
    <3>2. PICK r : r = db'.rate[n]
      OBVIOUS
    <3>3. /\ r.delta = x /\ r.elapsed = cy.stamp - db.prev.mono /\ r.slack = db.prev.slack
          /\ r.boot = db.prev.boot
      BY <2>3, <2>6, <3>1, <3>2 DEF RateOf, Elapsed
    <3>4. ASSUME r.boot = boot PROVE x <= Most(n, r.elapsed + r.slack)
      <4>1. g <= Most(n, cy.read - ReadAt(db.prev))
        BY <1>1, <2>1, <3>1, <3>3, <3>4 DEF RatesInv, SpeedInv
      <4>2. PICK a \in Nat, b \in Nat, s \in Nat, e \in Nat :
               /\ a = db.prev.mono /\ b = db.prev.slack /\ s = cy.stamp /\ e = cy.read /\ e <= s
        BY <1>2, <3>1
      <4>3. g <= Most(n, e - (a - b)) /\ r.elapsed + r.slack = (s - a) + b
        BY <3>3, <4>1, <4>2 DEF ReadAt
      <4>4. x <= Most(n, (s - a) + b)
        BY <3>1, <4>2, <4>3 DEF Most
      <4> QED BY <4>3, <4>4
    <3> QED BY <1>2, <3>1, <3>2, <3>3, <3>4
  <2>7. db'.rate = RateOf(z, cy) => db'.rate[n].delta = x
    BY <2>3 DEF RateOf
  <2> QED BY <2>1, <2>2, <2>5, <2>6, <2>7
<1>7. db'.reported \in [Series -> Nat]
  <2>1. db'.reported = [n \in Series |-> db'.reported[n]]
    BY DEF RatesInv, BalanceInv, ReportedOf
  <2> QED BY <1>6, <2>1
<1>8. BalanceInv'
  <2>1. ASSUME NEW n \in Series
        PROVE  db'.reported[n] + Gain(Before(db', n), Level(counter', n)) <= Real(traffic', n)
    <3>1. db.reported[n] + Gain(Before(db, n), Level(cy.samples, n))
             + Gain(Level(cy.samples, n), Level(counter, n)) <= Real(traffic, n)
      BY <1>1 DEF RatesInv, BalanceInv
    <3>2. PICK rep \in Nat, g \in Nat, h \in Nat, x \in Nat :
             /\ rep = db.reported[n] /\ g = Gain(Before(db, n), Level(cy.samples, n))
             /\ h = Gain(Level(cy.samples, n), Level(counter, n)) /\ x = Real(traffic, n)
      BY <1>1, RateTypes
    <3> QED BY <1>6, <3>1, <3>2
  <2> QED BY <1>1, <1>7, <2>1 DEF BalanceInv
<1>9. SpeedInv'
  <2>1. ASSUME NEW n \in Series
        PROVE  Gain(Before(db', n), Level(counter, n)) <= Most(n, mono - ReadAt(db'.prev))
    <3>1. Gain(Level(cy.samples, n), Level(counter, n)) <= Most(n, mono - cy.read)
      BY <1>1 DEF RatesInv, SpeedInv
    <3>2. PICK h \in Nat, m \in Int :
             h = Gain(Level(cy.samples, n), Level(counter, n)) /\ m = Most(n, mono - cy.read)
      BY <1>1, <1>2, RateTypes DEF Most
    <3> QED BY <1>5, <1>6, <3>1, <3>2
  <2> QED BY <1>1, <1>6, <2>1 DEF SpeedInv
<1> QED
  BY <1>1, <1>4, <1>8, <1>9 DEF RatesInv

-----------------------------------------------------------------------------
(* Every step keeps the rates *)

(* What is kept of the database, types and counters. *)
LEMMA SliceCounts ==
    ASSUME NEW d, Typed(d)
    PROVE  /\ Typed(Slice(d)) /\ Slice(d).prev = d.prev
           /\ Slice(d).rate = d.rate \/ Slice(d).rate = [n \in Series |-> None]
           /\ Slice(d).reported = d.reported \/ Slice(d).reported = [n \in Series |-> 0]
<1> DEFINE e == Slice(d)
<1>1. /\ DOMAIN EmptyDb = DbFields
      /\ EmptyDb.rate = [n \in Series |-> None] /\ EmptyDb.reported = [n \in Series |-> 0]
      /\ EmptyDb.state = [k \in Keys |-> None] /\ EmptyDb.pt = [p \in Points |-> None]
      /\ EmptyDb.dropped = {} /\ Shape(EmptyDb)
  BY EmptyDbFacts DEF EmptyDb, DbFields
<1>2. CASE kind = "service"
  <2>1. e = [d EXCEPT !.rate = EmptyDb.rate, !.reported = EmptyDb.reported]
    BY <1>2 DEF Slice
  <2> HIDE DEF e
  <2>2. /\ DOMAIN e = DbFields /\ e.rate = EmptyDb.rate /\ e.reported = EmptyDb.reported
        /\ \A f \in DbFields \ {"rate", "reported"} : e[f] = d[f]
    BY <2>1 DEF Typed, Shape, DbFields
  <2>3. /\ e.state = d.state /\ e.told = d.told /\ e.dropped = d.dropped /\ e.cache = d.cache
        /\ e.pt = d.pt /\ e.attempt = d.attempt /\ e.prev = d.prev
    BY <2>2 DEF DbFields
  <2>4. Typed(e)
    BY <2>2, <2>3 DEF Typed, Shape
  <2> QED BY <1>1, <2>2, <2>3, <2>4 DEF e
<1>3. CASE kind # "service"
  <2>1. e = [EmptyDb EXCEPT !.prev = d.prev, !.rate = d.rate, !.reported = d.reported]
    BY <1>3 DEF Slice
  <2> HIDE DEF e
  <2>2. /\ DOMAIN e = DbFields /\ SameCounts(d, e)
        /\ \A f \in DbFields \ {"prev", "rate", "reported"} : e[f] = EmptyDb[f]
    BY <1>1, <2>1 DEF DbFields, SameCounts
  <2>3. /\ e.state = EmptyDb.state /\ e.told = EmptyDb.told /\ e.dropped = EmptyDb.dropped
        /\ e.cache = EmptyDb.cache /\ e.pt = EmptyDb.pt /\ e.attempt = EmptyDb.attempt
    BY <2>2 DEF DbFields
  <2>4. Typed(e)
    BY <1>1, <2>2, <2>3 DEF Typed, Shape, Graded
  <2> QED BY <2>2, <2>4 DEF SameCounts, e
<1> QED
  BY <1>2, <1>3

(* What fails in one step is counted. *)
LEMMA SpendType ==
    ASSUME HostInv, NEW bad, IsFiniteSet(bad), Spend(bad)
    PROVE  faults' \in 0..MaxFaults
<1>1. PICK k \in Nat : k = Cardinality(bad)
  BY FS_CardinalityType
<1>2. /\ faults \in Nat /\ MaxFaults \in Nat /\ faults + k <= MaxFaults /\ faults' = faults + k
  BY <1>1, CollectorAssumption DEF HostInv, Spend
<1> QED
  BY <1>2

(* Only finitely many things can fail. *)
LEMMA FailuresFinite ==
    /\ \A bad \in HostFailures : IsFiniteSet(bad)
    /\ \A bad \in ServiceFailures : IsFiniteSet(bad)
    /\ \A bad \in (IF kind = "service" THEN PartFailures ELSE {{}, {PartOf}}) : IsFiniteSet(bad)
<1>1. \A S, T : IsFiniteSet(S) /\ IsFiniteSet(T) => IsFiniteSet(S \cup T)
  BY FS_Union
<1>2. \A x : IsFiniteSet({x})
  BY FS_Singleton
<1>3. \A S, T : IsFiniteSet(S) /\ T \subseteq S => IsFiniteSet(T)
  BY FS_Subset
<1>4. \A a, b, c, d, e, f : IsFiniteSet({a, b, c, d, e, f})
  <2> TAKE a, b, c, d, e, f
  <2>1. {a, b, c, d, e, f} = ({a} \cup {b}) \cup (({c} \cup {d}) \cup ({e} \cup {f}))
    OBVIOUS
  <2>2. IsFiniteSet({a} \cup {b}) /\ IsFiniteSet({c} \cup {d}) /\ IsFiniteSet({e} \cup {f})
    BY <1>1, <1>2
  <2>3. IsFiniteSet(({c} \cup {d}) \cup ({e} \cup {f}))
    BY <1>1, <2>2
  <2>4. IsFiniteSet(({a} \cup {b}) \cup (({c} \cup {d}) \cup ({e} \cup {f})))
    BY <1>1, <2>2, <2>3
  <2> QED BY <2>1, <2>4
<1>5. IsFiniteSet(HostSources \cup {One("env")})
  <2>1. HostSources \cup {One("env")} = {One("counter"), One("env_directory"), One("conntrack"),
                                         One("ss_listeners"), One("ss_connections"), One("env")}
    BY DEF HostSources
  <2>2. IsFiniteSet({One("counter"), One("env_directory"), One("conntrack"),
                     One("ss_listeners"), One("ss_connections"), One("env")})
    BY <1>4, Zenon
  <2> QED BY <2>1, <2>2
<1>6. IsFiniteSet(ServiceSources)
  <2>1. IsFiniteSet(1..MaxStarts)
    BY FS_Interval, CollectorAssumption
  <2>2. {"process_fast", "process_slow"} = {"process_fast"} \cup {"process_slow"}
    OBVIOUS
  <2>3. IsFiniteSet({"process_fast", "process_slow"})
    <3>1. IsFiniteSet({"process_fast"} \cup {"process_slow"})
      BY <1>1, <1>2, Zenon
    <3> QED BY <2>2, <3>1
  <2>4. IsFiniteSet({"process_fast", "process_slow"} \X (1..MaxStarts))
    BY <2>1, <2>3, FS_Product
  <2>5. {One("systemd"), One("cgroup_pids"), One("cgroup_memory")}
           = {One("systemd")} \cup ({One("cgroup_pids")} \cup {One("cgroup_memory")})
    OBVIOUS
  <2> QED BY <1>1, <1>2, <2>4, <2>5 DEF ServiceSources
<1>7. IsFiniteSet(MayFail)
  <2>1. MayFail \subseteq {One("host_metrics"), One("storage_metrics"), One("service_processing"),
                           One("tunnel_processing"), One("filesystem"), One("retention")}
    BY DEF MayFail, Parts, Processing
  <2>2. IsFiniteSet({One("host_metrics"), One("storage_metrics"), One("service_processing"),
                     One("tunnel_processing"), One("filesystem"), One("retention")})
    BY <1>4, Zenon
  <2> QED BY <1>3, <2>1, <2>2
<1>8. IsFiniteSet({})
  BY FS_EmptySet
<1> QED
  BY <1>2, <1>3, <1>5, <1>6, <1>7, <1>8 DEF HostFailures, ServiceFailures, PartFailures

(* A step of the daemon leaves the host alone. *)
LEMMA DaemonHost ==
    ASSUME HostInv, UNCHANGED <<now, mono, boot, host>>, faults' \in 0..MaxFaults,
           pc' \in Unfinished \cup {"down", "idle", "failing", "checkpoint", "overrun"}
    PROVE  HostInv' /\ UNCHANGED <<mono, boot, counter, traffic>>
BY DEF HostInv, host

(* One more failure within the bound. *)
LEMMA OneFault ==
    ASSUME HostInv, faults' = faults \/ (faults < MaxFaults /\ faults' = faults + 1)
    PROVE  faults' \in 0..MaxFaults
BY CollectorAssumption DEF HostInv

(* The steps of the host. *)
LEMMA HostRates ==
    ASSUME RatesInv, Tick \/ ServiceStop \/ ServiceStart \/ Remove \/ Create \/ UNCHANGED vars
    PROVE  RatesInv'
<1>1. HostInv
  BY DEF RatesInv
<1>2. CASE Tick
  BY <1>1, <1>2, TickMoves, MoveKeeps
<1>3. CASE ~Tick
  <2>1. /\ UNCHANGED <<pc, cy, db, boot, mono, traffic, now, faults>>
        /\ starts' = starts \/ starts' = starts + 1
        /\ \/ counter' = counter \/ counter' = [counter EXCEPT ![1] = None]
           \/ counter' = [counter EXCEPT ![1] = [id |-> starts + 1, n |-> 0, idle |-> 0]]
    BY <1>3 DEF ServiceStop, ServiceStart, Remove, Create, vars, host, daemon
  <2>2. counter \in Reading /\ starts \in Nat /\ 1 \in Names
    BY <1>1 DEF HostInv, Names
  <2>3. PICK x : x = [id |-> starts + 1, n |-> 0, idle |-> 0]
    OBVIOUS
  <2>4. x \in Sample /\ x.n = 0
    BY <2>2, <2>3 DEF Sample
  <2>5. /\ counter' \in Reading
        /\ \A i \in Names : counter'[i] = counter[i] \/ counter'[i] = None \/ counter'[i].n = 0
    BY <2>1, <2>2, <2>3, <2>4 DEF Reading
  <2>6. HostMove
    BY <1>1, <2>1, <2>5, DropMoves
  <2>7. HostInv'
    BY <1>1, <2>1, <2>2, <2>5 DEF HostInv
  <2> QED BY <2>6, <2>7, MoveKeeps
<1> QED
  BY <1>2, <1>3

(* A reboot: every counter starts again, and the boot is another one. *)
LEMMA RebootRates ==
    ASSUME RatesInv, Reboot
    PROVE  RatesInv'
<1>1. HostInv
  BY DEF RatesInv
<1>2. /\ faults < MaxFaults /\ faults' = faults + 1 /\ boot' = boot + 1 /\ mono' = 0
      /\ starts' = starts + 1 /\ pc' = "down" /\ UNCHANGED <<now, traffic, db>>
      /\ counter' = [n \in Names |-> IF counter[n] = None THEN None
                     ELSE [id |-> IF kind = "process" THEN starts + 1 ELSE counter[n].id,
                           n |-> 0, idle |-> 0]]
  BY DEF Reboot
<1>3. counter \in Reading /\ starts \in Nat /\ boot \in Nat /\ now \in Nat /\ Names = {1, 2}
  BY <1>1, CollectorAssumption DEF HostInv, Names
<1>4. ASSUME NEW i \in Names
      PROVE  counter'[i] \in {None} \cup Sample /\ Amount(counter'[i]) = 0
             /\ (counter'[i] # None => counter'[i].n = 0)
  <2>1. CASE counter[i] = None
    BY <1>2, <2>1 DEF Amount
  <2>2. CASE counter[i] # None
    <3>1. counter[i].id \in Nat
      BY <1>3, <2>2 DEF Reading, Sample
    <3>2. PICK y \in Nat : y = IF kind = "process" THEN starts + 1 ELSE counter[i].id
      BY <1>3, <3>1
    <3>3. counter'[i] = [id |-> y, n |-> 0, idle |-> 0]
      BY <1>2, <2>2, <3>2
    <3> QED BY <3>3 DEF Sample, Amount
  <2> QED BY <2>1, <2>2
<1>5. counter' \in Reading
  <2>1. counter' = [i \in Names |-> counter'[i]]
    BY <1>2
  <2> QED BY <1>4, <2>1 DEF Reading
<1>6. HostInv'
  <2>1. faults' \in 0..MaxFaults
    BY <1>1, <1>2, OneFault
  <2>2. mono' \in 0..now' /\ now' \in 0..MaxTime /\ boot' \in Nat /\ starts' \in Nat
    BY <1>1, <1>2, <1>3 DEF HostInv
  <2> QED BY <1>1, <1>2, <1>5, <2>1, <2>2 DEF HostInv
<1>7. ASSUME NEW n \in Series PROVE Gain(Before(db, n), Level(counter', n)) = 0
  <2>1. Level(counter', n) = None \/ Level(counter', n) = 0
    <3>1. CASE n \in Names
      BY <1>4, <1>5, <3>1, LevelOfName
    <3>2. CASE n = Total
      BY <1>3, <1>4, <3>2, LevelOfTotal
    <3> QED BY <3>1, <3>2 DEF Series
  <2> QED BY <2>1, RateTypes, NoneAssumption DEF Gain
<1>8. ~HasRead'
  BY <1>2 DEF HasRead
<1>9. SampleInv'
  BY <1>2, <1>3 DEF RatesInv, SampleInv
<1>10. BalanceInv'
  <2>1. ASSUME NEW n \in Series PROVE db.reported[n] + 0 <= Real(traffic, n)
    <3>1. db.reported[n] + Gain(Before(db, n), Level(counter, n)) <= Real(traffic, n)
      BY DEF RatesInv, BalanceInv
    <3> QED BY <3>1, RateTypes
  <2> QED BY <1>2, <1>7, <1>8, <2>1 DEF RatesInv, BalanceInv
<1>11. SpeedInv'
  <2>1. db.prev # None => db.prev.boot # boot'
    BY <1>2, <1>3 DEF RatesInv, SampleInv
  <2>2. ASSUME NEW n \in Series, db.rate[n] # None, db.rate[n].delta # None
        PROVE  db.rate[n].boot \in Nat /\ db.rate[n].boot <= boot' /\ db.rate[n].boot # boot'
    <3>1. db.rate[n].boot \in Nat /\ db.rate[n].boot <= boot
      BY <2>2 DEF RatesInv, SpeedInv
    <3> QED BY <1>2, <1>3, <3>1
  <2> QED BY <1>2, <1>8, <2>1, <2>2 DEF SpeedInv
<1> QED
  BY <1>2, <1>6, <1>9, <1>10, <1>11 DEF RatesInv

(* A step of the daemon that writes no counters. *)
LEMMA QuietRates ==
    ASSUME RatesInv, UNCHANGED <<now, mono, boot, host>>,
           faults' = faults \/ (faults < MaxFaults /\ faults' = faults + 1),
           pc' \in {"capture_host", "down", "idle", "failing", "checkpoint", "overrun"},
           NEW d, Aside(db, d), db' = db \/ db' = d \/ db' = Slice(d)
    PROVE  RatesInv'
<1>1. HostInv /\ Typed(db)
  BY DEF RatesInv
<1>2. faults' \in 0..MaxFaults
  BY <1>1, OneFault
<1>3. HostInv' /\ UNCHANGED <<mono, boot, counter, traffic>>
  BY <1>1, <1>2, DaemonHost DEF Unfinished
<1>4. /\ Typed(db') /\ db'.prev = db.prev
      /\ db'.rate = db.rate \/ db'.rate = [n \in Series |-> None]
      /\ db'.reported = db.reported \/ db'.reported = [n \in Series |-> 0]
  BY <1>1, SliceCounts DEF Aside, SameCounts
<1>5. pc' \notin {"capture_services", "transact"}
  OBVIOUS
<1> QED
  BY <1>3, <1>4, <1>5, AsideKeeps

(* Its start, its end, and the head of a cycle. *)
LEMMA LightRates ==
    ASSUME RatesInv, Start \/ Crash \/ TransactFails \/ Begin
    PROVE  RatesInv'
<1>1. Typed(db) /\ Aside(db, db)
  BY AsideChain DEF RatesInv
<1>2. CASE Start \/ Crash \/ TransactFails
  <2>1. /\ UNCHANGED <<now, mono, boot, host, db>>
        /\ faults' = faults \/ (faults < MaxFaults /\ faults' = faults + 1)
        /\ pc' \in {"capture_host", "down", "idle", "failing", "checkpoint", "overrun"}
    BY <1>2 DEF Start, Crash, TransactFails
  <2> QED BY <1>1, <2>1, QuietRates
<1>3. CASE Begin
  <2>1. /\ UNCHANGED <<now, mono, boot, host, faults>> /\ pc' = "capture_host"
    BY <1>3 DEF Begin
  <2>2. PICK a : db' = Slice([db EXCEPT !.attempt = a]) /\ DOMAIN a = {"sockets", "slow"}
    <3> DEFINE due == [c \in DOMAIN Cadences |-> Due(db.attempt[c], now, Cadences[c])]
               x == [c \in DOMAIN Cadences |-> IF due[c] THEN now ELSE db.attempt[c]]
    <3>1. db' = Slice([db EXCEPT !.attempt = x])
      BY <1>3, Zenon DEF Begin
    <3>2. DOMAIN x = {"sockets", "slow"}
      BY DEF Cadences
    <3> QED BY <3>1, <3>2
  <2>3. PICK d : d = [db EXCEPT !.attempt = a]
    OBVIOUS
  <2>4. DOMAIN d = DbFields /\ \A f \in DbFields \ {"attempt"} : d[f] = db[f]
    BY <1>1, <2>3 DEF Typed, Shape, DbFields
  <2>5. /\ d.state = db.state /\ d.told = db.told /\ d.dropped = db.dropped /\ d.cache = db.cache
        /\ d.pt = db.pt /\ d.attempt = a /\ SameCounts(db, d)
    BY <1>1, <2>3, <2>4 DEF DbFields, SameCounts, Typed, Shape
  <2>6. Aside(db, d)
    BY <1>1, <2>2, <2>4, <2>5 DEF Aside, Typed, Shape
  <2> QED BY <2>1, <2>2, <2>3, <2>6, QuietRates
<1> QED
  BY <1>2, <1>3

(* What is recorded outside of the transaction. *)
LEMMA RecordRates ==
    ASSUME RatesInv, RecordFailure \/ Checkpoint \/ RecordOverrun
    PROVE  RatesInv'
<1>1. Typed(db) /\ Aside(db, db)
  BY AsideChain DEF RatesInv
<1>2. /\ One("collection") \in Keys /\ One("overrun") \in Keys
      /\ {"failed", "active", "inactive"} \subseteq Values
  BY DEF Keys, Families, Values
<1>3. CASE RecordFailure
  <2>1. PICK told : /\ told = Keep(db, One("collection"), "failed",
                                   Failed(db.state[One("collection")], "collection_failed"), cy.ts)
                    /\ db' = Slice(CycleRow(told, cy.ts, FALSE)) \/ db' = db
    BY <1>3 DEF RecordFailure
  <2>2. Aside(db, told)
    BY <1>1, <1>2, <2>1, KeepAside
  <2>3. Aside(told, CycleRow(told, cy.ts, FALSE))
    BY <2>2, RowsAside DEF Aside
  <2>4. PICK d : d = CycleRow(told, cy.ts, FALSE) /\ Aside(db, d)
    BY <2>2, <2>3, AsideChain
  <2>5. UNCHANGED <<now, mono, boot, host, faults>> /\ pc' = "overrun"
    BY <1>3 DEF RecordFailure
  <2> QED BY <2>1, <2>4, <2>5, QuietRates
<1>4. CASE Checkpoint
  <2>1. PICK d : Aside(db, d) /\ (db' = d \/ db' = db)
    <3>1. /\ Aside(db, CheckpointResult(db, TRUE, cy.ts))
          /\ Aside(db, CheckpointResult(db, FALSE, cy.ts))
      BY <1>1, OwnStatesAside
    <3> QED BY <1>1, <1>4, <3>1 DEF Checkpoint
  <2>2. /\ UNCHANGED <<now, mono, boot, host>> /\ pc' = "overrun"
        /\ faults' = faults \/ (faults < MaxFaults /\ faults' = faults + 1)
    BY <1>4 DEF Checkpoint
  <2> QED BY <2>1, <2>2, QuietRates
<1>5. CASE RecordOverrun
  <2>1. PICK level, code :
           /\ level \in {"active", "inactive"}
           /\ db' = Slice(Keep(db, One("overrun"), level, code, cy.ts)) \/ db' = db
    BY <1>5 DEF RecordOverrun
  <2>2. PICK d : d = Keep(db, One("overrun"), level, code, cy.ts) /\ Aside(db, d)
    BY <1>1, <1>2, <2>1, KeepAside
  <2>3. /\ UNCHANGED <<now, mono, boot, host>> /\ pc' = "idle"
        /\ faults' = faults \/ (faults < MaxFaults /\ faults' = faults + 1)
    BY <1>5 DEF RecordOverrun
  <2> QED BY <2>1, <2>2, <2>3, QuietRates
<1> QED
  BY <1>3, <1>4, <1>5

(* The two readings. *)
LEMMA CaptureRates ==
    ASSUME RatesInv, CaptureHost \/ CaptureServices
    PROVE  RatesInv'
<1>1. HostInv
  BY DEF RatesInv
<1>2. CASE CaptureHost
  <2>1. PICK bad \in HostFailures :
           /\ Spend(bad) /\ cy'.read = mono /\ (cy'.samples = None \/ cy'.samples = counter)
    BY <1>2 DEF CaptureHost
  <2>2. /\ UNCHANGED <<now, mono, boot, host, db>> /\ pc' = "capture_services"
    BY <1>2 DEF CaptureHost
  <2>3. faults' \in 0..MaxFaults
    BY <1>1, <2>1, FailuresFinite, SpendType
  <2>4. HostInv' /\ UNCHANGED <<mono, boot, counter, traffic>>
    BY <1>1, <2>2, <2>3, DaemonHost DEF Unfinished
  <2> QED BY <2>1, <2>2, <2>4, CaptureKeeps
<1>3. CASE CaptureServices
  <2>1. PICK bad \in ServiceFailures :
           /\ Spend(bad) /\ cy'.stamp = mono
           /\ \/ cy'.read = mono /\ (cy'.samples = None \/ cy'.samples = counter)
              \/ cy'.read = cy.read /\ cy'.samples = cy.samples
    BY <1>3 DEF CaptureServices
  <2>2. /\ UNCHANGED <<now, mono, boot, host, db>> /\ pc' = "transact" /\ pc = "capture_services"
    BY <1>3 DEF CaptureServices
  <2>3. faults' \in 0..MaxFaults
    BY <1>1, <2>1, FailuresFinite, SpendType
  <2>4. HostInv' /\ UNCHANGED <<mono, boot, counter, traffic>>
    BY <1>1, <2>2, <2>3, DaemonHost DEF Unfinished
  <2> QED BY <2>1, <2>2, <2>4, CaptureKeeps
<1> QED
  BY <1>2, <1>3

(* The transaction. *)
LEMMA TransactRates ==
    ASSUME IInv, RatesInv, Transact
    PROVE  RatesInv'
<1>1. HostInv /\ Typed(db) /\ pc = "transact" /\ OutOK(cy.out)
  BY DEF RatesInv, IInv, CycleInv, Transact
<1>2. PICK bad \in (IF kind = "service" THEN PartFailures ELSE {{}, {PartOf}}), late \in BOOLEAN :
         Spend(bad) /\ db' = Slice(CycleResult(db, cy, bad, late))
  BY DEF Transact
<1>3. /\ UNCHANGED <<now, mono, boot, host>> /\ pc' \in {"checkpoint", "overrun"}
  BY DEF Transact
<1>4. faults' \in 0..MaxFaults
  BY <1>1, <1>2, FailuresFinite, SpendType
<1>5. HostInv' /\ UNCHANGED <<mono, boot, counter, traffic>>
  BY <1>1, <1>3, <1>4, DaemonHost
<1>6. PICK z, r : /\ z = [db EXCEPT !.rate = [n \in Series |-> None]]
                  /\ r = CycleResult(db, cy, bad, late)
                  /\ Typed(r) /\ (SameCounts(z, r) \/ Counted(z, r, cy))
  BY <1>1, CycleCounts
<1>7. /\ z.prev = db.prev /\ z.reported = db.reported /\ z.rate = [n \in Series |-> None]
  <2>1. /\ DOMAIN db = DbFields
    BY <1>1 DEF Typed, Shape
  <2> QED BY <1>6, <2>1 DEF DbFields
<1>8. /\ Typed(db') /\ db'.prev = r.prev
      /\ db'.rate = r.rate \/ db'.rate = [n \in Series |-> None]
      /\ db'.reported = r.reported \/ db'.reported = [n \in Series |-> 0]
  BY <1>2, <1>6, SliceCounts
<1>9. CASE SameCounts(z, r)
  <2>1. /\ db'.prev = db.prev /\ db'.rate = [n \in Series |-> None]
        /\ db'.reported = db.reported \/ db'.reported = [n \in Series |-> 0]
    BY <1>7, <1>8, <1>9 DEF SameCounts
  <2> QED BY <1>3, <1>5, <1>8, <2>1, AsideKeeps
<1>10. CASE Counted(z, r, cy)
  <2>1. /\ cy.samples # None /\ db'.prev = SaveSamples(cy)
        /\ db'.rate = [n \in Series |-> None] \/ db'.rate = RateOf(z, cy)
        /\ \/ db'.reported = db.reported \/ db'.reported = [n \in Series |-> 0]
           \/ db'.reported = ReportedOf(z, cy)
    BY <1>7, <1>8, <1>10 DEF Counted
  <2> QED BY <1>1, <1>3, <1>5, <1>7, <1>8, <2>1, StoreKeeps
<1> QED
  BY <1>6, <1>9, <1>10

(* At first there is no rate, and nothing was reported. *)
LEMMA RatesInit == Init => RatesInv
<1> SUFFICES ASSUME Init PROVE RatesInv
  OBVIOUS
<1>1. /\ db = EmptyDb /\ db.prev = None /\ db.rate = [n \in Series |-> None]
      /\ db.reported = [n \in Series |-> 0] /\ db.dropped = {}
      /\ db.state = [k \in Keys |-> None] /\ db.pt = [p \in Points |-> None]
  BY DEF Init, EmptyDb
<1>2. Typed(db)
  BY <1>1, EmptyDbFacts DEF Typed, Graded
<1>3. HostInv /\ ~HasRead
  <2>1. counter \in Reading
    BY DEF Init, Reading, Sample
  <2>2. MaxTime \in Nat /\ MaxFaults \in Nat
    BY CollectorAssumption
  <2> QED BY <2>1, <2>2 DEF Init, HostInv, HasRead
<1>4. SampleInv
  BY <1>1 DEF Init, SampleInv
<1>5. ASSUME NEW n \in Series
      PROVE  db.reported[n] + Gain(Before(db, n), Level(counter, n)) <= Real(traffic, n)
  <2>1. Gain(Before(db, n), Level(counter, n)) = 0
    BY <1>1 DEF Before, Gain
  <2>2. Real(traffic, n) \in Nat
    BY <1>3, RealType DEF HostInv
  <2> QED BY <1>1, <2>1, <2>2
<1>6. BalanceInv
  BY <1>1, <1>3, <1>5 DEF BalanceInv
<1>7. SpeedInv
  BY <1>1, <1>3 DEF SpeedInv
<1> QED
  BY <1>2, <1>3, <1>4, <1>6, <1>7 DEF RatesInv

(* Every step keeps the rates. *)
LEMMA RatesNext == IInv /\ RatesInv /\ [Next]_vars => RatesInv'
BY Steps, HostRates, RebootRates, LightRates, RecordRates, CaptureRates, TransactRates

(* The rates are true (counter_delta, _elapsed, save_samples): types are kept;  *)
(* what all the deltas of a series stand for has really happened, and nothing   *)
(* twice, across devices that are replaced, restarts, reboots, lost cycles and  *)
(* crashes; and within one boot no rate exceeds what its interval allows.       *)
THEOREM RatesAlwaysTrue == Spec => []RatesTrue
<1>1. RatesInv => TypeOK
  BY DEF RatesInv, HostInv, Typed, Graded, TypeOK
<1>2. RatesInv => CountedOnce
  <2> SUFFICES ASSUME RatesInv PROVE CountedOnce
    OBVIOUS
  <2>1. ASSUME NEW n \in Series PROVE db.reported[n] <= Real(traffic, n)
    <3>1. db.reported[n] + Gain(Before(db, n), Level(counter, n)) <= Real(traffic, n)
      BY DEF RatesInv, BalanceInv
    <3> QED BY <3>1, RateTypes
  <2> QED BY <2>1 DEF CountedOnce, Real, Series, Total, Names
<1>3. RatesInv => RateBounded
  <2> SUFFICES ASSUME RatesInv,
                      NEW n \in Series, NEW r, r = db.rate[n],
                      r # None, r.delta # None, r.boot = boot
               PROVE  r.delta <= (r.elapsed + r.slack) * (IF n = Total THEN 2 ELSE 1)
    BY DEF RateBounded
  <2>1. r.delta <= Most(n, r.elapsed + r.slack)
    BY DEF RatesInv, SpeedInv
  <2> QED BY <2>1 DEF Most
<1>4. RatesInv => RatesTrue
  BY <1>1, <1>2, <1>3 DEF RatesTrue
<1> QED
  BY <1>4, RatesInit, RatesNext, CollectorInvariant, PTL DEF Spec
=============================================================================
