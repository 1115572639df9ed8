----------------------------- MODULE Collector -----------------------------
(***************************************************************************)
(* The monitoring collector (monitoring/collector.py, scheduler.py): the   *)
(* daemon, one cycle after the other; its two readings of the host, of     *)
(* which the second comes after the first has taken time; the transaction  *)
(* that stores points, counters, caches and events together; what is saved *)
(* outside of it (cadences, failures, checkpoint, overrun); and the host:  *)
(* kernel counters, one managed service with its tunnel, restarts, reboots.*)
(*                                                                         *)
(* Sources of one kind are independent of the others in the code, so a     *)
(* behaviour follows one of them, its "kind": the CPU, interfaces, disks,  *)
(* the TCP counters, the processes of the service, or, with the counters   *)
(* at rest, the service and its sources ("service").                       *)
(*                                                                         *)
(* Time is in sample intervals.  The wall clock is not set back here.      *)
(***************************************************************************)
EXTENDS Integers, FiniteSets, FiniteSetsExt

CONSTANTS None,
          Kinds,            \* the kinds of behaviours to follow
          SocketInterval,   \* tcp_snapshot_interval
          SlowInterval,     \* slow_sample_interval
          MaintInterval,    \* maintenance_interval
          MaxGap,           \* max_gap
          StaleAfter,       \* HealthPolicy.stale_after_seconds
          RecentEvents,     \* HealthPolicy.recent_event_seconds
          MaxTime,          \* bound: sample intervals
          MaxStarts,        \* bound: starts of the service, lives of a counter
          MaxFaults         \* bound: failures, crashes and reboots

ASSUME CollectorAssumption ==
    /\ Kinds \subseteq {"cpu", "interface", "disk", "tcp", "process", "service"}
    /\ {SocketInterval, SlowInterval, MaintInterval} \subseteq Nat \ {0}
    /\ {MaxGap, StaleAfter, RecentEvents, MaxTime, MaxStarts, MaxFaults} \subseteq Nat

\* The codes of events, and the values of collector_state.
Codes == {"metric_source_available", "metric_source_unavailable", "optional_source_available",
          "optional_source_unsupported", "collection_failed", "collection_recovered",
          "collection_overrun", "env_parse_error", "env_parse_recovered",
          "database_retention_failed", "database_retention_recovered", "wal_checkpoint",
          "wal_checkpoint_failed", "wal_checkpoint_recovered", "service_active",
          "service_inactive", "pid_replaced", "listener_returned", "listener_disappeared",
          "interface_added", "interface_removed", "counter_reset", "sampling_gap"}
Values == {"available", "failed", "unsupported", "ok", "active", "inactive", "missing",
           "known", "service_active", "service_inactive"}

ASSUME NoneAssumption ==
    /\ None \notin Codes /\ None \notin Values /\ None \notin [ts : Nat, code : Codes]
    /\ None \notin Nat /\ None \notin [id : Nat, n : Nat, idle : Nat]

INSTANCE EventState
INSTANCE Counters
INSTANCE Health

VARIABLES
    kind,
    now, mono,    \* the wall clock; the monotonic clock, from 0 at each boot
    counter,      \* [Names -> sample or None]: what the kernel would show
    traffic,      \* ghost: [Names -> Nat], what really happened
    proc,         \* the process of the service, 0 for none; starts so far
    starts,
    listening,
    served, out_of_service,   \* ghosts: when the service last served, and last did not
    boot,         \* ghost: boots so far
    pc, cy,       \* where the daemon is; the local variables of collect_once
    deadline, next_maint,
    missed,       \* ghost: [Caches -> the last due refresh has not happened]
    db,           \* the committed database
    faults

host == <<counter, traffic, proc, starts, listening, served, out_of_service>>
daemon == <<pc, cy, deadline, next_maint, missed, db>>
vars == <<kind, now, mono, host, boot, daemon, faults>>

Names == {1, 2}
Cadences == [sockets |-> SocketInterval, slow |-> SlowInterval]
Cadence == [sockets |-> "sockets", remote |-> "sockets", slow |-> "slow", memory |-> "slow"]
Caches == DOMAIN Cadence

-----------------------------------------------------------------------------
(* Keys of persisted states and events: <<name, number>> *)

One(name) == <<name, 0>>
HostSources == {One(s) : s \in {"counter", "env_directory", "conntrack",
                                "ss_listeners", "ss_connections"}}
Parts == {One(s) : s \in {"host_metrics", "storage_metrics", "network_metrics"}}
Processing == {One("service_processing"), One("tunnel_processing")}
ServiceSources == {One("systemd"), One("cgroup_pids"), One("cgroup_memory")}
                  \cup ({"process_fast", "process_slow"} \X (1..MaxStarts))
Sources == HostSources \cup Parts \cup Processing \cup ServiceSources \cup {One("filesystem")}
Edges == {"reset", "gap"} \X Names
Families == {One(f) : f \in {"collection", "retention", "checkpoint", "overrun",
                             "service", "pid", "listener", "env"}}
            \cup ({"interface"} \X Names)
Keys == Sources \cup Edges \cup Families
Points == {"cpu", "filesystem", "service_active", "process", "listener",
           "tunnel_active", "ownership"} \cup Caches
Total == 3
Series == Names \cup {Total}

\* The sources a failure of which is an alarm of the node: proc_stat, the root
\* filesystem, and every source with the name of a required service.
RequiredSources ==
    {One("counter"), One("filesystem")}
    \cup IF db.member THEN ServiceSources \cup {One("service_processing")} ELSE {}

\* of and at: the process an estimate was measured for, and when.
Point(ts, q, v) == [ts |-> ts, q |-> q, v |-> v, of |-> 0, at |-> 0]
Flag(b) == IF b THEN 1 ELSE 0

EmptyDb == [cycle    |-> None,                              \* the newest of sample_cycles
            member   |-> FALSE,                             \* tunnel in the last success
            seen     |-> 0,                                 \* its entities.updated_at
            state    |-> [k \in Keys |-> None],             \* collector_state
            pid      |-> None,                              \* service.pid_identity
            told     |-> [k \in Keys |-> None],             \* the newest event of the key
            dropped  |-> {},                                \* ghost: keys with a lost event
            attempt  |-> [c \in DOMAIN Cadences |-> None],
            cache    |-> [c \in Caches |-> None],
            prev     |-> None,                              \* counter.*
            pt       |-> [p \in Points |-> None],           \* the newest point of a series
            rate     |-> [n \in Series |-> None],           \* of the last cycle
            reported |-> [n \in Series |-> 0]]              \* ghost: sum of the deltas

\* What is kept of the database in a behaviour of this kind: the counters or the rest.
Slice(d) == IF kind = "service"
            THEN [d EXCEPT !.rate = EmptyDb.rate, !.reported = EmptyDb.reported]
            ELSE [EmptyDb EXCEPT !.prev = d.prev, !.rate = d.rate, !.reported = d.reported]

Idle == [ts |-> 0]

Init ==
    /\ kind \in Kinds
    /\ now = 0 /\ mono = 0 /\ boot = 1
    /\ counter = [n \in Names |-> IF n = 1 \/ kind = "interface"
                                  THEN [id |-> 1, n |-> 0, idle |-> 0] ELSE None]
    /\ traffic = [n \in Names |-> 0]
    /\ proc = 1 /\ starts = 1 /\ listening = TRUE /\ served = 0 /\ out_of_service = -1
    /\ pc = "idle" /\ cy = Idle
    /\ deadline = 0 /\ next_maint = 0
    /\ missed = [c \in Caches |-> FALSE]
    /\ db = EmptyDb
    /\ faults = 0

-----------------------------------------------------------------------------
(* The host *)

Counting == kind # "service"
Serving == kind \in {"service", "process"}

Observe == IF Serving /\ ~(proc' # 0 /\ listening')
           THEN out_of_service' = now' /\ UNCHANGED served
           ELSE served' = now' /\ UNCHANGED out_of_service

Steady(n) == /\ n = 2 \/ kind \in {"disk", "process"}
             /\ counter[n] # None /\ proc # 0

\* Where time and events of the host are let in: while the daemon is down or sleeps,
\* and between its two readings (the commands ss and systemctl, with their timeouts).
Between == pc \in {"down", "idle", "capture_services"}

\* A sample interval passes; the CPU is busy or idle, a counter moves or not, some
\* always move.  A daemon that sleeps wakes up for its deadline.
Tick ==
    /\ now < MaxTime /\ Between
    /\ pc = "idle" => mono < deadline
    /\ now' = now + 1 /\ mono' = mono + 1
    /\ \E moved \in SUBSET {n \in Names : counter[n] # None /\ Counting} :
          /\ proc = 0 => moved = {}
          /\ \A n \in Names : Steady(n) => n \in moved
          /\ counter' = [n \in Names |->
                IF counter[n] = None THEN None
                ELSE IF n \in moved THEN [counter[n] EXCEPT !.n = @ + 1]
                ELSE IF kind \in {"cpu", "service"} THEN [counter[n] EXCEPT !.idle = @ + 1]
                ELSE counter[n]]
          /\ traffic' = [n \in Names |-> traffic[n] + Flag(n \in moved)]
    /\ UNCHANGED <<kind, proc, starts, listening, boot, daemon, faults>>
    /\ Observe

\* The first interface or disk goes, and may come back under its name.
Remove ==
    /\ kind \in {"interface", "disk"} /\ Between /\ counter[1] # None
    /\ counter' = [counter EXCEPT ![1] = None]
    /\ UNCHANGED <<kind, now, mono, traffic, proc, starts, listening, served,
                   out_of_service, boot, daemon, faults>>

Create ==
    /\ Between /\ counter[1] = None /\ starts < MaxStarts
    /\ starts' = starts + 1
    /\ counter' = [counter EXCEPT ![1] = [id |-> starts + 1, n |-> 0, idle |-> 0]]
    /\ UNCHANGED <<kind, now, mono, traffic, proc, listening, served, out_of_service,
                   boot, daemon, faults>>

ServiceStop ==
    /\ Serving /\ Between /\ proc # 0
    /\ proc' = 0 /\ listening' = FALSE
    /\ UNCHANGED <<kind, now, mono, counter, traffic, starts, boot, daemon, faults>>
    /\ Observe

ServiceStart ==
    /\ Serving /\ Between /\ proc = 0 /\ starts < MaxStarts
    /\ proc' = starts + 1 /\ starts' = starts + 1
    /\ listening' \in IF kind = "service" THEN BOOLEAN ELSE {TRUE}
    /\ counter' = IF kind = "process"
                  THEN [counter EXCEPT ![1] = [id |-> starts + 1, n |-> 0, idle |-> 0]]
                  ELSE counter
    /\ UNCHANGED <<kind, now, mono, traffic, boot, daemon, faults>>
    /\ Observe

Unfinished == {"capture_host", "capture_services", "transact"}

\* The refreshes a cycle owes when it ends here.
Owed == [c \in Caches |-> missed[c] \/ (pc \in Unfinished /\ cy.due[Cadence[c]])]

\* Every counter starts again from zero, and so does the monotonic clock.
Reboot ==
    /\ Between /\ faults < MaxFaults /\ starts < MaxStarts
    /\ faults' = faults + 1 /\ boot' = boot + 1
    /\ mono' = 0 /\ starts' = starts + 1
    /\ counter' = [n \in Names |-> IF counter[n] = None THEN None
                     ELSE [id |-> IF kind = "process" THEN starts + 1 ELSE counter[n].id,
                           n |-> 0, idle |-> 0]]
    /\ proc' = starts + 1 /\ listening' = TRUE
    /\ pc' = "down" /\ cy' = Idle /\ missed' = Owed
    /\ deadline' = 0 /\ next_maint' = 0
    /\ served' = now /\ out_of_service' = now
    /\ UNCHANGED <<kind, now, traffic, db>>

-----------------------------------------------------------------------------
(* The daemon up to the transaction *)

\* run_daemon: the grid starts where the daemon starts.
Start ==
    /\ pc = "down"
    /\ pc' = "idle" /\ deadline' = mono /\ next_maint' = mono
    /\ UNCHANGED <<kind, now, mono, host, boot, cy, missed, db, faults>>

\* The daemon is stopped between two cycles, or dies anywhere.
Crash ==
    /\ pc # "down" /\ faults < MaxFaults
    /\ faults' = faults + 1
    /\ pc' = "down" /\ cy' = Idle /\ missed' = Owed
    /\ UNCHANGED <<kind, now, mono, host, boot, deadline, next_maint, db>>

\* _cadence_due
Due(last, ts, interval) == last = None \/ ts < last \/ ts - last >= interval

\* The head of collect_once: the cadences are decided and saved, and committed
\* before anything is read.
Begin ==
    /\ pc = "idle" /\ mono >= deadline
    /\ LET maint == mono >= next_maint /\ kind = "service"
           due == [c \in DOMAIN Cadences |-> Due(db.attempt[c], now, Cadences[c])]
       IN  /\ next_maint' = IF maint THEN mono + MaintInterval ELSE next_maint
           /\ db' = Slice([db EXCEPT !.attempt = [c \in DOMAIN Cadences |->
                                                     IF due[c] THEN now ELSE @[c]]])
           /\ cy' = [ts |-> now, due |-> due, maint |-> maint]
    /\ pc' = "capture_host"
    /\ UNCHANGED <<kind, now, mono, host, boot, deadline, missed, faults>>

\* What may fail together in one step, within the bound.
HostFailures == {bad \in SUBSET (HostSources \cup {One("env")}) : Cardinality(bad) <= MaxFaults}
ServiceFailures == {bad \in SUBSET ServiceSources : Cardinality(bad) <= MaxFaults}

Spend(bad) == /\ faults + Cardinality(bad) <= MaxFaults
              /\ faults' = faults + Cardinality(bad)

Outcome(looked, bad) == [s \in looked |-> IF s \in bad THEN "failed" ELSE "available"]

\* _capture_conntrack: failed, or not there on this kernel.
Conntrack(out, how) == [out EXCEPT ![One("conntrack")] = IF @ = "failed" THEN how ELSE @]

\* _capture_raw, first part: env files, /proc, ss.  An env file may be malformed.
CaptureHost ==
    /\ pc = "capture_host"
    /\ \E bad \in HostFailures :
       \E conntrack \in {"failed"} \cup IF One("conntrack") \in bad THEN {"unsupported"} ELSE {} :
          LET looked == IF cy.due["sockets"] THEN HostSources
                                             ELSE HostSources \ {One("ss_connections")}
              out == Outcome(looked, bad)
          IN  /\ bad \subseteq looked \cup {One("env")}
              /\ ~({One("env_directory"), One("env")} \subseteq bad)
              /\ kind # "service" => bad \subseteq {One("counter")}
              /\ Spend(bad)
              /\ cy' = [ts |-> cy.ts, due |-> cy.due, maint |-> cy.maint,
                        read |-> mono,
                        malformed |-> One("env") \in bad,
                        samples |-> IF One("counter") \in bad THEN None ELSE counter,
                        owner |-> IF listening THEN proc ELSE 0,
                        out |-> Conntrack(out, conntrack)]
    /\ pc' = "capture_services"
    /\ UNCHANGED <<kind, now, mono, host, boot, deadline, next_maint, missed, db>>

\* _capture_raw, second part: systemctl, the cgroup, the process.  Then the
\* monotonic clock is read for the rates.
CaptureServices ==
    /\ pc = "capture_services"
    /\ \E bad \in ServiceFailures :
          LET inside == IF proc = 0 THEN {}
                        ELSE {One("cgroup_pids"), <<"process_fast", proc>>}
                             \cup IF cy.due["slow"]
                                  THEN {<<"process_slow", proc>>, One("cgroup_memory")} ELSE {}
              looked == {One("systemd")} \cup IF One("systemd") \in bad THEN {} ELSE inside
              unseen == {One("systemd"), <<"process_fast", proc>>} \cap bad # {} \/ proc = 0
          IN  /\ bad \subseteq looked
              /\ ~Serving => bad = {}
              /\ kind = "process" => bad \subseteq {One("systemd"), <<"process_fast", proc>>}
              /\ Spend(bad)
              /\ cy' = [ts |-> cy.ts, due |-> cy.due, maint |-> cy.maint,
                        malformed |-> cy.malformed, owner |-> cy.owner,
                        out |-> [s \in DOMAIN cy.out \cup looked |->
                                   IF s \in looked THEN Outcome(looked, bad)[s] ELSE cy.out[s]],
                        pid |-> proc,
                        read |-> IF kind = "process" THEN mono ELSE cy.read,
                        samples |-> IF kind # "process" THEN cy.samples
                                    ELSE IF unseen THEN None ELSE counter,
                        stamp |-> mono]
    /\ pc' = "transact"
    /\ UNCHANGED <<kind, now, mono, host, boot, deadline, next_maint, missed, db>>

-----------------------------------------------------------------------------
(* The transaction: from the database d and the capture c to the next database *)

\* Save a value and insert its event, if there is one.
Keep(d, k, value, code, ts) ==
    [d EXCEPT !.state[k] = value,
              !.told[k] = IF code = None THEN @ ELSE [ts |-> ts, code |-> code],
              !.dropped = IF code = None THEN @ ELSE @ \ {k}]

Put(d, p, point) == [d EXCEPT !.pt[p] = point]

\* The metrics of counter n of this kind, from the two samples.
Metrics(n, current, previous, elapsed) ==
    CASE kind = "interface" -> InterfaceMetrics(current, previous, elapsed)
      [] kind = "disk"      -> DiskMetrics(current, previous, elapsed)
      [] kind = "tcp"       -> TcpCounterMetrics(current, previous, elapsed)
      [] kind = "process"   -> ServiceProcessMetrics(current, previous, elapsed)
      [] OTHER              -> CpuMetrics(current, previous, elapsed)

\* Mutant of Elapsed: the nominal interval.
ElapsedNominal(d, c) == IF d.prev = None THEN None ELSE 1

\* _timed_state: by the monotonic clock that was saved with the last sample.
Elapsed(d, c) == IF d.prev = None THEN None ELSE c.stamp - d.prev.mono

\* The sample of counter n that was saved, read back from its JSON.
PreviousSample(d, n) == IF d.prev = None THEN None ELSE d.prev.samples[n]

\* _save_timed_state
SaveSamples(c) == [mono |-> c.stamp, samples |-> c.samples,
                   slack |-> c.stamp - c.read, boot |-> boot]

\* The counters of the kind: rates, their edges, interface_added and _removed, and
\* the sample is saved for the next cycle.
CounterStep(d, c) ==
    LET elapsed == Elapsed(d, c)
        Previous(n) == PreviousSample(d, n)
        known == {n \in Names : c.samples[n] # None}
        result == [n \in Series |->
            IF n \in known THEN Metrics(n, c.samples[n], Previous(n), elapsed)
            ELSE IF n = Total /\ kind = "interface"
            THEN InterfaceMetrics(AggregateExternal(c.samples),
                                  IF \A i \in Names : Previous(i) = None THEN None
                                  ELSE AggregateExternal(d.prev.samples), elapsed)
            ELSE Unavailable]
        flagged == {k \in Edges : k[2] \in known /\ (k[1] = "gap" => kind # "process")}
        Flagged(k) == IF k[1] = "reset" THEN result[k[2]].reset ELSE result[k[2]].gap
        was == IF d.prev = None THEN None ELSE {n \in Names : Previous(n) # None}
        code == [k \in Keys |->
                   IF k \in flagged
                   THEN Edge(d.state[k], Flagged(k),
                             IF k[1] = "reset" THEN "counter_reset" ELSE "sampling_gap")
                   ELSE IF k[1] # "interface" \/ kind # "interface" THEN None
                   ELSE IF k[2] \in Added(was, known) THEN "interface_added"
                   ELSE IF k[2] \in Removed(was, known) THEN "interface_removed"
                   ELSE None]
    IN  [d EXCEPT
           !.rate = [n \in Series |-> [delta   |-> result[n].delta,
                                       elapsed |-> elapsed,
                                       slack   |-> IF d.prev = None THEN 0 ELSE d.prev.slack,
                                       boot    |-> IF d.prev = None THEN boot ELSE d.prev.boot]],
           !.reported = [n \in Series |-> @[n] + IF result[n].delta = None THEN 0
                                                 ELSE result[n].delta],
           !.state = [k \in Keys |-> IF k \notin flagged THEN @[k]
                                     ELSE IF Flagged(k) THEN "active" ELSE "inactive"],
           !.told = [k \in Keys |-> IF code[k] = None THEN @[k]
                                    ELSE [ts |-> c.ts, code |-> code[k]]],
           !.prev = SaveSamples(c)]

\* A part that collect_once calls in a try without a savepoint: when it raises late,
\* what it saved stays and its points and events are lost.
Guarded(d, e, part, bad, late) ==
    IF part \notin bad THEN e
    ELSE IF ~late THEN d
    ELSE [e EXCEPT !.told = d.told, !.pt = d.pt, !.rate = d.rate, !.reported = d.reported,
                   !.dropped = @ \cup {k \in Keys : e.told[k] # d.told[k]}]

\* Malformed env files and their events, at the head of the transaction.
EnvEvents(d, c) ==
    LET k == One("env")
        code == IF c.malformed /\ d.state[k] # "failed" THEN "env_parse_error"
                ELSE IF ~c.malformed /\ d.state[k] = "failed" THEN "env_parse_recovered"
                ELSE None
    IN  Keep([d EXCEPT !.rate = [n \in Series |-> None]],
             k, IF c.malformed THEN "failed" ELSE "ok", code, c.ts)

\* The percentages of the CPU, from the rates just taken.
CpuPoint(d, c) ==
    Put(d, "cpu", Point(c.ts, IF c.samples = None \/ d.rate[1].delta = None THEN "unavailable"
                              ELSE "derived", 0))

\* _host_metrics
HostMetrics(d, c) ==
    IF kind \notin {"cpu", "service"} THEN d
    ELSE CpuPoint(IF c.samples = None THEN d ELSE CounterStep(d, c), c)

\* The filesystem, at the slow cadence.
FilesystemMetrics(d, c, bad) ==
    LET k == One("filesystem")
        q == IF k \in bad THEN "failed" ELSE "available"
    IN  IF ~c.due["slow"] THEN d
        ELSE Put(Keep(d, k, q, Availability(d.state[k], q), c.ts), "filesystem",
                 Point(c.ts, IF k \in bad THEN "unavailable" ELSE "exact", 0))

DiskCounters(d, c) == IF kind = "disk" /\ c.samples # None THEN CounterStep(d, c) ELSE d

\* _storage_metrics
StorageMetrics(d, c, bad) == DiskCounters(FilesystemMetrics(d, c, bad), c)

\* _network_metrics: without TCP counters their flags are lowered.
NetworkMetrics(d, c) ==
    IF kind \in {"interface", "tcp"} /\ c.samples # None THEN CounterStep(d, c)
    ELSE IF kind = "tcp"
    THEN [d EXCEPT !.state = [k \in Keys |-> IF k \in {<<"reset", 1>>, <<"gap", 1>>}
                                             THEN "inactive" ELSE @[k]]]
    ELSE d

\* What the second reading established: a source answered; the processes are those of
\* the cgroup; every one of them could be read.
Available(c, s) == s \in DOMAIN c.out /\ c.out[s] = "available"
Authoritative(c) == c.pid # 0 /\ Available(c, One("cgroup_pids"))
Sampled(c) == c.pid # 0 /\ Available(c, <<"process_fast", c.pid>>)

\* Mutant of Estimated: whatever was cached.
EstimatedOfAnyone(d, name, c) ==
    IF d.cache[name] # None
    THEN [Point(c.ts, "estimated", c.pid) EXCEPT !.of = d.cache[name].of,
                                                 !.at = d.cache[name].at]
    ELSE Point(c.ts, "unavailable", c.pid)

\* A cached value, when it was measured for the same process identity.
Estimated(d, name, c) ==
    IF d.cache[name] # None /\ d.cache[name].of = c.pid
    THEN [Point(c.ts, "estimated", c.pid) EXCEPT !.of = d.cache[name].of,
                                                 !.at = d.cache[name].at]
    ELSE Point(c.ts, "unavailable", c.pid)

Measured(c, q) == [Point(c.ts, q, c.pid) EXCEPT !.of = c.pid, !.at = c.ts]
Store(d, name, c) == [d EXCEPT !.cache[name] = [of |-> c.pid, at |-> c.ts]]

\* _process_slow_values: a refresh that is due and incomplete gives nothing.
SlowValues(d, c) ==
    IF ~Sampled(c) THEN Put(d, "slow", Point(c.ts, "unavailable", c.pid))
    ELSE IF ~c.due["slow"] THEN Put(d, "slow", Estimated(d, "slow", c))
    ELSE IF Available(c, <<"process_slow", c.pid>>)
    THEN Put(Store(d, "slow", c), "slow",
             Measured(c, IF Authoritative(c) THEN "exact" ELSE "estimated"))
    ELSE Put(d, "slow", Point(c.ts, "unavailable", c.pid))

\* _cgroup_memory_values: no point at all without a value.
MemoryValues(d, c) ==
    IF c.pid = 0 \/ (c.due["slow"] /\ ~Available(c, One("cgroup_memory"))) THEN d
    ELSE IF c.due["slow"]
    THEN Put(IF Sampled(c) THEN Store(d, "memory", c) ELSE d, "memory", Measured(c, "exact"))
    ELSE IF Sampled(c) /\ Estimated(d, "memory", c).q = "estimated"
    THEN Put(d, "memory", Estimated(d, "memory", c))
    ELSE d

\* _service_socket_metrics: also a failed ss falls back on the cache.
SocketMetrics(d, c) ==
    LET records == c.due["sockets"] /\ Available(c, One("ss_connections"))
    IN  IF Authoritative(c) /\ records
        THEN Put(IF Sampled(c) THEN Store(d, "sockets", c) ELSE d,
                 "sockets", Measured(c, "exact"))
        ELSE IF Authoritative(c) /\ Sampled(c) THEN Put(d, "sockets", Estimated(d, "sockets", c))
        ELSE Put(d, "sockets", Point(c.ts, "unavailable", c.pid))

\* _service_unavailable
ServiceUnavailable(d, c) ==
    [d EXCEPT !.pt = [p \in Points |-> IF p \in {"service_active", "process", "listener",
                                                 "slow", "memory", "sockets"}
                                       THEN Point(c.ts, "unavailable", c.pid) ELSE @[p]]]

\* The service's state, and an event when it is another one.
ServiceState(d, c) ==
    LET k == One("service")
        active == IF c.pid = 0 THEN "service_inactive" ELSE "service_active"
    IN  Keep(Put(d, "service_active", Point(c.ts, "exact", Flag(c.pid # 0))),
             k, active, ValueTransition(d.state[k], active, active), c.ts)

\* The identity of its processes, when all of them are known.
PidIdentity(d, c) ==
    IF Authoritative(c) /\ Sampled(c)
    THEN [Keep(d, One("pid"), "known", ValueTransition(d.pid, c.pid, "pid_replaced"), c.ts)
            EXCEPT !.pid = c.pid]
    ELSE d

\* Their metrics and counters.
ProcessMetrics(d, c) ==
    Put(IF kind = "process" /\ c.samples # None THEN CounterStep(d, c) ELSE d, "process",
        Point(c.ts, IF ~Sampled(c) THEN "unavailable"
                    ELSE IF Authoritative(c) THEN "exact" ELSE "estimated", 0))

\* listener_owned_count
ListenerCount(d, c) ==
    Put(d, "listener", IF Authoritative(c) /\ Available(c, One("ss_listeners"))
                       THEN Point(c.ts, "exact", Flag(c.owner = c.pid))
                       ELSE Point(c.ts, "unavailable", 0))

\* The loop over services of _service_and_tunnel_metrics, inside its savepoint.
ServiceMetrics(d, c) ==
    LET known == PidIdentity(ServiceState(d, c), c)
        measured == MemoryValues(SlowValues(ProcessMetrics(known, c), c), c)
    IN  IF ~Available(c, One("systemd")) THEN ServiceUnavailable(d, c)
        ELSE SocketMetrics(ListenerCount(measured, c), c)

\* discover_tunnels: a malformed file, or a directory that cannot be read, has no tunnel.
Discovered(c) == Available(c, One("env_directory")) /\ ~c.malformed

\* _tunnel_remote_socket_metric
RemoteSockets(d, c, props) ==
    IF ~props \/ ~Authoritative(c) THEN Put(d, "remote", Point(c.ts, "unavailable", c.pid))
    ELSE IF c.due["sockets"] /\ Available(c, One("ss_connections"))
    THEN Put(IF Sampled(c) THEN Store(d, "remote", c) ELSE d, "remote", Measured(c, "exact"))
    ELSE IF Sampled(c) THEN Put(d, "remote", Estimated(d, "remote", c))
    ELSE Put(d, "remote", Point(c.ts, "unavailable", c.pid))

\* listener_ownership_exact, known only from authoritative processes and listeners.
Ownership(c, props) ==
    IF props /\ Authoritative(c) /\ Available(c, One("ss_listeners"))
    THEN Point(c.ts, "exact", Flag(c.owner = c.pid))
    ELSE Point(c.ts, "unavailable", 0)

\* The state of the tunnel's listener, when its ownership is known.
ListenerState(d, ownership) ==
    LET k == One("listener")
        found == IF ownership.v = 1 THEN "ok" ELSE "missing"
        code == IF found = "ok" THEN "listener_returned" ELSE "listener_disappeared"
    IN  IF ownership.q = "unavailable" THEN d
        ELSE Keep(d, k, found, ValueTransition(d.state[k], found, code), ownership.ts)

\* The loop over tunnels of _service_and_tunnel_metrics; props is what the service's
\* part left of its properties.
TunnelMetrics(d, c, props) ==
    LET active == Point(c.ts, IF props THEN "exact" ELSE "unavailable", Flag(c.pid # 0))
        points == Put(Put(d, "tunnel_active", active), "ownership", Ownership(c, props))
    IN  IF ~Discovered(c) THEN d
        ELSE ListenerState(RemoteSockets(points, c, props), Ownership(c, props))

\* _tunnel_unavailable
TunnelUnavailable(d, c) ==
    [d EXCEPT !.pt = [p \in Points |-> IF p \in {"tunnel_active", "ownership", "remote"}
                                       THEN Point(c.ts, "unavailable", c.pid) ELSE @[p]]]

\* _source_status, over every source the cycle looked at.
SourceStatus(d, out, ts) ==
    LET Code(k) == IF k = One("conntrack") THEN OptionalAvailability(d.state[k], out[k])
                   ELSE Availability(d.state[k], out[k])
        new == {k \in DOMAIN out : Code(k) # None}
    IN  [d EXCEPT !.state = [k \in Keys |-> IF k \in DOMAIN out THEN out[k] ELSE @[k]],
                  !.told = [k \in Keys |-> IF k \in new THEN [ts |-> ts, code |-> Code(k)]
                                           ELSE @[k]],
                  !.dropped = @ \ new]

\* _cycle_recovery
CycleRecovery(d, ts) ==
    LET k == One("collection")
    IN  Keep(d, k, "ok", Recovered(d.state[k], "collection_recovered"), ts)

\* run_maintenance inside its savepoint; what it does is in MetricStore.
Maintenance(d, c, ok) ==
    LET k == One("retention")
    IN  IF ~c.maint THEN d
        ELSE IF ok THEN Keep(d, k, "ok", Recovered(d.state[k], "database_retention_recovered"), c.ts)
        ELSE Keep(d, k, "failed", Failed(d.state[k], "database_retention_failed"), c.ts)

\* _cycle: the row of sample_cycles; one per second, the last one stays.
CycleRow(d, ts, ok) == [d EXCEPT !.cycle = [ts |-> ts, ok |-> ok]]

\* upsert_tunnel and ensure_entity: every cycle renews updated_at.
UpsertTunnel(d, c) == [d EXCEPT !.member = Discovered(c),
                                !.seen = IF Discovered(c) THEN c.ts ELSE @]

\* The three parts in their try blocks; bad are the parts that raise.
HostPart(d, c, bad, late) == Guarded(d, HostMetrics(d, c), One("host_metrics"), bad, late)
StoragePart(d, c, bad, late) ==
    Guarded(d, StorageMetrics(d, c, bad), One("storage_metrics"), bad, late)
NetworkPart(d, c, bad, late) ==
    Guarded(d, NetworkMetrics(d, c), One("network_metrics"), bad, late)

\* Service and tunnel, each behind its savepoint.
ServicePart(d, c, bad) ==
    IF One("service_processing") \in bad THEN ServiceUnavailable(d, c) ELSE ServiceMetrics(d, c)
TunnelPart(d, c, bad) ==
    IF One("tunnel_processing") \in bad THEN TunnelUnavailable(d, c)
    ELSE TunnelMetrics(d, c, One("service_processing") \notin bad /\ Available(c, One("systemd")))

\* What _source_status finds: the sources that were read, and the parts that ran.
SourcesSeen(c, bad, late) ==
    LET ran == Parts \cup {One("service_processing")}
               \cup (IF Discovered(c) THEN {One("tunnel_processing")} ELSE {})
               \cup (IF c.due["slow"] /\ (One("storage_metrics") \in bad => late)
                     THEN {One("filesystem")} ELSE {})
    IN  [k \in DOMAIN c.out \cup ran |-> IF k \in ran THEN Outcome(ran, bad)[k] ELSE c.out[k]]

\* The parts of the cycle in their order.
CycleResult(d, c, bad, late) ==
    LET first == HostPart(EnvEvents(d, c), c, bad, late)
        network == NetworkPart(StoragePart(first, c, bad, late), c, bad, late)
        tunnel == TunnelPart(ServicePart(network, c, bad), c, bad)
        sources == SourceStatus(tunnel, SourcesSeen(c, bad, late), c.ts)
        kept == Maintenance(CycleRecovery(sources, c.ts), c, One("retention") \notin bad)
    IN  CycleRow(UpsertTunnel(kept, c), c.ts, TRUE)

-----------------------------------------------------------------------------
(* The daemon from the transaction to the next deadline *)

\* The part with the counters of the kind.
PartOf == CASE kind = "cpu" -> One("host_metrics") [] kind = "disk" -> One("storage_metrics")
            [] kind = "process" -> One("service_processing") [] OTHER -> One("network_metrics")
MayFail == (Parts \ {One("network_metrics")}) \cup Processing
           \cup {One("filesystem"), One("retention")}
PartFailures == {bad \in SUBSET MayFail : Cardinality(bad) <= MaxFaults}

Transact ==
    /\ pc = "transact"
    /\ \E bad \in IF kind = "service" THEN PartFailures ELSE {{}, {PartOf}}, late \in BOOLEAN :
          /\ late => bad \cap Parts # {}
          /\ One("retention") \in bad => cy.maint
          /\ One("filesystem") \in bad => cy.due["slow"]
          /\ One("tunnel_processing") \in bad => Discovered(cy)
          /\ Spend(bad)
          /\ db' = Slice(CycleResult(db, cy, bad, late))
    /\ missed' = [c \in Caches |-> IF cy.due[Cadence[c]]
                                   THEN db'.cache[c] = None \/ db'.cache[c].at # cy.ts
                                   ELSE missed[c]]
    /\ pc' = IF cy.maint THEN "checkpoint" ELSE "overrun"
    /\ cy' = [ts |-> cy.ts]
    /\ UNCHANGED <<kind, now, mono, host, boot, deadline, next_maint>>

\* Any error on the way to the commit: everything since BEGIN is rolled back.
TransactFails ==
    /\ pc = "transact" /\ faults < MaxFaults
    /\ faults' = faults + 1
    /\ missed' = Owed
    /\ pc' = "failing" /\ cy' = [ts |-> cy.ts]
    /\ UNCHANGED <<kind, now, mono, host, boot, deadline, next_maint, db>>

\* _record_cycle_failure, a transaction of its own; if it fails too, nothing is stored.
RecordFailure ==
    /\ pc = "failing"
    /\ LET k == One("collection")
           told == Keep(db, k, "failed", Failed(db.state[k], "collection_failed"), cy.ts)
       IN  \/ db' = Slice(CycleRow(told, cy.ts, FALSE))
           \/ UNCHANGED db
    /\ pc' = "overrun"
    /\ UNCHANGED <<kind, now, mono, host, boot, cy, deadline, next_maint, missed, faults>>

\* _record_checkpoint_result
CheckpointResult(d, ok, ts) ==
    LET k == One("checkpoint")
    IN  IF ok THEN Keep(d, k, "ok", IF d.state[k] = None THEN "wal_checkpoint"
                                    ELSE Recovered(d.state[k], "wal_checkpoint_recovered"), ts)
        ELSE Keep(d, k, "failed", Failed(d.state[k], "wal_checkpoint_failed"), ts)

\* The checkpoint after the commit: it may fail, and so may the transaction that
\* records its result, which is then forgotten.
Checkpoint ==
    /\ pc = "checkpoint"
    /\ \/ /\ db' = CheckpointResult(db, TRUE, cy.ts)
          /\ UNCHANGED faults
       \/ /\ faults < MaxFaults /\ faults' = faults + 1
          /\ db' \in {db, CheckpointResult(db, FALSE, cy.ts)}
    /\ pc' = "overrun"
    /\ UNCHANGED <<kind, now, mono, host, boot, cy, deadline, next_maint, missed>>

\* run_daemon: the first point of the grid, after this one, that has not passed.
NextDeadline == IF mono > deadline + 1 THEN mono ELSE deadline + 1

\* record_cycle_overrun, again a transaction that may be lost, then the next
\* deadline.
RecordOverrun ==
    /\ pc = "overrun"
    /\ LET k == One("overrun")
           late == mono > deadline + 1
           level == IF late THEN "active" ELSE "inactive"
       IN  \/ /\ db' = Slice(Keep(db, k, level, Edge(db.state[k], late, "collection_overrun"),
                                  cy.ts))
              /\ UNCHANGED faults
           \/ /\ faults < MaxFaults /\ faults' = faults + 1
              /\ UNCHANGED db
    /\ deadline' = NextDeadline
    /\ pc' = "idle" /\ cy' = Idle
    /\ UNCHANGED <<kind, now, mono, host, boot, next_maint, missed>>

Next ==
    \/ Tick \/ ServiceStop \/ ServiceStart \/ Reboot
    \/ Remove \/ Create
    \/ Start \/ Crash
    \/ Begin \/ CaptureHost \/ CaptureServices
    \/ Transact \/ TransactFails \/ RecordFailure \/ Checkpoint \/ RecordOverrun

Spec == Init /\ [][Next]_vars

-----------------------------------------------------------------------------
(* Properties *)

\* Types of the saved states, the points and the place of the daemon.
TypeOK ==
    /\ pc \in Unfinished \cup {"down", "idle", "failing", "checkpoint", "overrun"}
    /\ now \in 0..MaxTime /\ mono \in 0..now /\ faults \in 0..MaxFaults
    /\ db.state \in [Keys -> {None} \cup Values]
    /\ \A p \in Points : db.pt[p] # None =>
          db.pt[p].q \in {"exact", "derived", "estimated", "unavailable"}
    /\ db.dropped \subseteq Keys

\* Derived rates never invent traffic: what all the rates of a counter, and of the
\* total over the interfaces, stand for is not more than what happened, across
\* replaced devices, restarts, reboots, lost cycles and crashes (counter_delta).
CountedOnce ==
    /\ \A n \in Names : db.reported[n] <= traffic[n]
    /\ db.reported[Total] <= traffic[1] + traffic[2]

\* No spikes: within one boot a rate is at most the real maximum (one event per
\* interval), but for the time by which the earlier sample is older than the
\* monotonic time saved with it.
RateBounded ==
    \A n \in Series :
        LET r == db.rate[n]
        IN  r # None /\ r.delta # None /\ r.boot = boot =>
              r.delta <= (r.elapsed + r.slack) * IF n = Total THEN 2 ELSE 1

\* The rates are true: well formed, nothing counted twice and no spike
\* (counter_delta and the intervals it is divided by).
RatesTrue == TypeOK /\ CountedOnce /\ RateBounded

\* Events and saved states agree: the newest event of a source or of a family says
\* what the state says, and no failure goes untold; crashes, rollbacks and lost
\* transactions between them notwithstanding.  Excepted are events a part dropped
\* when it raised after saving its state.
EventTellsState ==
    /\ \A k \in Sources \ db.dropped :
          /\ db.state[k] = "failed" => db.told[k] # None
          /\ db.told[k] # None => (db.state[k] = "failed") =
                                  (db.told[k].code = "metric_source_unavailable")
    /\ \A k \in {One(f) : f \in {"collection", "retention", "checkpoint", "env"}} :
          (db.state[k] = "failed") =
          (db.told[k] # None /\ db.told[k].code \in {"collection_failed", "env_parse_error",
                                "database_retention_failed", "wal_checkpoint_failed"})
    /\ db.told[One("service")] # None =>
          db.told[One("service")].code = db.state[One("service")]
    /\ db.told[One("listener")] # None =>
          (db.told[One("listener")].code = "listener_returned") =
          (db.state[One("listener")] = "ok")

\* An estimated value was measured for the process that runs now, and is younger
\* than its cadence unless the last refresh that was due did not happen.
EstimateHonest ==
    \A c \in Caches :
        LET p == db.pt[c]
        IN  p # None /\ p.q = "estimated" =>
              /\ p.of = p.v
              /\ missed[c] \/ p.ts - p.at < Cadences[Cadence[c]]

\* Health never calls a tunnel healthy that has been out of service for longer than
\* its freshness, nor the whole for longer than stale_after_seconds, whatever
\* failed, crashed or was restarted between the readings.
HealthyIsTrue ==
    LET s == Snapshot(db, now)
    IN  /\ 2 * (now - served) > 5 => EvaluateTunnel(s) # "healthy"
        /\ now - served > StaleAfter =>
              ~(Required(s) /\ EvaluateSnapshot(s, RequiredSources) = "healthy")

\* Health calls a tunnel down only when it was out of service at or after the
\* beginning of the cycle that says so: a source that failed is not an outage.
DownIsTrue ==
    LET p == db.pt["tunnel_active"]
    IN  p # None /\ out_of_service < p.ts => EvaluateTunnel(Snapshot(db, now)) # "down"

\* What health says of a tunnel is so, in both directions (evaluate_tunnels).
HealthIsTrue == HealthyIsTrue /\ DownIsTrue
=============================================================================
