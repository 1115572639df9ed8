------------------------------- MODULE Health -------------------------------
(***************************************************************************)
(* monitoring/health.py on what query_engine.snapshot reads from the       *)
(* database d at the time now: pure operators.  d.pt has the newest points *)
(* (quality q, value v), d.told the newest event of each key <<family, n>>,*)
(* d.member says that the tunnel belongs to the last successful cycle.     *)
(* Utilization stays below the thresholds of HealthPolicy.                 *)
(***************************************************************************)
EXTENDS Integers

CONSTANTS None,
          SlowInterval,     \* cadence of filesystem metrics, in sample intervals
          StaleAfter,       \* HealthPolicy.stale_after_seconds
          RecentEvents      \* HealthPolicy.recent_event_seconds

\* cadence_for: host and entity metrics every interval, filesystems at their own.
CadenceFor(p) == IF p = "filesystem" THEN SlowInterval ELSE 1

\* latest_cycle
LatestCycle(d) == d.cycle

\* current_entities: who has points in the last successful cycle.
CurrentEntities(d) == {"service"} \cup IF d.member THEN {"tunnel"} ELSE {}

TunnelPoints == {"tunnel_active", "ownership", "remote"}

\* latest_points: the newest point of each series of a current entity.
LatestPoints(d) ==
    [p \in DOMAIN d.pt |-> IF p \in TunnelPoints /\ "tunnel" \notin CurrentEntities(d)
                           THEN None ELSE d.pt[p]]

\* health_events: the newest event of each key, if it is in the window.
HealthEvents(d, now) ==
    [k \in DOMAIN d.told |-> IF d.told[k] # None /\ now - d.told[k].ts <= RecentEvents
                             THEN d.told[k] ELSE None]

\* invalid_managed_env_sources: malformed in the last successful cycle.
InvalidEnv(d) == d.state[<<"env", 0>>] = "failed"

\* QueryEngine.snapshot: "stale" is older than 2.5 cadences.
Snapshot(d, now) ==
    LET points == LatestPoints(d)
    IN  [generated_at |-> now,
         cycle        |-> LatestCycle(d),
         metrics      |-> [p \in DOMAIN points |->
                             IF points[p] = None THEN None
                             ELSE [ts |-> points[p].ts, q |-> points[p].q, v |-> points[p].v,
                                   stale |-> 2 * (now - points[p].ts) > 5 * CadenceFor(p)]],
         entities     |-> CurrentEntities(d),
         updated_at   |-> d.seen,
         events       |-> HealthEvents(d, now),
         invalid_env  |-> InvalidEnv(d)]

\* _required_services: those of the current tunnels.
Required(s) == "tunnel" \in s.entities

\* Mutant of Unusable: an old point is as good as a new one.
UnusableNeverStale(m) == m = None \/ m.q = "unavailable"

\* _unavailable
Unusable(m) == m = None \/ m.q = "unavailable" \/ m.stale

Shows(m, value, since) == m # None /\ m.q = "exact" /\ m.v = value /\ m.ts >= since

\* _required_event_codes, one key: is its newest event an active alarm?  sources are
\* the required ones.  A listener event older than the entity is ignored.
Active(s, k, sources) ==
    LET e == s.events[k]
    IN  /\ e # None
        /\ \/ k \in sources /\ e.code = "metric_source_unavailable"
           \/ e.code \in {"collection_failed", "database_retention_failed",
                          "wal_checkpoint_failed", "sampling_gap"}
           \/ k[1] = "pid" /\ Required(s)
           \/ /\ k[1] = "service" /\ Required(s) /\ e.code = "service_inactive"
              /\ ~Shows(s.metrics["service_active"], 1, e.ts)
           \/ /\ k[1] = "listener" /\ Required(s) /\ e.code = "listener_disappeared"
              /\ e.ts >= s.updated_at
              /\ ~Shows(s.metrics["ownership"], 1, e.ts)

\* evaluate_node
EvaluateNode(s, sources) ==
    IF s.cycle = None \/ s.generated_at - s.cycle.ts > StaleAfter THEN "unknown"
    ELSE IF ~s.cycle.ok THEN "critical"
    ELSE IF Unusable(s.metrics["cpu"]) \/ Unusable(s.metrics["filesystem"]) THEN "unknown"
    ELSE IF s.invalid_env \/ \E k \in DOMAIN s.events : Active(s, k, sources) THEN "degraded"
    ELSE "healthy"

\* evaluate_services
EvaluateService(s) ==
    LET active == s.metrics["service_active"]
        listener == s.metrics["listener"]
    IN  IF Unusable(active) THEN "unknown"
        ELSE IF active.v = 0 THEN "down"
        ELSE IF Unusable(s.metrics["process"]) \/ Unusable(listener) THEN "unknown"
        ELSE IF listener.v = 0 THEN "down" ELSE "healthy"

\* evaluate_tunnels
EvaluateTunnel(s) ==
    LET active == s.metrics["tunnel_active"]
        ownership == s.metrics["ownership"]
    IN  IF Unusable(active) THEN "unknown"
        ELSE IF active.v = 0 THEN "down"
        ELSE IF Unusable(ownership) THEN "unknown"
        ELSE IF ownership.v = 0 THEN "down" ELSE "healthy"

\* evaluate_snapshot: the worst of the node and of the required service and tunnel.
EvaluateSnapshot(s, sources) ==
    LET all == {EvaluateNode(s, sources)}
               \cup IF Required(s) THEN {EvaluateService(s), EvaluateTunnel(s)} ELSE {}
    IN  IF all \cap {"critical", "down"} # {} THEN "critical"
        ELSE IF "unknown" \in all THEN "unknown"
        ELSE IF "degraded" \in all THEN "degraded" ELSE "healthy"
=============================================================================
