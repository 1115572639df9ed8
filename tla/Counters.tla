------------------------------ MODULE Counters ------------------------------
(***************************************************************************)
(* Rates from kernel counters (monitoring/network_readers.py and           *)
(* proc_readers.py).  A sample of a counter is a record [id, n, idle]: the *)
(* identity the code can see, the count, and for the CPU its second field. *)
(* A result is [delta, reset, gap]; delta = None stands for quality        *)
(* "unavailable", any other value for a derived rate delta / elapsed.      *)
(***************************************************************************)
EXTENDS Integers, FiniteSetsExt

CONSTANTS None,
          MaxGap       \* CollectorConfig.max_gap

Unavailable == [delta |-> None, reset |-> FALSE, gap |-> FALSE]

\* counter_delta
CounterDelta(previous, current, elapsed) ==
    IF previous = None \/ current = None \/ elapsed = None \/ elapsed <= 0 THEN Unavailable
    ELSE [delta |-> IF current < previous THEN None ELSE current - previous,
          reset |-> current < previous,
          gap   |-> elapsed > MaxGap]

Count(sample) == IF sample = None THEN None ELSE sample.n

\* interface_metrics: identity is the name only.
InterfaceMetrics(current, previous, elapsed) ==
    CounterDelta(Count(previous), current.n, elapsed)

\* aggregate_external: the sum over the interfaces of one reading but lo (0).
AggregateExternal(samples) ==
    LET present == {i \in DOMAIN samples : samples[i] # None /\ i # 0}
    IN  [id |-> 0, idle |-> 0, n |-> MapThenSumSet(LAMBDA i : samples[i].n, present)]

\* tcp_counter_metrics: a counter missing from the last reading has no previous.
TcpCounterMetrics(current, previous, elapsed) ==
    CounterDelta(Count(previous), current.n, elapsed)

SameIdentity(current, previous) == previous # None /\ previous.id = current.id

\* disk_metrics: another device under the name is a reset.
DiskMetrics(current, previous, elapsed) ==
    LET replacement == previous # None /\ previous.id # current.id
        d == CounterDelta(IF SameIdentity(current, previous) THEN previous.n ELSE None,
                          current.n, elapsed)
    IN  [d EXCEPT !.reset = replacement \/ d.reset]

\* service_process_metrics: the set of processes is the identity.
ServiceProcessMetrics(current, previous, elapsed) ==
    LET identity_changed == previous # None /\ previous.id # current.id
        d == CounterDelta(IF SameIdentity(current, previous) THEN previous.n ELSE None,
                          current.n, elapsed)
    IN  [d EXCEPT !.reset = identity_changed \/ d.reset]

\* cpu_metrics: shares of the jiffies between the samples; n is busy time.
CpuMetrics(current, previous, elapsed) ==
    LET reset == previous # None /\ (current.n < previous.n \/ current.idle < previous.idle)
        gap == elapsed # None /\ elapsed > MaxGap
        available == /\ previous # None /\ ~reset /\ elapsed # None /\ elapsed > 0
                     /\ current.n + current.idle > previous.n + previous.idle
    IN  [delta |-> IF available THEN current.n - previous.n ELSE None,
         reset |-> reset, gap |-> gap]
=============================================================================
