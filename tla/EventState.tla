----------------------------- MODULE EventState -----------------------------
(***************************************************************************)
(* monitoring/event_state.py: which event a change of a persisted value    *)
(* produces.  Each operator takes the value saved by the cycle before and  *)
(* the value of this one and gives the code of the event, or None; the     *)
(* caller saves the new value in the same transaction.  None as a value is *)
(* "never saved".                                                          *)
(***************************************************************************)
CONSTANT None

\* Mutant of Availability: nothing for the first state.
AvailabilityFirstSilent(previous, current) ==
    IF previous = current \/ previous = None THEN None
    ELSE IF current = "available" THEN "metric_source_available"
    ELSE "metric_source_unavailable"

\* EventState.availability: "available" or "failed".
Availability(previous, current) ==
    IF previous = current \/ (previous = None /\ current = "available") THEN None
    ELSE IF current = "available" THEN "metric_source_available"
    ELSE "metric_source_unavailable"

\* EventState.optional_availability: available, unsupported or failed.
OptionalAvailability(previous, current) ==
    IF previous = current \/ (previous = None /\ current = "available") THEN None
    ELSE IF current = "unsupported" THEN "optional_source_unsupported"
    ELSE IF current = "available" /\ previous = "unsupported" THEN "optional_source_available"
    ELSE IF current = "available" THEN "metric_source_available"
    ELSE "metric_source_unavailable"

\* EventState.value_transition: nothing for the first value.
ValueTransition(previous, value, code) ==
    IF previous = value \/ previous = None THEN None ELSE code

\* EventState.edge: only the step from inactive to active.
Edge(previous, active, code) ==
    IF active /\ previous # "active" THEN code ELSE None

\* The pairs of states collector.py keeps itself: cycle, retention, checkpoint.
Failed(previous, code) == IF previous = "failed" THEN None ELSE code
Recovered(previous, code) == IF previous = "failed" THEN code ELSE None

\* EventState.set_transitions: added and removed, nothing for the first set.
Added(previous, values) == IF previous = None THEN {} ELSE values \ previous
Removed(previous, values) == IF previous = None THEN {} ELSE previous \ values
=============================================================================
