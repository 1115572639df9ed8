------------------------ MODULE MCWatchdogScheduler -------------------------
(* Two profiles whose intervals, their own or the global one, are changed  *)
(* while their deadlines drift against each other.                         *)
EXTENDS WatchdogScheduler, TLC

CONSTANTS a, b

MCProfiles == {a, b}
MCIntervals == {1, 3}

(* Nothing but the configuration tells two profiles apart. *)
Symmetric == Permutations(MCProfiles)
=============================================================================
