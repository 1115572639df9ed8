----------------------------- MODULE MCWatchdog -----------------------------
(* Instances of Watchdog for TLC: the thresholds, the interleaving and the *)
(* failures of each run are set in the .cfg files.                         *)
EXTENDS Watchdog
=============================================================================
