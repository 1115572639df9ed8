----------------------------- MODULE OutageSpec -----------------------------
(***************************************************************************)
(* What the Watchdog promises about outages of one upstream, in terms of   *)
(* the checks themselves: an outage begins only when the last              *)
(* FailureThreshold checks failed, and ends only when the last             *)
(* SuccessThreshold checks succeeded and Hold seconds have passed since    *)
(* they first all had (docs/WATCHDOG-V1.md, "Exact defaults").             *)
(***************************************************************************)
EXTENDS Naturals, Sequences

CONSTANTS FailureThreshold, SuccessThreshold, Hold

VARIABLES
    outage,     \* is an outage declared?
    recent,     \* the last checks that gave an answer, oldest first
    time,       \* seconds since the beginning
    since       \* when the last SuccessThreshold checks first all succeeded

vars == <<outage, recent, time, since>>

Remembered == IF FailureThreshold > SuccessThreshold THEN FailureThreshold
                                                     ELSE SuccessThreshold

(* The window of checks after one more. *)
Noted(window, ok) ==
    LET all == Append(window, ok)
    IN  IF Len(all) > Remembered THEN Tail(all) ELSE all

(* The last n checks of the window all gave this answer. *)
LastAll(window, n, ok) ==
    /\ Len(window) >= n
    /\ \A i \in (Len(window) - n + 1)..Len(window) : window[i] = ok

Init == ~outage /\ recent = <<>> /\ time = 0 /\ since = 0

Pass == time' > time /\ UNCHANGED <<outage, recent, since>>

Check(ok) ==
    /\ recent' = Noted(recent, ok)
    /\ time' = time
    /\ since' = IF /\ LastAll(recent', SuccessThreshold, TRUE)
                   /\ ~LastAll(recent, SuccessThreshold, TRUE)
                THEN time ELSE since
    /\ \/ outage' = outage
       \/ ~outage /\ LastAll(recent', FailureThreshold, FALSE) /\ outage' = TRUE
       \/ /\ outage /\ LastAll(recent', SuccessThreshold, TRUE)
          /\ time >= since' + Hold
          /\ outage' = FALSE

Next == Pass \/ \E ok \in BOOLEAN : Check(ok)

Spec == Init /\ [][Next]_vars
=============================================================================
