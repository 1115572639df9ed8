--------------------------- MODULE MCHistoryQuery ---------------------------
(* A small history: three samples, one of them unavailable. *)
EXTENDS HistoryQuery

MCMeasured == <<2, None, 3>>
=============================================================================
