----------------------------- MODULE MCFirewall -----------------------------
(* Two ports, two sources, protected and unprotected profiles.  Between    *)
(* and around the three rules of the profile at the start there may be a   *)
(* rule of another program.                                                *)
EXTENDS Firewall

Config(enabled, port, sources) ==
    [enabled |-> enabled, port |-> port, sources |-> sources]

MCStart == Config(TRUE, 1, <<"a", "b">>)
MCConfigs == {MCStart, Config(TRUE, 1, <<"b">>), Config(TRUE, 2, <<"a">>),
              Config(FALSE, 1, <<"a">>)}
MCLayouts == {InsertAt(CandidateRules(MCStart), i, Other(1)) : i \in 1..4}
=============================================================================
