------------------------------- MODULE MCSetup ------------------------------
(***************************************************************************)
(* The hosts setup is checked on: without an installation, with the        *)
(* history of one that was removed, with an older release, with one from   *)
(* before the Watchdog, with an older release whose units are unchanged,   *)
(* and with the same release.                                              *)
(***************************************************************************)
EXTENDS Setup

Present(old, new) ==
    [f \in Files |-> IF f \in old THEN "old" ELSE IF f \in new THEN "new" ELSE "absent"]

(* Enabled and active services: as installed, stopped, by hand, mixed. *)
MCServices == {<<TRUE, TRUE, TRUE, TRUE>>, <<TRUE, FALSE, FALSE, FALSE>>,
               <<FALSE, TRUE, TRUE, FALSE>>}

Host(fs, ds, has, v) ==
    LET u(s, en, ac) ==
            LET there == fs[UnitFile(s)] # "absent"
            IN  [loaded |-> fs[UnitFile(s)], enabled |-> there /\ en, active |-> there /\ ac,
                 code |-> IF there /\ ac THEN fs[Package(s)] ELSE "absent"]
    IN  [files |-> fs, dirs |-> ds,
         db |-> [s \in Services |-> IF s \in has THEN "old" ELSE "absent"],
         unit |-> [s \in Services |-> IF s = "monitor" THEN u(s, v[1], v[2]) ELSE u(s, v[3], v[4])]]

MCHosts ==
    UNION {{Host(Present({}, {}), {}, {}, v),
            Host(Present({"monitoring.env"}, {}), {"config", "state"}, {"monitor"}, v),
            Host(Present(Files, {}), Directories, Services, v),
            Host(Present(Files \ WatchdogFiles, {}), Directories, {"monitor"}, v),
            Host(Present(Files \ Units, Units), Directories, Services, v),
            Host(Present(Configs, Files \ Configs), Directories, Services, v)} : v \in MCServices}

============================================================================
