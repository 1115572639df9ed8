CONSTANTS
    FailureThreshold = 2
    SuccessThreshold = 2
    Overlap = FALSE
    Commands = {"enter-keep", "enter-stop", "exit-no-start", "exit-start", "rearm", "set-mode", "reset-profile", "service"}
    Faults = {"probe", "query", "action", "persist", "daemon_crash", "admin_crash"}
SPECIFICATION Spec
INVARIANTS
    TypeOK
    NoOrphanStop
PROPERTIES
    IntentBeforeAction
    OverrideSticky
