CONSTANTS
    FailureThreshold = 1
    SuccessThreshold = 1
    Overlap = TRUE
    Commands = {"set-mode", "enter-keep"}
    Faults = {}
SPECIFICATION Spec
PROPERTY MaintenanceSuspends
