CONSTANTS
    FailureThreshold = 1
    SuccessThreshold = 1
    Overlap = FALSE
    Commands = {"set-mode", "service"}
    Faults = {}
SPECIFICATION Spec
PROPERTY NeverStartsOperatorStopped
