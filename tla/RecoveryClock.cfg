CONSTANTS
    None = None
    FailureThreshold = 2
    SuccessThreshold = 3
    Hold = 2
    JitterMax = 1
    StepsBack = {2}
    MaxTime = 8
SPECIFICATION Spec
INVARIANTS
    TimesRight
PROPERTIES
    ImplementsOutageSpec
