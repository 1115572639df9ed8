CONSTANTS
    a = a
    b = b
    Profiles <- MCProfiles
    Intervals <- MCIntervals
    ErrorDelay = 2
    MaxCycle = 1
    MaxLate = 1
    MaxTime = 8
SPECIFICATION Spec
SYMMETRY Symmetric
INVARIANTS
    ScheduleKept
    DeadlineOnGrid
PROPERTIES
    NextPeriod
