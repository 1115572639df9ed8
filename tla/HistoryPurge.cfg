SPECIFICATION Spec
CONSTANTS
    None = None
    MaxFaults = 2
INVARIANTS
    HistorySafe
    ReportIsTrue
PROPERTY
    PurgeEnds
