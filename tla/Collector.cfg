SPECIFICATION Spec
CONSTANTS
    None = None
    Kinds = {"cpu", "interface", "disk", "tcp", "process", "service"}
    SocketInterval = 2
    SlowInterval = 2
    MaintInterval = 2
    MaxGap = 2
    StaleAfter = 2
    RecentEvents = 3
    MaxTime = 3
    MaxStarts = 2
    MaxFaults = 1
INVARIANTS RatesTrue EventTellsState EstimateHonest HealthIsTrue
CHECK_DEADLOCK FALSE
