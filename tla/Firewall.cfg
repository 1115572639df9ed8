CONSTANTS
    Configs <- MCConfigs
    Start <- MCStart
    Layouts <- MCLayouts
    Sources = {"a", "b", "x"}
    Stranger = "x"
    MaxFaults = 2
    MaxForeign = 2
    MaxRules = 5
SPECIFICATION Spec
INVARIANTS
    NeverOpen
    ForeignKept
    ReportExact
CHECK_DEADLOCK FALSE
