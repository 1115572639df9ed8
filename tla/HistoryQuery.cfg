CONSTANTS
    None = None
    Minute = 2
    RawRetention = 4
    RollupRetention = 6
    BatchMinutes = 1
    Measured <- MCMeasured
    Start = 2
    MaxTime = 9
    MaxOpen = 2
    MaxSteps = 1
    MaxQueryRows = 1
    MaxStreamScanRows = 2
    MaxMaterializedRows = 2
    MaxExportRows = 2
    AutoRaw = 2
    Cadences = {2, 3}
    MaxSeed = 5
    MaxLag = 1
SPECIFICATION Spec
INVARIANTS
    StoreComplete
    AnswerRight
    AnswerComplete
    ExportAgrees
PROPERTIES
    RollupFinal
CHECK_DEADLOCK FALSE
