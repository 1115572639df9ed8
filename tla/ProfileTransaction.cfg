SPECIFICATION Spec
INVARIANTS
    OperationReportTrue
    OldRecoverable
    ServedCovered
PROPERTIES
    SparesRunning
