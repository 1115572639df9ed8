CONSTANTS
    Hosts <- MCHosts
    MaxFaults = 1
SPECIFICATION Spec
INVARIANTS
    InstallReportTrue
    OldFileRecoverable
    HistoryKept
    SourceRecoverable
    AlignedUnlessCut
PROPERTIES
    StartsConsistent
