CONSTANTS
    FailureThreshold = 1
    SuccessThreshold = 1
    Overlap = TRUE
    Commands = {"enter-stop"}
    Faults = {"admin_crash"}
SPECIFICATION FairSpec
INVARIANTS
    OwnershipConsistent
    OutageConsistent
    PendingAuthorised
PROPERTIES
    IntentResolved
    FollowsUpstream
