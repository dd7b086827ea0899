SPECIFICATION FairSpec
CONSTANTS
    Executors = {e1, e2}
    NoOwner = NoOwner
    MaxJob = 2
    MaxExpiries = 1
    MaxFaults = 1
    MaxCalls = 1
    Retention = TRUE
INVARIANTS
    IInv
    CompletedHasCandidate
    OnlyTrackedJobRuns
    ConfirmedCancelHolds
PROPERTIES
    FinalIsFinal
    CheckpointMovesOn
    ImplementsLifecycle
    Settles
CHECK_DEADLOCK FALSE
