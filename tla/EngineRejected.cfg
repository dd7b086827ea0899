SPECIFICATION Spec
CONSTANTS
    Executors = {e1, e2}
    NoOwner = NoOwner
    MaxJob = 1
    MaxExpiries = 0
    MaxFaults = 2
    MaxCalls = 1
    Retention = FALSE
INVARIANTS
    RejectedMeansNoJob
CHECK_DEADLOCK FALSE
