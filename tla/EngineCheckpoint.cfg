SPECIFICATION Spec
CONSTANTS
    Executors = {e1, e2}
    NoOwner = NoOwner
    MaxJob = 2
    MaxExpiries = 0
    MaxFaults = 1
    MaxCalls = 0
    Retention = FALSE
INVARIANTS
    WaitsForSentJob
CHECK_DEADLOCK FALSE
