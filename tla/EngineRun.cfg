SPECIFICATION SyncSpec
CONSTANTS
    Executors = {e1, e2}
    NoOwner = NoOwner
    MaxJob = 1
    MaxExpiries = 0
    MaxFaults = 0
    MaxCalls = 1
    Retention = FALSE
PROPERTIES
    CancelClosesAdmission
CHECK_DEADLOCK FALSE
