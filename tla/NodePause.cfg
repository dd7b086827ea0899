SPECIFICATION FairSpec
CONSTANTS
    Nodes = {n1, n2}
    NoNode = NoNode
    MaxMoves = 1
    MaxCalls = 2
    MaxFaults = 1
INVARIANTS TypeOK OneEncode PauseIsNotEnd ReadyStaysIdle
PROPERTIES Finishes
CHECK_DEADLOCK FALSE
