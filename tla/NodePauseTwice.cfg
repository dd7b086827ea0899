SPECIFICATION Spec
CONSTANTS
    Nodes = {n1, n2}
    NoNode = NoNode
    MaxMoves = 1
    MaxCalls = 1
    MaxFaults = 1
INVARIANT NeverTwice
CHECK_DEADLOCK FALSE
