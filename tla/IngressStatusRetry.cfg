CONSTANTS
    Nodes = {n1}
    Peers = {p}
    MaxConflictRetries = 2
    MaxTasks = 2
    MaxTroubles = 2
SPECIFICATION Spec
INVARIANTS
    RetriedUntilDone
CHECK_DEADLOCK FALSE
