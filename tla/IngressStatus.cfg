CONSTANTS
    n1 = n1
    n2 = n2
    p = p
    Nodes <- MCNodes
    Peers <- MCPeers
    MaxConflictRetries = 2
    MaxTasks = 2
    MaxTroubles = 2
SPECIFICATION MCSpec
INVARIANTS
    TypeOK
    AddressSettles
PROPERTIES
    OwnEntriesOnly
    WorkEnds
CHECK_DEADLOCK FALSE
