CONSTANTS
    Nothing = Nothing
    Flows <- MCFlows
    Seed <- MCSeed
    Proto = "TCP"
    PortMod = 5
    RemapBase = 2
    RemapRange = 2
    ProbeLimit = 2
    Cpus = {1}
    Tcp <- MCSegments
    MaxPackets = 3
    MaxLru = 1
    MaxFaults = 1
SPECIFICATION FairSpec
INVARIANTS
    TypeOK
    ProbeNeverSteals
    RemapStable
PROPERTY
    MemosReclaimed
CHECK_DEADLOCK FALSE
