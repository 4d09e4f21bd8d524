CONSTANTS
    Nothing = Nothing
    Flows <- MCFlows
    Seed <- MCSeed
    Proto = "TCP"
    PortMod = 5
    RemapBase = 2
    RemapRange = 2
    ProbeLimit = 2
    Cpus = {1, 2}
    Tcp <- MCSegments
    MaxPackets = 3
    MaxLru = 0
    MaxFaults = 0
SPECIFICATION Spec
INVARIANT
    ProbeNeverSteals
CHECK_DEADLOCK FALSE
