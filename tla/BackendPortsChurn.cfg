CONSTANTS
    Nothing = Nothing
    Flows <- MCFlows
    Seed <- MCSeed
    Proto = "TCP"
    PortMod = 5
    RemapBase = 2
    RemapRange = 2
    ProbeLimit = 2
    Cpus = {1}
    Tcp <- MCSegments
    MaxPackets = 4
    MaxLru = 1
    MaxFaults = 0
SPECIFICATION Spec
PROPERTY
    RemapOutlivesChurn
CHECK_DEADLOCK FALSE
