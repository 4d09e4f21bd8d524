CONSTANTS
    f1 = f1
    a = a
    b = b
    Nothing = Nothing
    Flows <- MCFlows
    Proto <- MCTcp
    Hash <- MCHash
    HashMod = 4
    Pods <- MCPods
    Pools <- MCPools
    ClientCpus = {1}
    ReturnCpus = {1, 2}
    Tcp <- MCSegments
    MaxPackets = 3
    MaxChanges = 1
    MaxLru = 1
    MaxFaults = 1
    MaxCrashes = 1
SPECIFICATION FocusSpec
INVARIANTS
    TypeOK
    StrictAffinity
    Admission
    SweepSparesLive
PROPERTY
    Reclaimed
CHECK_DEADLOCK FALSE
