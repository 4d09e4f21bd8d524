CONSTANTS
    f1 = f1
    a = a
    b = b
    Nothing = Nothing
    Flows <- MCFlows
    Proto <- MCUdp
    Hash <- MCHash
    HashMod = 4
    Pods <- MCPods
    Pools <- MCPools
    ClientCpus = {1}
    ReturnCpus = {2}
    Tcp <- MCData
    MaxPackets = 4
    MaxChanges = 1
    MaxLru = 0
    MaxFaults = 0
    MaxCrashes = 0
SPECIFICATION Spec
INVARIANTS
    StrictAffinity
CHECK_DEADLOCK FALSE
