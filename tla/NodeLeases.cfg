SPECIFICATION FairSpec
CONSTANTS
    Peers = {n1}
    LeaseDuration = 8
    LeaseRenew = 2
    PruneJitter = 1
    MaxMissed = 3
    MaxStops = 2
    MaxFaults = 1
INVARIANTS
    TypeOK
    GoneInTime
PROPERTIES
    HealthyKept
    WithdrawFinal
    Tracks
