SPECIFICATION FairSpec
CONSTANTS
    Peers = {n1}
    LeaseDuration = 8
    LeaseRenew = 2
    PruneJitter = 1
    MaxMissed = 4
    MaxStops = 0
    MaxFaults = 0
PROPERTY
    HealthyKept
