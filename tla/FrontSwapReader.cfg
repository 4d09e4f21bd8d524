CONSTANTS
    a = a
    b = b
    Nothing = Nothing
    Fronts = {1}
    Endpoints <- MCEndpoints
    LocalEndpoints <- MCLocal
    Wants <- MCWants
    MaxSlots = 2
    GenMod = 4
    FirstGen = 3
    MetaCap = 1
    EndpointCap = 4
    MaxEvents = 2
    MaxFaults = 1
    MaxCrashes = 1
SPECIFICATION FairSpec
INVARIANTS
    TypeOK
    LiveWhole
    NeverMixed
    OneSwapNoMiss
    SizedNeverRefuses
    TwoGenerations
PROPERTIES
    ImplementsRegister
    Converges
CHECK_DEADLOCK FALSE
