CONSTANTS
    a = a
    b = b
    Nothing = Nothing
    Fronts = {1, 2}
    Endpoints <- MCEndpoints
    LocalEndpoints <- MCLocal
    Wants <- MCFewWants
    MaxSlots = 2
    GenMod = 4
    FirstGen = 3
    MetaCap = 2
    EndpointCap = 5
    MaxEvents = 1
    MaxFaults = 1
    MaxCrashes = 0
SPECIFICATION Spec
INVARIANTS
    RefusedWhole
CHECK_DEADLOCK FALSE
