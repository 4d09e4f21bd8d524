CONSTANTS
    a4 = a4
    a6 = a6
    b4 = b4
    p1 = p1
    p2 = p2
    n1 = n1
    n2 = n2
    s1 = s1
    s2 = s2
    svc = svc
    Nothing = Nothing
    Nodes <- MCNodes
    SliceNames <- MCSlices
    Ips <- MCIps
    V6 = {a6}
    IpRank <- MCRank
    PodCidr = {p1, p2}
    NodeIp = a4
    Svc = svc
    Versions <- MCVersions
    AtFirst <- MCAtFirst
    MaxChanges = 2
    MaxMishaps = 1
SPECIFICATION Spec
INVARIANT
    WalkCoversDowntime
CHECK_DEADLOCK FALSE
