SPECIFICATION NetSpec
CONSTANTS
    i1 = i1
    i2 = i2
    n1 = n1
    n2 = n2
    b1 = b1
    b2 = b2
    b3 = b3
    Unset = Unset
    IPSets = {i1, i2}
    NetConfigs <- MCNetConfigs
    Requests <- MCRequests
    Octet = 4
    FreshCache = TRUE
    MaxIPEdits = 4
    MaxIPFaults = 1
    Planes = {p1}
    PodNames = {m1, m2}
    BGPNodes = {w1}
    PodShapes <- MCPodShapes
    MaxBGPEvents = 4
    MaxBGPFaults = 1
    LBServices = {s1}
    Addresses = {a1}
    NoAddress = noaddr
    Labels <- MCLabels
    Lower <- MCLower
    UserHosts <- MCUserHosts
    MaxDNSEvents = 3
    MaxDNSFaults = 1
INVARIANTS  ReadyMeansReserved NoOrphanedRoutes
PROPERTIES IPSetsServed  RoutesConverge HostsServed
CHECK_DEADLOCK FALSE
