SPECIFICATION NetSpec
CONSTANTS
    i1 = i1
    i2 = i2
    n1 = n1
    n2 = n2
    b1 = b1
    b2 = b2
    b3 = b3
    Unset = Unset
    IPSets = {i1}
    NetConfigs <- MCNetConfigs
    Requests <- MCRequests
    Octet = 4
    FreshCache = TRUE
    MaxIPEdits = 0
    MaxIPFaults = 0
    Planes = {p1, p2}
    PodNames = {m1, m2}
    BGPNodes = {w1}
    PodShapes <- MCPodShapes
    MaxBGPEvents = 4
    MaxBGPFaults = 0
    LBServices = {s1}
    Addresses = {a1}
    NoAddress = noaddr
    Labels <- MCLabels
    Lower <- MCLower
    UserHosts <- MCUserHosts
    MaxDNSEvents = 0
    MaxDNSFaults = 0
PROPERTY OwnRoutesOnly
CHECK_DEADLOCK FALSE
