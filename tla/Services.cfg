SPECIFICATION MSSpec
CONSTANTS
    Kinds = {"memcached", "redis", "dnsmasq", "instanceha"}
    Topologies = {t1, t2}
    MaxVersion = 2
    MaxSvcEvents = 3
    MaxSvcFaults = 1
    NodeSets = {n1, n2}
    MaxRotations = 2
    MaxHBFaults = 1
    h1 = h1
    h2 = h2
    ComputeHosts = {h1, h2}
    Servers = {s1}
    DownCycles = 1
    PerCycle = 1
    ThresholdPercent = 50
    Retries = 2
    HABudgets <- MCHABudgets
    MaxPolEvents = 3
    MaxPolFaults = 2
    Claims = {c1, c2}
    LateClaims = {c3}
    MaxAdoptEvents = 2
    MaxAdoptFaults = 2
INVARIANTS  LatestKeysAccepted AdoptionKeepsData RenderingFits
PROPERTIES WorkloadConverges RotationCompletes   PolicyFollowsObject
CHECK_DEADLOCK FALSE
