SPECIFICATION Spec
CONSTANTS
    g1 = g1
    g2 = g2
    i1 = i1
    k1 = k1
    k2 = k2
    none = none
    p1 = p1
    Gates = {g1, g2}
    Ips = {i1}
    Keys = {k1, k2}
    NoKey = none
    Prefix <- MCPrefix
    IpLimit = 2
    RatePerMin <- MCRate
    QuotaDaily <- MCQuota
    Minute = 2
    Day = 4
    Offset = 1
    Patience = 1
    MaxRequests = 5
    MaxTime = 4
    MaxFaults = 1
    Faults = {"redis", "lostReply", "kill"}
INVARIANTS
    TypeOK
    BurstBound
    MinuteBound
    QuotaBound
    RefusedForCause
    UsageTruthful
SYMMETRY MCSymmetry
CHECK_DEADLOCK FALSE
