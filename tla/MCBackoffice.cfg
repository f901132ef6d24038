SPECIFICATION Spec
CONSTANTS
    g1 = g1
    g2 = g2
    n1 = n1
    n2 = n2
    m1 = m1
    m2 = m2
    c1 = c1
    c2 = c2
    w1 = w1
    w2 = w2
    none = none
    Guests = {g1, g2}
    Names = {n1, n2}
    Mails = {m1, m2}
    Before <- MCBefore
    Callers = {c1, c2}
    Auditors = {w1, w2}
    Life = 1
    KeyLife = {1}
    NoExpiry = none
    Lapse = 1
    AuditCap = 1
    AuditBatch = 2
    MaxUsers = 2
    MaxKeys = 1
    MaxRequests = 4
    MaxTime = 2
    MaxFaults = 1
    Faults = {"db", "redis", "kill"}
INVARIANTS
    TypeOK
    OneAccountEach
    AdminRightsEnd
    RevocationHolds
    DeniedOnlyIfRevoked
    AuditTruthful
    AuditedOnce
    AuditDrains
SYMMETRY MCSymmetry
CHECK_DEADLOCK FALSE
