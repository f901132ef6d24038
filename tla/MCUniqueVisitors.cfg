SPECIFICATION Spec
CONSTANTS
    l1 = l1
    w1 = w1
    w2 = w2
    a1 = a1
    a2 = a2
    none = none
    de = de
    berlin = berlin
    feed = feed
    Links = {l1}
    Visitors <- MCVisitors
    Loggers = {w1, w2}
    None = none
    BotWords = {"bot", "curl"}
    Zones <- MCZones
    Second = 2
    Hour = 2
    Day = 2
    Minute = 1
    Window = 1
    Keep = 2
    ChanCap = 2
    BatchMax = 2
    MaxTries = 2
    MaxVisits = 3
    MaxEdits = 1
    MaxTime = 2
    MaxFaults = 0
    Faults = {}
INVARIANT UniqueAreFirsts
ACTION_CONSTRAINT MCApart
SYMMETRY MCSymmetry
CHECK_DEADLOCK FALSE
