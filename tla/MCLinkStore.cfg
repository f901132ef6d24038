\* Two concurrent requests, every kind of fault, one code that is reused.
CONSTANTS
    Procs = {p1, p2}
    Users = {u1, u2}
    Codes = {c1}
    Urls = {a, b}
    Expiries = {1}
    Never = Never
    NoUrl = NoUrl
    NoCode = NoCode
    NoRow = NoRow
    NoEntry = NoEntry
    Forever = Forever
    DayTTL = 2
    Faults = {"db", "redis", "server"}
    MaxLinks = 2
    MaxTime = 2
SYMMETRY Interchangeable
SPECIFICATION Spec
INVARIANTS TypeOK UniqueCodes UrlProvenance
PROPERTY ImplementsDirectory
