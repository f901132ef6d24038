\* No fault, no passing of time: a visit's cache fill overtaken by a deletion.
CONSTANTS
    Procs = {p1, p2}
    Users = {u1}
    Codes = {c1}
    Urls = {a, b}
    Expiries = {}
    Never = Never
    NoUrl = NoUrl
    NoCode = NoCode
    NoRow = NoRow
    NoEntry = NoEntry
    Forever = Forever
    DayTTL = 2
    Faults = {}
    MaxLinks = 2
    MaxTime = 1
SYMMETRY Interchangeable
SPECIFICATION Spec
INVARIANT UnknownCodeIsNotFound
