\* No fault: a visit's cache fill overtaken by deletion and reuse of the code.
CONSTANTS
    Procs = {p1, p2}
    Users = {u1}
    Codes = {c1}
    Urls = {a, b}
    Expiries = {}
    Never = Never
    NoUrl = NoUrl
    NoCode = NoCode
    NoRow = NoRow
    NoEntry = NoEntry
    Forever = Forever
    DayTTL = 2
    Faults = {}
    MaxLinks = 2
    MaxTime = 1
SYMMETRY Interchangeable
SPECIFICATION Spec
INVARIANT RedirectsToOwnUrl
