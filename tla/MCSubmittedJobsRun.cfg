SPECIFICATION Spec
CONSTANTS
    u1 = u1
    k1 = k1
    k2 = k2
    url1 = url1
    url2 = url2
    bad = bad
    both = both
    auto = auto
    blank = blank
    c1 = c1
    c2 = c2
    w1 = w1
    w2 = w2
    Users = {u1}
    Codes = {k1, k2}
    Urls = {url1, url2, bad, both}
    Pieces <- MCPieces
    Rank <- MCRank
    BadUrls = {bad}
    AnyCode = auto
    Blank = blank
    Callers = {c1}
    Workers = {w1, w2}
    Requests <- MCTwoRequests
    QueueCap = 1
    MaxItems = 2
    Every = 2
    Faults = {}
    MaxJobs = 2
    MaxTrouble = 0
INVARIANT
    SubmittedJobsRun
