\* No fault at all: a handler that outlasts the 10s of srv.Shutdown.
CONSTANTS
    Entries = {e1, e2}
    Workers = {w1, w2}
    ChanCap = 2
    BatchCap = 2
    MaxTries = 2
    Faults = {}
SYMMETRY Interchangeable
SPECIFICATION Spec
INVARIANT SigtermDrains
\* The process ends.
CHECK_DEADLOCK FALSE
