\* Two workers, batches of two, a channel that fills, every fault but a full disk,
\* which FallbackComplete excepts. No symmetry: a liveness property is checked.
CONSTANTS
    Entries = {e1, e2, e3}
    Workers = {w1, w2}
    ChanCap = 2
    BatchCap = 2
    MaxTries = 2
    Faults = {"db", "lostReply", "kill"}
SPECIFICATION FairSpec
INVARIANTS TypeOK OnePlace NoneStranded OnceUnlessDoubted FallbackComplete
PROPERTIES DeliversLog EntriesSettle
\* The process ends.
CHECK_DEADLOCK FALSE
