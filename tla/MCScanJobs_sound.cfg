\* Only scans raise: what the manager promises while its store works.
CONSTANTS
    j1 = j1
    j2 = j2
    w1 = w1
    w2 = w2
    NoJob = NoJob
    Jobs = {j1, j2}
    Workers = {w1, w2}
    Faults = {"scan"}
    MaxStarts = 2
SPECIFICATION FairSpec
INVARIANTS NoLostJob
PROPERTIES Lifecycle KeepsPromise EveryJobDecided
\* The process may be down for good.
CHECK_DEADLOCK FALSE
