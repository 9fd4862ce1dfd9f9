\* An audit append that raises after the result was saved.
CONSTANTS
    j1 = j1
    j2 = j2
    w1 = w1
    w2 = w2
    NoJob = NoJob
    Jobs = {j1, j2}
    Workers = {w1, w2}
    Faults = {"audit"}
    MaxStarts = 2
SPECIFICATION Spec
PROPERTIES Lifecycle
\* The process may be down for good.
CHECK_DEADLOCK FALSE
