\* Two scans at a time: one removes the clone of the other.
CONSTANTS
    s1 = s1
    s2 = s2
    s3 = s3
    Scans = {s1, s2}
    MaxConcurrent = 2
    HasToken = TRUE
SPECIFICATION Spec
INVARIANTS Isolated
\* Every scan may be done.
CHECK_DEADLOCK FALSE
