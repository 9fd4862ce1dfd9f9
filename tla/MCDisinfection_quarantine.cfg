\* Two fonts that follow each other at one path, a task and a dropper; the command
\* runs twice and one of them comes back in between.
SPECIFICATION CleanSpec
CONSTANTS
    Infections = {"t1", "d1", "f1", "f2"}
    NoInfection = "none"
    KindOf <- KindByName
    PathOf <- FontsAtOnePath
    Linked = {}
    Pruned = {}
    DetectedOnly = {}
    Spread = {}
    MaxCleanings = 2
    MaxReturns = 1
INVARIANTS NothingDestroyed
\* The commands end.
CHECK_DEADLOCK FALSE
