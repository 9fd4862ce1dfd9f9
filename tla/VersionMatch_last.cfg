\* Three versions, and up to three events in any order.
SPECIFICATION MatchSpec
CONSTANTS
    MatchVersions = {0, 1, 2}
    MaxEvents = 3
    NoVersion = NoVersion
    Invalid = Invalid
INVARIANTS LastAffectedCounts
\* An advisory is judged once.
CHECK_DEADLOCK FALSE
