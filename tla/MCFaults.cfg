SPECIFICATION FaultySpec
CONSTANTS
    \* Jobs: every kind of failure, two pool threads, three submissions, one restart.
    j1 = j1
    j2 = j2
    j3 = j3
    w1 = w1
    w2 = w2
    NoJob = NoJob
    Jobs = {j1, j2, j3}
    Workers = {w1, w2}
    Faults = {"scan", "save", "audit"}
    MaxStarts = 2
    \* Webhook pipeline: reordering, redelivery, a replay cache of one, every failure
    \* and a restart.
    Deliveries = {1, 2, 3}
    PRs = {"web#1", "lib#7"}
    NoPR = "none"
    PrOf <- ThreeCommits
    Capacity = 1
    MaxAttempts = 2
    Network = {"redeliver", "reorder"}
    WebhookFaults = {"body", "installation", "analysis"}
    MaxJobs = 3
    MaxCrashes = 1
SYMMETRY JobsAndWorkers
INVARIANTS TypeOK HeldOnce AuditAgrees JobsAccounted 
\* The server process may be down for good.
CHECK_DEADLOCK FALSE
