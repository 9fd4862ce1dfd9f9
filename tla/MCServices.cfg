SPECIFICATION ServicesSpec
CONSTANTS
    \* Working copies: one scan at a time, three in a row on the shared manager.
    Scans = {"s1", "s2", "s3"}
    MaxConcurrent = 1
    HasToken = TRUE
    \* Webhook pipeline: no crash, and the network keeps the order.
    Deliveries = {1, 2, 3, 4, 5}
    PRs = {"web#1", "lib#7"}
    NoPR = "none"
    PrOf <- FiveEvents
    Capacity = 5
    MaxAttempts = 2
    Network = {"redeliver"}
    WebhookFaults = {"analysis"}
    MaxJobs = 5
    MaxCrashes = 0
    \* Priority job queue.
    QueueJobs = {"j1", "j2", "j3"}
    QueueWorkers = {"w1", "w2"}
    NoJob = "nothing"
    PriorityOf <- JobPriorities
    MaxQueueAttempts = 2
    QueueHorizon = 1
    MaxReplays = 1
    \* Security job queue.
    OpsJobs = {"j1", "j2", "j3"}
    NoOpsJob = "nothing"
    OpsId <- TwoNamedAlike
    OpsPriority <- OpsPriorities
    OpsHandled = {"j1", "j2"}
    MaxRetries = 2
    \* What a scan takes.
    Scanners = {"w1", "w2"}
    NoScanner = "nobody"
    LeaseTTL = 1
    MaxRunning = 2
    MaxDaily = 3
    PoolCapacity = 1
    LeaseHorizon = 2
    \* Alerts.
    Events = {"e1", "e2", "e3"}
    Conditions = {"k1", "k2"}
    NoAlert = "none"
    ConditionOf <- LastElsewhere
    WeightOf <- SecondWorse
    RepositoryOf <- TwoRepositories
    IncidentOf <- OneIncident
    Providers = 1
    OperatorStatus = {"RESOLVED", "OPEN"}
    DedupWindow = 2
    EventHorizon = 3
    \* Integrations.
    FailureThreshold = 2
    RecoveryTime = 1
    DispatchHorizon = 5
    MaxFailures = 4
    \* Language server.
    Editors = {"a", "b"}
    Uris = {"x"}
    MaxTexts = 2
    MaxPending = 1
    MaxUnpublished = 1
    \* Advisory database.
    DbProcesses = {"p", "q"}
    BuiltIn = "built in"
    Updates = {"u1", "u2"}
    NoUpdate = "none"
    RecursionLimit = 1
    MaxMishaps = 1
    \* Review of compliance.
    Assessments = {"a1"}
    Controls = {"c1"}
    Organisations = {"o1", "o2"}
    People = {"p", "q"}
    Nobody = "nobody"
    Lifetime = 0
    MaxExceptions = 2
    ReviewHorizon = 1
INVARIANTS TypeOK ServicesTypeOK Isolated NoSilentLoss  RetriesHarmless CapacityKept OthersTold ShowsItsText DatabaseKept ComplianceKept
PROPERTIES QueuesKeepJobs
\* Every part may come to rest.
CHECK_DEADLOCK FALSE
