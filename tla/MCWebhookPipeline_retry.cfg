SPECIFICATION WebhookFairSpec
CONSTANTS
    Deliveries = {1, 2}
    PRs = {"web#1", "lib#7"}
    NoPR = "none"
    PrOf <- TwoCommits
    Capacity = 10
    MaxAttempts = 3
    Network = {}
    WebhookFaults = {"analysis"}
    MaxJobs = 3
    MaxCrashes = 0
CHECK_DEADLOCK FALSE
PROPERTIES EveryAcceptedDecided
