SPECIFICATION AnalysesSpec
CONSTANTS
    \* Taint pass.
    Vars = {"x", "y"}
    Programs <- AllPrograms
    \* Versions.
    MatchVersions <- Scales
    MaxEvents = 3
    NoVersion = NoVersion
    Invalid = Invalid
    \* Scans and their history.
    Sites = {"m", "a1"}
    AnalyzerOf <- MalwareOrSecret
    RankOf <- MalwareWorse
    FingerprintOf <- Itself
    Targets = {"x"}
    Runners = {"p", "q"}
    Thresholds = {3}
    OwnRisks = {0}
    MaxRuns = 2
    MaxTreeEdits = 1
    \* Repair of dependencies.
    FixEntries = {"e1", "e2", "e3"}
    FoundInOrder <- OneTwoThree
    PackageNameOf <- OnePackage
    ManifestOf <- TwoManifests
    OutOfReach = {"e3"}
    DefaultVersion <- NoDefault
    VulnerableVersions <- SecondVulnerable
    FixVersions = {1, 2}
    FirstRequirements <- LooseOrVulnerable
    MaxFixRuns = 1
    MaxManifestEdits = 1
    \* Disinfection.
    Infections = {"t1", "d1", "d2", "d3", "f1", "f2", "c1"}
    NoInfection = "none"
    KindOf <- KindByName
    PathOf <- FontsAtOnePath
    Linked = {}
    Pruned = {"d3"}
    DetectedOnly = {"f2"}
    Spread = {"c1"}
    MaxCleanings = 2
    MaxReturns = 1
    \* Vulnerability scan.
    Commands = {"A", "B"}
    Deps = {"p1", "p2"}
    PackageOf <- PackagesAlike
    Affected = {"p2"}
    Inventories <- OneOrBoth
    MaxScans = 2
    \* Call graph.
    CallFiles <- FileOrder
    Projects <- ProjectsUsed
    Dynamic <- DynamicTargets
    Builtins = {"open"}
    Sinks <- TheSinks
    PartHolds <- HoldsOpen
    \* Flows across files.
    SourceFiles = {"a", "b", "other/a"}
    BaseNameOf <- Bases
    SourceTexts <- AcrossFiles
    SourceCalls <- OneSource
    SinkCategory <- OneSink
    CleanedBy <- OneSanitizer
    MaxCallDepth = 2
    \* Graph of values.
    Variables = {"x", "y"}
    Statements <- LinesToRead
    MaxStatements = 4
    \* Attack paths.
    GraphNodes <- InThisOrder
    GraphEdges <- SomeLinks
    EntryNodes = {"in", "a"}
    PublicNodes = {"net"}
    TargetNodes = {"db", "net"}
    NodeRisk <- Weights
    MaxDepth = 4
    MaxPaths = 2
    MaxResults = 2
    \* Intelligence feed.
    RawRecords <- Deliveries
    Cves = {"C1", "C2"}
    Repositories = {"r1", "r2"}
    Inventory <- TwoDeps
    MaxBatch = 2
    MaxIngests = 3
    \* Comparison of scans.
    Issues = {"e1", "e2", "e3", "key"}
    SiteKindOf <- OneKind
    EvidenceOf <- Shown
    IssueRankOf <- IssueRanks
    IssueRiskOf <- IssueRisks
    SecretIssues = {"key"}
    Lines = {1, 2}
    DepLists <- ShortLists
    AdvisoriesOf <- KnownAdvisories
    \* Ranges of versions.
    RangeVersions <- FewVersions
    RangeParts <- EveryPart
    SampleVersions <- AlwaysTried
    MaxParts = 2
INVARIANTS TypeOK NoSilentMiss NoFalseAlarm AnalysesTypeOK VersionsRight HistoryTells  CleaningTells MissExplained CallsTell FeedTells DataflowTells PathsTell 
\* Every analysis comes to its end.
CHECK_DEADLOCK FALSE
