# A TLA+ verification of Python Hunter

Python Hunter is a security scanner. Its program is `src/src/python_hunter` (about 46,000 lines of Python): a command line, a REST API,
a GitHub App webhook, a language server, and the engines they call. Most of it is sequential analysis of source text; a smaller part
keeps state, runs concurrently and can fail halfway. This project models what decides whether a scan can be believed:

- the background scan jobs and the records they leave, the working copies that concurrent scans share, the webhook, and the record
  store below all of them (`ScanJobs`, `Workspaces`, `WebhookPipeline`, `ScanStore`);
- the services that live as long as a process: job queues, leases and quotas, alerts, integrations, the language server, the advisory
  database, reviews of compliance;
- the analyses whose verdicts the records carry: two taint engines, the call graph, the flows across files, versions of advisories and
  ranges, the vulnerability scan behind its cache, attack paths, the intelligence feed;
- the commands that change a workspace or compare two scans: the repair of dependencies, the disinfection, baselines, snapshots and
  the delta of a pull request.

Each module names the code it translates in its header, `PROJECT.json` maps every definition to its lines, and sections 3 to 6 say how
the two correspond, what was checked and what was proved.

## 1. Inventory

Paths are under `src/src/python_hunter`.

| component | state it keeps | operations | interacts with | what is hard |
|---|---|---|---|---|
| `application/api/scan_jobs.py` `ScanJobManager` | a thread pool and its queue; job records in the store | `submit`, `_run`, `_fail_interrupted_jobs`, `shutdown` | store, `execute_scan` | pool threads against request threads, crash between two store calls, failures inside the failure handler |
| `infrastructure/storage/scan_store.py` `ScanResultStore` | one JSON file per record, `audit.jsonl` | `save_*`, `get_*`, `list_*`, `append_audit` | every service | one lock per call only; read-modify-write by the callers; a crash inside a write |
| `infrastructure/repository/repository_manager.py` `RepositoryManager` | `temp_dirs`, `temp_files` shared by all scans | `acquire_target`, `cleanup`, the git watchdog | orchestrator, git | one instance serves all pool threads, `cleanup` removes everyone's clones |
| `application/orchestrator/scan_orchestrator.py`, `interfaces/cli/commands/scan.py` | the findings of a run, the record of it | `run_scan`, exit code, gate, regressions | manager, engines, store | the directory changes under the scan, an analyzer that raises, scans saved in another order than they began |
| `domain/github/webhook_handler.py`, `webhook_queue.py` | replay cache; jobs, active jobs of pull requests, FIFO, dead letters | `parse_event`, `enqueue_event`, `process_next` | analysis | redeliveries, eviction, retries, superseded commits, one job processed per delivery |
| `infrastructure/scaling/distributed_queue.py` `PriorityJobQueue` | heap, dead letters | `enqueue`, `dequeue`, `cancel_job`, `handle_failure` | workers | cancellation against delivery, retries, priorities |
| `domain/operations/queue.py` `SecurityJobQueue` | heap, job table, dead letters | `enqueue`, `pop_next`, `handle_job_failure` | `SecurityWorker` | re-enqueued ids, retries |
| `infrastructure/scaling/locks.py`, `quotas.py`, `bulkhead.py`, `sandboxing.py` | leases with expiry, counters, directories | acquire, reserve, release | workers | a lease that expires while its holder works, counters at their limits, unbalanced releases |
| `domain/operations/events.py`, `alerts.py`, `incidents.py`, `notifications.py` | deduplication tables, alerts, incidents | publish, create or deduplicate, correlate | each other | what deduplication swallows |
| `domain/integrations/engine.py` | circuit breaker, sync checkpoints | `dispatch_event` | Jira, Slack and others | failures, the half-open breaker |
| `interfaces/lsp/server.py` | open documents | notifications, publication | editors | several clients of one table, read under a lock and used after it |
| `domain/dependencies/advisory_db.py` | two files and their backups | open, update, roll back | every `sca` scan of a user | a crash between two files, no lock between processes |
| `domain/compliance/assessment.py` | assessments, exceptions, gaps | create, evaluate, review, request, approve | findings | the order of evaluation, review, approval and expiry |
| `application/use_cases/analyze_vulnerabilities.py`, `infrastructure/vulnerabilities/providers/` | cache in memory and on disk | `execute`, `query` | the OSV service | failures cached as answers, entries never expire, two processes |
| `domain/vulnerabilities/version_matcher.py`, `domain/dependencies/semver_engine.py`, `version.py` | none | events to intervals, versions to ranges, conflicts | advisories | ends of intervals, zeros, pre-releases |
| `domain/intelligence/` | links of aliases, records, knowledge base, impact graph | ingest, correlate, reassess | feeds | records that turn out to be one after they were stored |
| `domain/taint/engine.py`, `advanced_engine.py` | what they know of each variable | one pass per file | orchestrator | what branches, loops, sanitizers and equal names make them lose |
| `domain/callgraph/engine.py`, `domain/semantics/`, `application/services/workspace_scans.py` | symbols, calls, cycles, flows | index, resolve, search | orchestrator | the order of sets and files, equal names |
| `domain/correlation/attack_path_engine.py` | none | find paths, take nodes away | security graph | three limits on one search |
| `application/use_cases/fix_dependencies.py`, `domain/dependencies/fixer.py` | the manifests | analyse, choose, rewrite | git | a write that fails after it was reported |
| `domain/malware/cleaners/polinrider_cleaner.py` | the files of a repository | six cleaning steps, quarantine | detector | partial and repeated cleaning |
| `domain/baseline/`, `domain/history/`, `domain/github/pr_security_engine.py`, `pr_dependency_diff.py` | a kept scan | compare | gate | when two findings are the same one |
| parsers, pattern rules, secrets, infrastructure as code, reports, command line, dashboard | none | functions of one text | | section 7 |

How they interact: the REST API, the webhook and the command line are entry points. The API hands a scan to `ScanJobManager`, whose
pool threads call `SecurityApplicationService.execute_scan`; that runs `ScanOrchestrator.run_scan`, which acquires a working copy,
passes it to the engines one after the other and cleans up. The webhook runs the same scan through its own queue on the event loop.
Everything that outlives a process goes through one `ScanResultStore` on disk, the advisory database and the vulnerability cache
excepted, which are files of their own. The priority queue, leases, quotas, breakers, alerts and assessments are constructed by
`SecurityApplicationService` (`security_app_service.py:156-216`) and called by tests and single commands only: their modules let any
number of callers call them in any order.

What makes each component correct, in a sentence: a submitted scan is executed once, decided once and never forgotten; a scan reads
the whole of its own clone and nothing is left of it; of the commits of a pull request the newest one's analysis stands; a reader
never sees part of a record; a retried job runs a bounded number of times and is never in two places; a lease has one holder and a
counter counts what is held; an alert tells the worst that was reported; a provider that fails is left alone; an editor sees the
diagnostics of its own text; an update that was confirmed is there after a crash; an approval is somebody else's and of what that
person saw; a flow, a vulnerability, a cycle or a path that is there is reported unless a reason that can be named hides it, and
one that is not there is not; what is said to be new, fixed, repaired or removed is.

## 2. Plan

Done, in this order:

| module | what it is | run through |
|---|---|---|
| `JobLifecycle` | abstract: what a client of the job manager is promised | `ScanJobs`, as `Promise` |
| `ScanJobs` | job manager, its pool, the records and the audit log | `MCScanJobs`, `MCFaults` |
| `Workspaces` | working copies of scans that share one manager | `MCWorkspaces`, `MCServices`, `MCEndings` |
| `WebhookPipeline` | replay cache, event queue, installation and pull request records | `MCWebhookPipeline`, `MCFaults`, `MCServices`, `MCEndings` |
| `AtomicRecords`, `ScanStore` | abstract records that are replaced as a whole; the temporary file and rename, the lock, readers, crashes | `MCEndings` |
| `TaintVisitor` | the visitor beside the real executions | `MCTaintVisitor`, `MCAnalyses` |
| `RetryQueue` | abstract: what both job queues promise about a job | `PriorityJobQueue`, `SecurityJobQueue` |
| `PriorityJobQueue`, `SecurityJobQueue`, `ScanCapacity`, `AlertChain`, `IntegrationEngine`, `LanguageServer`, `AdvisoryDatabase`, `ComplianceReview` | the services | `MCServices` |
| `VersionMatch`, `VersionRanges`, `VulnerabilityScan`, `IntelligenceFeed` | versions, advisories and where they come from | `MCAnalyses` |
| `ScanHistory`, `ScanComparison` | one scan with its verdict; two scans | `MCAnalyses` |
| `DependencyFix`, `Disinfection` | the commands that change a workspace | `MCAnalyses` (and `MCDependencyFix`, `MCDisinfection`) |
| `CallGraphs`, `ProgramFlows`, `DataflowGraph`, `AttackPaths` | graphs and their searches | `MCAnalyses` |
| `QueueLemmas`, `ScanJobsProofs`, `WorkspacesProofs`, `WebhookProofs`, `ScanStoreProofs`, `ServicesProofs`, `EngineProofs`, `AnalysesProofs` | theorems | |

`ScanJobs` and `WebhookPipeline` take every call of the store as one step. That they may is what `ScanStore` shows: its steps implement
`AtomicRecords`, in which a record is replaced at once. `ScanJobs` takes the scan as one step that may raise; `Workspaces` is that
step in detail, and says what two of them do to each other; `ScanHistory` is what the analyzers make of the directory meanwhile.
`VersionRanges` is what `ScanComparison` takes as given when it asks for the advisories of a version. `CallGraphs`, `ProgramFlows`,
`TaintVisitor` and `DataflowGraph` are four engines over the same text that share nothing.

Every safety property and every type invariant of a passing run is stated by a theorem of section 5, for all values of the constants. To
come are further parts of the program (section 7), not further proofs of what is there.

## 3. The modules and the code

Three things hold for all of them. What a lock covers, or what runs on one thread without an `await`, is one step; what it does not
is several. Texts are model values: which pattern a text matches, which version a name stands for, is a constant. And a definition named
`...AsText`, `...Any`, `...Unchecked` or the like, directly before the one it resembles and marked "Mutant" in its comment, is a wrong variant
that a property is known to reject; no behaviour uses it.

### Records, jobs, working copies, webhook

**ScanJobs** (`application/api/scan_jobs.py`, `execute_scan` of `security_app_service.py`). `scans` are the `scan_<id>.json` by their
status, `audit` the `SCAN_EXECUTED` lines; `submitting`, `queue` and `worker` the request threads between `save_scan` and
`executor.submit`, the executor's queue, its threads. `Start`, `Sweep`, `Serve` are `__init__` and `_fail_interrupted_jobs`, one record at a
time; `SubmitSave` and `SubmitEnqueue` the halves of `submit`; `Take`, `MarkRunning` ... `AuditFailure` are `_run`, one step per store
call, with `execute_scan` between; `Shutdown`, `Exit`, `Crash` are `shutdown(wait=False, cancel_futures=True)`, the interpreter's wait for
threads, and a stop at any step. `Faults` says what may raise. The record that the failure handler saves was made before the scan; that
is why it can overwrite a finished result.

**Workspaces** (`repository_manager.py`, `run_scan`). A scan goes through `mkdir`, `askpass`, `clone`, `checkout`, the passes (`Read`, and
`Graph`, the last) and `cleanup`. `temp` is the pair of unlocked lists of the shared manager; a scan in `cleanup` has a `cursor` into the
list it walks, so that two cleanups interleave item by item as two `for` loops over one list do. `hollow` is a directory whose files
`rmtree` has taken but which still exists. The detectors take a missing or hollow directory for an empty one (`saw`).

**WebhookPipeline** (`webhook_handler.py`, `webhook_queue.py`, `process_github_webhook`). `Receive` and `Skip` are `parse_event`;
`RecordInstallation`, `Enqueue`, `Take`, `Analyse` and `AnalysisFails` the rest of a request, which runs without an `await`, so that one
request at a time is in progress. `tracked` is the replay cache, `latest` `_pr_active_jobs`, `work` and `dead` the queue and the dead
letters, `listed` and `timeline` the two records on disk. GitHub is the environment: it sends a delivery again, or out of order.

**ScanStore** (`scan_store.py`). `MakeTemp`, `Write`, `Replace` and `Undo` are `_write`; `BeginRead`, `Look` and `EndRead` are `_read` and
`_read_all`, a file at a time in any order; `Crash(p)` stops a process. Two processes on one directory exclude each other by nothing but
the rename.

### Services

| module | code | state and actions |
|---|---|---|
| `PriorityJobQueue` | `distributed_queue.py` | `heap`, `job`, `dlq`; one action per method, and `PopDead` apart from the `EnqueueJob` that follows it, as the code leaves that to the caller. Workers and an operator are arbitrary |
| `SecurityJobQueue` | `domain/operations/queue.py` | the job objects, of which two may bear one id; a handler may enqueue while it runs |
| `ScanCapacity` | `locks.py`, `quotas.py`, `bulkhead.py`, `sandboxing.py` | one repository, one organisation, one pool. Each worker takes the four in the order of the platform document, may ask for its lease again, and may die with all it has |
| `AlertChain` | `events.py`, `alerts.py`, `notifications.py`, `incidents.py` | `Publish` is the bus with its subscriber, the alert engine and the dispatch; `SetAlert` an operator; `CorrelateAlerts` all open alerts at once |
| `IntegrationEngine` | `integrations/engine.py` | `Dispatch` asks the breaker and begins to send; the provider answers true, false or raises, and time goes by meanwhile |
| `LanguageServer` | `lsp/server.py` | a thread and an editor for each client; `Edit`, `Refresh` and `Forget` change or read the table under the lock, `PublishDiagnostics` comes after it |
| `AdvisoryDatabase` | `advisory_db.py` | two files and two backups, whole, torn or absent; every copy is two steps, so that a crash may come in the middle, and every write may raise |
| `ComplianceReview` | `compliance/assessment.py` | one action per method; what people call in which order is arbitrary. `ExpiredBefore` is the marking that happens on the way to the first exception that holds |

### Analyses and commands

| module | code | state and actions |
|---|---|---|
| `TaintVisitor` | `domain/taint/engine.py` | `varMap`, `seen` and `reported` are `var_map`, `visited_functions` and `discovered_flows`; one action per kind of statement, two for a branch and for a loop. Beside them `reals` follows the program as it really executes, over all paths; `shortcuts` records where the visitor may lose track, and influences nothing |
| `DataflowGraph` | `domain/taint/advanced_engine.py` | the graph grows statement by statement (`VisitAssign`, `VisitSink`, `VisitDef`), beside what the statements really do (`origins`, `truly`); `EvaluateFlows` is the breadth-first search and the verdict |
| `CallGraphs` | `domain/callgraph/engine.py` and its two use cases | `IndexSymbols`, `ResolveImports`, `ExtractCalls` are a pass each; Tarjan's recursion is a stack of open calls, whose neighbours are met in any order, one step each |
| `ProgramFlows` | `workspace_scans.py`, `domain/semantics` | `ReadSource` reads a file in the order of `os.walk`; `Propagate` is one call of `_propagate_taint`, in any order, as none depends on another |
| `VersionMatch` | `version_matcher.py` | `ReadEvent` is a turn of `_build_intervals`; `Judge` is `evaluate` on any dependency |
| `VersionRanges` | `semver_engine.py`, `version.py` | a range is built part by part and asked of a version, or of a conflict between its first part and the rest; what it means is written beside it from what the operators stand for |
| `VulnerabilityScan` | `analyze_vulnerabilities.py`, `cache.py`, `osv.py` | commands with a cache file in common, each with its memory, asking for one dependency at a time; the database learns and fails |
| `IntelligenceFeed` | `domain/intelligence` | `Ingest` is a delivery, with the joining of aliases; `Correlate` and `Reassess` the two ways to the impact graph |
| `AttackPaths` | `attack_path_engine.py` | the depth-first search as a recursive function with its three limits (depth, results, paths of a pair); `Simulate` takes any set of nodes away |
| `ScanHistory` | `scan_orchestrator.py`, `scan.py`, `presentation/policy.py`, `policy_evaluator.py`, `scan_queries.py` | a run is a stage per analyzer, while `EditTree` changes the directory; `steady` and `ever` are the sites that were there all along, and at some time |
| `ScanComparison` | `domain/baseline`, `domain/history`, `pr_security_engine.py`, `pr_dependency_diff.py`, `vulnerability_intel.py` | the code changes between the scan that was kept and the one compared; an issue that moves stays that issue, which none of the four notions of identity knows |
| `DependencyFix` | `fix_dependencies.py`, `fixer.py`, `fix.py` | `Analyze` reads and chooses, `FixManifest`, `ManifestUnreadable` and `WriteFails` are the loop over manifests, `EditRequirement` somebody else |
| `Disinfection` | `polinrider_cleaner.py`, `polinrider_detector.py` | six steps, those that walk the tree file by file; every file may raise; what was removed may come back before the next cleaning |

## 4. What the runs check

`MCFaults`, `MCServices`, `MCEndings` and `MCAnalyses` bring components together that share no state: each behaviour is one of a single
`part`, chosen in the initial state, while the others stay as they began. So the states are the sum of the parts, every invariant is
checked in each of them, and nothing is lost, as no interleaving of two parts could differ from the two alone.

| run | properties | what it shows |
|---|---|---|
| `faults` | `TypeOK` `HeldOnce` `AuditAgrees` `JobsAccounted` `NewestWins` | jobs and webhook with everything that may raise, restarts, reordering, redelivery and a replay cache of one: no job is with two threads, the audit log never contradicts a record, webhook jobs stay accounted for, and only the newest commit of a pull request can run and stands |
| `jobs_sound` | `NoLostJob` `Lifecycle` `KeepsPromise` `EveryJobDecided` | while the store works: no accepted job is forgotten over a restart, records move only forward, the manager implements `JobLifecycle`, and every job is decided |
| `endings` | `TypeOK` `OneStrayPerCrash` `LockHeld` `Atomic` `EverythingEnds` | two threads of the server and the command line on one directory see whole records only and leave one temporary file per crash; every save, every scan beside another one, and every webhook request ends |
| `services` | `TypeOK` `ServicesTypeOK` `Isolated` `NoSilentLoss` `Tidy` `RetriesHarmless` `CapacityKept` `OthersTold` `ShowsItsText` `DatabaseKept` `ComplianceKept` `QueuesKeepJobs` | each service keeps its promise for as long as its process lives; both job queues implement `RetryQueue` |
| `analyses` | `TypeOK` `NoSilentMiss` `NoFalseAlarm` `AnalysesTypeOK` `VersionsRight` `HistoryTells` `FixTells` `CleaningTells` `MissExplained` `CallsTell` `FeedTells` `DataflowTells` `PathsTell` `ComparisonsTell` | what is there is told or missed for a reason that is named, and what is told is there |
| `jobs_audit_overwrite` | `Lifecycle` **violated** | an audit append that raises turns a completed scan into a failed one |
| `workspace_isolated` | `Isolated` **violated** | with two pool threads (the default) a scan that ends removes the clone another one reads |
| `webhook_retry` | `EveryAcceptedDecided` **violated** | a job put back for a retry waits for a delivery that may never come |
| `taint_names` | `NoMissedFlow` **violated** | the second function of a name, in whichever file, is never looked into |
| `versions_last` | `LastAffectedCounts` **violated** | an advisory that ends with `last_affected` affects no version |
| `fix_vulnerable` | `NothingLeftToFix` **violated** | a pinned version with a known vulnerability is never fixed, and the command says that all is clean |
| `clean_quarantine` | `NothingDestroyed` **violated** | a second font at a path takes the place of the first in quarantine |

The properties with several parts, each a definition of its own:

- `RetriesHarmless`: records of a pull request move forward only, and what is answered as a duplicate was accepted before. Only without
  crashes and reordering; with them both are false, as the code keeps its cache in memory.
- `CapacityKept`: `LeaseHolds` (who has a lease that has not run out is the one in the table, so alone) and `SlotsAccounted` (the counters
  are what workers hold, the dead included).
- `OthersTold`: `OncePerWindow`, `WorstKnown` and `IncidentsBacked` of the alerts, and `BreakerProtects`.
- `DatabaseKept`: `UpdatesDurable`, `AlwaysOpens`, `WorksOnWhole`. What two processes at once may lose is excused, and named in section 6.
- `ComplianceKept`: `ApprovalStands` (by somebody else, with the score that person saw), `ExcusedRightly`, `GapsTell`.
- `VersionsRight`: `VerdictRight`, `RangesRight`, `ConflictsRight`. `HistoryTells`: `ExitTells` and `RegressionTells`. `FixTells`:
  `ReportIsTrue` and `RunsSettle`. `CleaningTells`: `ResidueExplained` and `ResultIsTrue`. `CallsTell`: `CyclesRight`, `ReachExplained` and
  `FlowsTell`. `FeedTells`: `KnowledgeAgrees`, `OvertakenByAlias`, `FoundAgain`. `ComparisonsTell`: `DiffTells`, `SnapshotsTell`,
  `PullRequestsTell`, `DependenciesTell`.

Every configuration but that of `taint_names` says `CHECK_DEADLOCK FALSE`: a server may be down for good, every scan may be done, an
analysis comes to its end.

### Bounds, and why they are enough

- Jobs: two jobs, two threads, two starts (three jobs without faults). That is what it takes for a job to be with two threads or overtaken;
  the second start sweeps what the first left. `faults` uses symmetry of jobs and threads; `jobs_sound` has liveness and uses none.
- Working copies: three scans in a row, or two at once: the second of two is enough to clear a list the first walks.
- Webhook: two pull requests, two commits of one of them; two attempts, so that a first retry and a dead letter both happen (three, the
  default, in `webhook_retry`); a cache of one entry in `faults`, so that eviction happens at once, and of five where it must not.
- Store: two saves of two records are enough for a reader to see a mixture, a third thread to contend for the lock of one process and a
  second process to ignore it.
- Queues: three jobs, two workers, two attempts, a replay. Capacity: two workers, a pool of one, an organisation of up to two. Alerts: three events,
  two conditions on two repositories that share an incident id. Breaker: a threshold of two and four failures, so that it opens, half opens and opens
  again. Editors: two, one document, two texts. Database: two processes, two updates, one mishap of each kind of run. Compliance: one
  assessment, one control, two organisations, two people, two exceptions that last for a tick; two controls or two assessments alone also hold.
- Taint: all programs of seven shapes on two variables over statements that have every rule of the visitor, and two files of one
  function each. A loop's body is followed for the two rounds the visitor makes (`engine.py:268`); a flow that needs three is beyond it.
- Versions: three versions and up to three events in any order, every dependency and constraint on them; ranges of up to two parts, each with
  any of nine operators and nine ways to write a version. Vulnerability scan: two commands, two versions of one package.
- History: two runs by two runners on one target, one edit of the directory at a time. Fix: three entries in two manifests, two versions. Cleaning: seven
  infections of every kind, two cleanings.
- Call graph: all 512 ways in which three modules may call each other, and 36 with equal and prefixed names. Flows: three files, two with one
  base name, calls two deep (eight in the code). Values: two variables, four statements (five also hold). Paths: five nodes, 1024 graphs,
  limits of four nodes, two results and two paths, so that each strikes. Feed: five records of two packages in a chain of four identifiers, deliveries of
  two, three of them. Comparisons: four issues, two lines, lists of up to two dependencies.

### Fairness

- `ScanJobs`: weak fairness of each pool thread, of a request that has saved its record, of the sweep and of the exit. Operating system
  threads that can run do; nothing makes a client submit or a process start, stop or crash.
- `endings`: weak fairness of each scan's steps once it has begun (`git` is bounded by the manager's watchdog), and of the webhook request in
  progress. GitHub need not send anything: that is the point of `webhook_retry`. Strong fairness of a save: a thread that waits for the lock
  finds it free again and again, and nothing in `_write` keeps it for ever; with weak fairness alone one thread could be passed over without
  end, which `threading.Lock` does not rule out in principle and the scheduler does in practice.
- The other modules state no fairness and no liveness: an operator, an editor, a provider or a feed owes nothing.

## 5. What is proved

The theorems hold for every value of the constants that satisfies the modules' assumptions: any number of jobs, threads, scans,
processes, records and programs, and any bound. TLC checked each inductive invariant on the runs' instances before it was proved.

| theorem | states | assumes, beyond the module's `ASSUME` |
|---|---|---|
| `ScanJobsProofs!TypeCorrect`, `ExecutedOnce`, `AuditCorrect` | `TypeOK`, `HeldOnce`, `AuditAgrees` | nothing: any faults |
| `ScanJobsProofs!NothingLost` | `NoLostJob` | nothing: the property itself speaks of saves that work |
| `ScanJobsProofs!LifecycleKept` | `Lifecycle` | `"audit" \notin Faults` |
| `WorkspacesProofs!TypeCorrect` | `TypeOK` | nothing |
| `WorkspacesProofs!AloneIsolated`, `AloneComplete`, `AloneTidy` | `Isolated`, `NoSilentLoss`, `Tidy` | `MaxConcurrent = 1` |
| `ScanStoreProofs!TypeCorrect`, `OneSaveAtATime`, `FewStrays` | `TypeOK`, `LockHeld`, `OneStrayPerCrash` | nothing |
| `ScanStoreProofs!Implements` | `Atomic` | nothing |
| `ScanJobsProofs!PromiseKept` | `KeepsPromise` | `"audit" \notin Faults`, finitely many threads |
| `WebhookProofs!WebhookTypeCorrect`, `EveryJobAccounted`, `NewestAlwaysWins` | `WebhookTypeOK`, `JobsAccounted`, `NewestWins` | nothing: any faults, crashes and order |
| `WebhookProofs!RecordMovesForward` | `ForwardOnly` | `Orderly`: no crash, deliveries in order, a replay cache with room for all |
| `WebhookProofs!DuplicatesBecameJobs` | `DuplicateWasAccepted` | no crash, only analyses fail |
| `WebhookProofs!RetriesDoNoHarm` | `RetriesHarmless` | both of these |
| `ServicesProofs!CapacityAlwaysKept`, `OthersAlwaysTold`, `ComplianceAlwaysKept`, `EditorsSeeTheirText`, `DatabaseAlwaysKept` | `CapacityKept`, `OthersTold`, `ComplianceKept`, `ShowsItsText`, `DatabaseKept` | nothing |
| `ServicesProofs!QueuesAlwaysKeepJobs` | `QueuesKeepJobs` | nothing |
| `ServicesProofs!ServicesTyped` | `ServicesTypeOK` | nothing |
| `ServicesProofs!ServicesKeepTheirPromises` | all other properties of the run `services` | `MaxConcurrent = 1`, and those of `RetriesDoNoHarm` |
| `EngineProofs!TypeCorrect`, `NothingMissedSilently`, `NothingInvented` | `TypeOK`, `NoSilentMiss`, `NoFalseAlarm` | nothing: any programs |
| `EngineProofs!DataflowAlwaysTells` | `DataflowTells` | nothing: any documents |
| `EngineProofs!CallGraphAlwaysRight` | `CyclesRight`, `ReachExplained` (two parts of `CallsTell`), `GraphTypeOK` | nothing: any documents, sets walked in any order |
| `EngineProofs!FlowsAlwaysTold` | `FlowsTell` (the third part of `CallsTell`), `FlowTypeOK` | nothing: any texts, order of files and depth |
| `EngineProofs!PathsAlwaysTell` | `PathsTell` | nothing: any graph and limits |
| `AnalysesProofs!HistoryAlwaysTells`, `FixAlwaysTells`, `CleaningAlwaysTells`, `MissesExplained`, `ComparisonsAlwaysTell`, `VersionsAlwaysRight`, `FeedAlwaysTells` | `HistoryTells`, `FixTells`, `CleaningTells`, `MissExplained`, `ComparisonsTell`, `VersionsRight`, `FeedTells` | nothing |
| `AnalysesProofs!AnalysesKeepTheirPromises` | these, those of `EngineProofs` and with them `CallsTell`, in the composition that the run `analyses` checks | nothing |
| `AnalysesProofs!AnalysesTyped` | `AnalysesTypeOK` | nothing |

What the modules assume is what the code gives them: sets that a process holds are finite, sentinels are no values, a table has an entry for
every key (`AlertChain`, `ComplianceReview`, `ScanComparison`, `DependencyFix`), loading may restore at least once before Python's recursion ends
(`AdvisoryDatabase`), a part of a range has one or two clauses of an operator and a version (`VersionRanges`), a record has finitely many
aliases (`IntelligenceFeed`), the nodes of a graph come in some order, each once, and with a weight (`AttackPaths`), a file has a sequence of lines
and the depth is a number (`ProgramFlows`), there is a target to scan (`ScanHistory`). `CallGraphs` assumes that a document has finitely many definitions and calls,
that names are not empty, and that a document whose name is a path calls nothing: `infrastructure/ast/parser.py` names one so only if it could not be parsed.

The arguments:

- **Jobs.** None of the properties is inductive by itself. `IInv` adds what a thread at each of its steps
  knows of its record (`WorkerOK`), that what waits to be run is `QUEUED` (`WaitingOK`: otherwise `SubmitSave`, which needs an `ABSENT`
  record, could put a second copy of a job into the pipe), and what each state of the process leaves alive and has yet to sweep
  (`ServerOK`). `AuditAgrees` rests on `WorkerOK`: a thread about to append `SUCCESS` has just saved `COMPLETED`, no line about its job
  is there yet, and nobody else writes that record because of `HeldOnce`. `QueueLemmas` has what `Append` and
  `Tail` do to a sequence without duplicates.
- **Working copies.** With one scan at a time the lists hold entries of the active scan only (`Alone`), and whatever is on disk is still
  ahead of the cursor of the scan that made it (`Owns`). Both are false with two scans, and `workspace_isolated` shows how.
- **Webhook.** `WInv` says of each job where it is and how many attempts it has left (`JobsAccounted`, `AttemptsLeft`), that of one pull
  request's jobs only the one in `latest` may still run (`OnlyNewestRuns`), that this is the last of them (`LatestIsLast`), and that once it
  has been analysed nothing older is written over it (`NewestStands`). It holds with any fault, crash and order. That a record only moves
  forward needs `OrderInv` and with it `Orderly`: the replay cache knows every delivery that was sent (`RemembersAll`), so a redelivery makes no
  second job, and jobs are numbered as the events happened (`JobsInOrder`). With a crash or out of order a record
  can go back, as section 4 says of `RetriesHarmless`.
- **Store.** The refinement maps `files` to `record` and what a reader has collected to `seen`; only `Replace` changes the first, and
  every other step is a stutter or a reader's. That one save at a time is under way in a process (`LockHeld`) gives the count of stray
  files: a crash adds at most the temporary file of the lock's holder, and a save that raises adds none.
- **Taint.** While no shortcut was taken, every variable that may really be raw is live in `varMap` (`Covered`), nothing live carries a
  sanitizer's mark (`Unmarked`), and every frame of the stack covers what its branch or loop left behind (`FrameCovered`), however
  deep they are nested. For the converse, `ExactSoFar`: in straight code the stack is empty and what the visitor takes for live is raw in every
  real state (`Certain`). The proof of the first found a shortcut that TLC's programs had not reached and the model did not list: a sanitizer's mark that
  stays on a variable which only may be tainted (`engine.py:230`). It was added to the model, and programs that reach it to the run.

- **Capacity.** A lease in the table belongs to the worker that was granted it last (`LeaseIsGrant`); whoever thinks to have one that has not run
  out is that worker. The counters are sums over workers, so `SlotsAccounted` is carried by what taking one away does to a cardinality.
- **Alerts and integrations.** The index points to an alert of its condition whose weight is the worst that was reported (`IndexTells`), which
  exists because weights are bounded (`WeightsBounded`). The breaker's counter is at least the failures in a row (`CountsInARow`), so whoever
  sends after the threshold does so after the recovery time (`CalledAfterRecovery`).
- **Queues.** Both implement `RetryQueue` by a function from a job's record and place to its phase. `PlacesTell` and `OpsPlace` say that the place
  a job is in agrees with its status and its attempts with the number of times it was handed out; without the latter the bound on runs
  is not inductive.
- **Compliance.** Who approved an exception is somebody else also after it expired (`OthersApprove`), as an expired one can be named in an evaluation
  that was made before (`ExcusesThere`).
- **Language server.** The last message on its way about a document has the text of the editor, and where there is none the table has it
  (`TableFollows`); the same for what is published (`TextFollows`). `LastFits` of `QueueLemmas` says what `Append` and `Tail` do to such a last message.
- **Advisory database.** `Durable` says for each step of a process where the confirmed updates are at this moment: in memory, in the file, or in
  the backup (`Respects`). Used in turn (`Turns`), two of the four files are whole at any step (`InTurn`), and without mishaps the first
  two agree (`Smooth`).
- **Scan and history.** What was there all along (`steady`) was found, or skipped, once the stage of its analyzer is over (`UnderWay`), and no two
  scans began at once (`BegunApart`), so the last two of a target are two.
- **Repair.** `EntryTells` relates, for each entry, the report, the manifest as it was read, and as it is, before and after its manifest's
  turn. Which loose entry of a name decides needs the least index with a property: `EarliestOf`, not a recursion.
- **Disinfection.** A step that is over has left nothing that it removes and may (`ToRemove`), but for what raised.
- **Vulnerability scan.** An answer in the file or in a memory is a true one, but for what a failed query left and what was asked before the advisory
  came out (`CachesTell`); a scan then knows of what it has asked (`AnswersOf`).
- **Comparisons.** The state keeps what was told of the code as it is (`ComparisonInv`), so the work is in the operators: that a set of keys tells
  about issues, that the greatest index of a package is one, and that the score, a sum over a set, falls only if an issue came. A sum is the
  community modules' `MapThenSumSet`, a recursive function on subsets; that it exists and is additive is proved by induction on
  cardinality with `CountUp` of `QueueLemmas`, which takes a set of numbers where the library's induction takes an operator.
- **Versions.** `MatchInv` says that the intervals closed so far are the pairs of events, if these alternate in order. Then versions rise with
  the events (`VersionsRise`), and being vulnerable, being in an interval, and lying between an introduction and the fix after it are one
  (`VulnerableIsInside`, `AffectedIsInside`); what is said of constraints follows as they are intervals too. Of ranges: tuples of
  versions are compared from the left (`BeforeFromLeft`), that is as the numbers `Place` (`OrderIsMeant`), and the upper bounds of carets
  and tildes are agreement of the first numbers (`BelowTheNext`). If specifiers without strict bounds leave a version, they leave the greatest of their
  lower bounds (`NamedIsLeft`), which is one of those that `are_conflicting` tries.
- **Intelligence feed.** Links lead both ways, so the names that the search of `get_aliases` reaches are a group, and two groups are the same or have nothing in
  common (`WalkEnds` of `QueueLemmas`: as many steps as there are names reach all of it). So the records of one delivery have no name in common, the order
  in which they are registered does not matter, and what a delivery does not touch stays as it was.
- **Attack paths.** The search from a path is a function of longer paths only: that it exists, finds real paths, each once, and one at least if there is any
  (`FoundRight`), goes by induction on how much longer a path may become. The limit on results stops a level only when it has found something, and that on paths
  takes one at least of each pair (`TakesSome`), so every pair of an entry and an asset is told of (`TellsOf`, kept by each turn of the two loops). A simulated
  repair then shows nothing new unless a limit had struck, as its paths are paths of the whole graph.
- **Graph of values.** A source that a variable may hold raw, and that was in no operand passed over, leads to the node of the variable (`TrueOnesLead`): every edge
  that a statement adds prolongs such ways, and a way with more steps than the graph has edges can be shortened, so the bound of the search loses none. For
  the converse, `RawOnesTrue`: there is a map from nodes to the sources that they may pass on raw such that an edge that touches no sanitizer passes on
  what it is given, and the node of a variable that is not stale has no more than the variable holds. So a way without a sanitizer begins at a source that
  really reaches the sink it ends in, but for what stale nodes mislead.
- **Call graph.** Tarjan's search is the textbook algorithm with its recursion as a stack of open calls, and the proof follows it (`Searching`): the
  numbers rise along the stack, an earlier node on it leads to every later one, and each leads to an open one no later than itself (`Stacked`); the lowlink of an open node is
  the number of a node on the stack that it leads to, and an edge already passed, from a node of the stack to another, is bounded by the lowlink of an open node
  that is no earlier than the last open one before it (`LowsFit`); what is off the stack leads to nothing on it. So if a node closes with its own number for
  lowlink, all that is taken off with it leads to each other and to nothing below: it is one component. That `Closure`, which takes as many steps
  as there are nodes, is the same as leading to is `WalkEnds` of `QueueLemmas`, which the feed uses too. `ReachExplained` needs only that every edge
  begins at the name of a module.
- **Flows across files.** The functions known are those of the kept definitions, which is read off the loop over the lines by `CountUp`: after so many lines the table has the
  last definition of each name so far, with the calls up to there. While the search goes on, each flow that is to be told either is, or is to be told by a call that is pending. The search
  follows paths without a repetition, `CalledWithin` steps of any kind: a chain of calls that repeats a function can be shortened, so both come to the
  same functions within the depth.
- **Types.** `AnalysesTypeOK` needs little that is not in the invariants above: that what stood all along in a scan stood there at some time, and that a
  scan began before now (`HistoryBounded`); that a fix is one of the versions its events name (`FixesAreOfEvents`).
- **Compositions.** A behaviour of `MCServices` or `MCAnalyses` is one of every part (`EachPartBehaves`, `EachAnalysisBehaves`), so the theorems of the
  parts add up.

Some steps changed the models: `WorksOnWhole` of the database was strengthened to what the proof showed, `DependencyFix` takes the first loose entry by
its index and `VersionMatch` the first fix, `DataflowGraph` the first operand with a node by its index, `AdvisoriesOf`, edges and constraints, the records
of the feed and the loops of the attack paths are written so that the provers can read them. So are the fields of Tarjan's search in `CallGraphs` and the reading
of lines in `ProgramFlows`, where a recursive function takes the place of a fold. None of it changes the behaviours that TLC explores.

Only model-checked, because liveness under fairness is out of this prover's reach: `EveryJobDecided`, `EverythingEnds`. What recursive
functions and closures compute is proved by induction over a number, with `CountUp` of `QueueLemmas`: the library's induction theorems take an operator
as a parameter, which the provers cannot instantiate. The seven runs that end in a violation state what is false.

## 6. Where the code and its documents differ

Shown by a run (`PROJECT.json`, findings):

1. `scan_jobs.py:57`: a completed scan becomes a failed one, without its findings, when the audit append raises. (`jobs_audit_overwrite`)
2. `repository_manager.py:374`: `cleanup` removes the clones of the scans that still run. (`workspace_isolated`)
3. `security_app_service.py:405`: a retry waits for the next delivery, which need not come. (`webhook_retry`)
4. `domain/taint/engine.py:275`: the second function of a name is skipped. (`taint_names`)
5. `version_matcher.py:169`: `last_affected` closes an interval without keeping it. (`versions_last`)
6. `fix_dependencies.py:51`: a `TypeError` that is swallowed drops every advisory. (`fix_vulnerable`)
7. `polinrider_cleaner.py:228`: the quarantine has one place per path. (`clean_quarantine`)

Met while modelling, and visible in the models without a run of their own:

- **Working copies.** `repository_manager.py:377`: `temp_dirs.clear()` also forgets a directory registered after the loop ended. `:385`: the
  script of an askpass helper is removed, the directory made for it never is. `scan_orchestrator.py:64`: a scan whose clone was removed under
  it completes with no findings.
- **Webhook.** `webhook_handler.py:54`: the replay cache is in memory, so a restart accepts an old delivery again; `:147`: an id is
  recorded before the steps that can fail. `webhook_queue.py:31`: a restart loses the dead letters. The analysis of a pull request is called
  without findings, so every pull request passes.
- **Taint visitor.** `engine.py`: `:390` a clean left operand hides a tainted right one; `:243` what the inner of two branches left is lost at the
  end of the outer one; `:181` an augmented assignment keeps only what is surely tainted; `:211` a sanitizer marks its argument, for any context;
  `:268` two rounds of a loop. These are the shortcuts of `NoSilentMiss`.
- **Second dataflow engine.** A variable that is given a constant keeps its old node, also in the next function; of several operands only the
  first is followed; any sanitizer counts for any sink; arguments and parameters have different nodes, so calls connect nothing.
- **Call graph.** Every edge begins at a module, so recursion between functions is never found (`docs/commands/taint-and-callgraph.md:60`
  promises "cyclic recursion loops") and a function reaches only what its own name holds. The dynamic edges added at
  `analyze_security.py:106` are cleared by the analysis that follows.
- **Flows across files.** Of files with one base name the last walked stays; only the first call of a line is read; a sanitizer counts in the
  function of the sink only, before or after it; the pattern `int` also matches `print(`.
- **Versions.** `semver_engine.py`: `!=` is read as `==`; `~1` and `~=1.4` end at the next minor version; a caret below 1 ends at 1.0.0; a
  pre-release without a dash is its release, or another patch level where fewer than three numbers stand before it; of clauses joined by blanks only the
  first operator counts, and the numbers of the others run into its version. `version.py:49` tries named versions only, so two strict bounds may conflict
  although a version lies between, and `==2.5.*` always does.
- **Vulnerability scan.** The time to live of an entry is never used; a failed query is saved as an answer without advisories; of two versions of a
  package the first is judged by the answer for the last.
- **Intelligence feed.** Of two records with one id the last wins, whoever is trusted more; a stored record is not rewritten when its id becomes an alias;
  `correlate_with_repository` never compares the names of packages.
- **Attack paths.** A simulated repair may show new paths: one that a limit had hidden, or one from a node that stands in when the last entry or asset
  is gone. `security_app_service.py:288` hands on ids of findings where nodes are called `node:sast:...`, so nothing is taken away.
- **Scans and comparisons.** `finding.py:67` has a fingerprint "stable across commits" with the line in it: a finding that moves is new and fixed at
  once; the comparator leaves the line out and merges look-alikes. The gate judges the whole head, so a pull request that introduces nothing
  may fail; `policy_evaluator.py:36` speaks of secrets, and no tag is ever looked at. An upgrade from one advisory to another is not counted as introduced; a provider
  that raises counts as one without advisories. `scan` never returns the documented exit code 3.
- **Advisory database.** A crash during a rollback while another process updates can lose the update or leave files that never load; a crash between
  the two files leaves a count that disagrees.
- **Compliance.** A draft that was never evaluated can be approved; an exception that has expired can be approved again, though it never counts; the state
  of a control is shared by all organisations; `assessment.py:112` says "by rule_id or cwe", and only the rule is compared.
- **Cleaner.** The command says that nothing is found, with exit code 0, also where files could not be changed.

## 7. What is not modelled, and why

`PROJECT.json` lists every component with its reason. Most of the 46,000 lines are functions of one text, without state or order: parsers of
manifests and of other languages' syntax, pattern rules and their metadata, secrets, infrastructure as code, recognition of frameworks,
reports, the command line and the dashboard. A model of them would be their text once more; tests are the right tool. That is also why the map covers
about a tenth of the lines and cannot cover a third: what keeps state, has an order, can fail halfway, or computes something a definition can
be held against is in a module. Governance, the scheduler, threat intelligence and verification are tables whose every call is a guarded
assignment to one entry that nothing else reads; risk scores are weighted sums without a definition to compare them with.

Inside the modelled parts: the content of findings (a record is its status, or the number of the save that wrote it), time where only its
outcome matters (a watchdog or a timeout), the refusal of a request before the replay cache, an `unlink` that raises inside the failure handler of
the store, the bytes of `audit.jsonl`; in `TaintVisitor` parameters, attributes, lambdas, `while`, `with`, `try` and calls of analysed functions; in
`CallGraphs` methods of classes and decorators; in `ScanHistory` the engines behind the stages and the other views of `scan_queries.py`; in
`IntelligenceFeed` scores and remediation texts; in `DependencyFix` git and the pull request; in `VersionRanges` wildcards and names of pre-releases.

## 8. How to run

    tlc -config MCEndings.cfg MCEndings
    tlapm ScanStoreProofs.tla

and likewise for the other pairs in `PROJECT.json`. The longest runs, `services` and `analyses`, take about two minutes with two workers. The longest proofs,
`EngineProofs` and `AnalysesProofs`, take a quarter of an hour each.
