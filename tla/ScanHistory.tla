---------------------------- MODULE ScanHistory ----------------------------
(***************************************************************************)
(* ScanOrchestrator.run_scan, the exit code the scan command makes of it,   *)
(* the gate verdict it records, and what the dashboard later tells from the *)
(* records (application/orchestrator/scan_orchestrator.py,                  *)
(* interfaces/cli/commands/scan.py, presentation/policy.py,                 *)
(* domain/policy/policy_evaluator.py, application/services/scan_queries.py).*)
(* Several commands scan one directory each, in place, while people edit    *)
(* it: an analyzer sees what stands there when its turn comes.  A site is   *)
(* a place an analyzer reports; an issue that moves is another site.        *)
(***************************************************************************)
EXTENDS Naturals, Sequences, FiniteSetsExt

CONSTANTS Sites,         \* what may stand in a directory
          AnalyzerOf,    \* the analyzer that reports it
          RankOf,        \* its severity: 4 critical, 3 high, 2 medium, 1 low
          FingerprintOf, \* rule, file, line and title, hashed
          Targets,       \* directories
          Runners,       \* commands that may run at once
          Thresholds,    \* what --fail-on may ask for, as a rank
          OwnRisks,      \* what the knowledge graph may say
          MaxRuns,       \* bound: scans begun
          MaxTreeEdits   \* bound: edits of the directories

Analyzers == {"malware", "npm", "pypi", "secrets", "dependencies", "vulnerabilities"}
(* The order of run_scan; what "clean" stands for only happens on request.  *)
Stages == <<"malware", "clean", "npm", "pypi", "secrets", "dependencies", "vulnerabilities", "graph">>
MayRaise == {"secrets", "dependencies", "vulnerabilities"}
(* Analyzers that may find something; of the others it is not kept whether  *)
(* they ran.                                                                *)
Telling == {AnalyzerOf[s] : s \in Sites}
SkippedBy == [no_secrets |-> {"secrets"}, no_dependencies |-> {"dependencies", "vulnerabilities"}, all |-> {}]

ASSUME HistoryAssumption ==
    /\ AnalyzerOf \in [Sites -> Analyzers] /\ RankOf \in [Sites -> 0..4]
    /\ Targets # {} /\ Thresholds \subseteq 0..4 /\ OwnRisks \subseteq Nat
    /\ MaxRuns \in Nat /\ MaxTreeEdits \in Nat

VARIABLES tree,      \* of each target: the sites that stand there
          run,       \* of each command: the scan it makes
          records,   \* the scans that were saved
          runs,      \* scans begun so far, which orders them: created_at
          treeEdits  \* edits so far

historyVars == <<tree, run, records, runs, treeEdits>>

NoRun == [stage |-> 0, target |-> CHOOSE t \in Targets : TRUE, created |-> 0, skip |-> {}, clean |-> FALSE,
          failOn |-> 3, found |-> {}, steady |-> {}, ever |-> {}, exit |-> "none"]
Running(r) == run[r].stage \in DOMAIN Stages
Stage(r) == Stages[run[r].stage]

HistoryInit == /\ tree = [t \in Targets |-> {}] /\ run = [r \in Runners |-> NoRun]
               /\ records = {} /\ runs = 0 /\ treeEdits = 0

(* Whoever scans sees the tree change under it: what stood there all along  *)
(* and what ever did is kept with the scan, for the properties.             *)
SetTree(t, sites) ==
    /\ tree' = [tree EXCEPT ![t] = sites]
    /\ run' = [r \in Runners |-> IF Running(r) /\ run[r].target = t
                                 THEN [run[r] EXCEPT !.steady = @ \cap sites, !.ever = @ \cup sites]
                                 ELSE run[r]]

EditTree(t, sites) ==
    /\ treeEdits < MaxTreeEdits /\ treeEdits' = treeEdits + 1 /\ SetTree(t, sites)
    /\ UNCHANGED <<records, runs>>

BeginRun(r, t, options, clean, failOn) ==
    /\ ~Running(r) /\ runs < MaxRuns /\ runs' = runs + 1
    /\ run' = [run EXCEPT ![r] = [NoRun EXCEPT !.stage = 1, !.target = t, !.created = runs + 1, !.clean = clean,
                                               !.skip = SkippedBy[options] \cap Telling, !.failOn = failOn,
                                               !.steady = tree[t], !.ever = tree[t]]]
    /\ UNCHANGED <<tree, records, treeEdits>>

(* An analyzer adds what it finds to what was found; sites differ at least  *)
(* in their evidence, so _deduplicate_findings keeps them apart.            *)
RunStage(r) ==
    /\ Running(r) /\ Stage(r) \in Analyzers
    /\ run' = [run EXCEPT ![r].stage = @ + 1,
                          ![r].found = @ \cup {s \in tree[run[r].target] \ run[r].found :
                                                  AnalyzerOf[s] = Stage(r) /\ Stage(r) \notin run[r].skip}]
    /\ UNCHANGED <<tree, records, runs, treeEdits>>

(* The exception is swallowed, and the analyzer's findings with it.         *)
StageRaises(r) ==
    /\ Running(r) /\ Stage(r) \in MayRaise \ run[r].skip
    /\ run' = [run EXCEPT ![r].stage = @ + 1, ![r].skip = @ \cup ({Stage(r)} \cap Telling)]
    /\ UNCHANGED <<tree, records, runs, treeEdits>>

(* Detection came first, so that cleaned malware stays among the findings.  *)
CleanStage(r, left) ==
    /\ Running(r) /\ Stage(r) = "clean"
    /\ LET t == run[r].target
           dirt == {s \in tree[t] : AnalyzerOf[s] = "malware"}
           sites == IF run[r].clean THEN (tree[t] \ dirt) \cup left ELSE tree[t] IN
       /\ left \subseteq (IF run[r].clean THEN dirt ELSE {})
       /\ tree' = [tree EXCEPT ![t] = sites]
       /\ run' = [q \in Runners |->
                     LET after == IF Running(q) /\ run[q].target = t
                                 THEN [run[q] EXCEPT !.steady = @ \cap sites] ELSE run[q] IN
                     IF q = r THEN [after EXCEPT !.stage = @ + 1] ELSE after]
    /\ UNCHANGED <<records, runs, treeEdits>>

(* Severity against --fail-on.  Mutant: only what is worse than it.         *)
AboveThreshold(rank, failOn) == rank > failOn
Violates(rank, failOn) == rank >= failOn
ExitOf(r) == IF \E s \in run[r].found : Violates(RankOf[s], run[r].failOn) THEN "violation" ELSE "success"

(* The risk of the graph is lifted by what was found; the strict profile    *)
(* fails on a critical finding and on a risk of 8 or more, on a scale that  *)
(* goes to 100.  Its third policy has neither condition.                    *)
Risk(found, own) ==
    IF found = {} THEN own
    ELSE LET worst == Max({RankOf[s] : s \in found}) IN
         Max({own, IF worst >= 3 THEN 90 ELSE IF worst = 2 THEN 50 ELSE 20})
Gate(found, own) == IF (\E s \in found : RankOf[s] = 4) \/ Risk(found, own) >= 8 THEN "FAIL" ELSE "PASS"

(* The knowledge graph gives a risk of its own; the record is saved, or     *)
(* that fails or is not asked for, whatever the exit code.                  *)
Record(r, own) ==
    [target |-> run[r].target, created |-> run[r].created, found |-> run[r].found, gate |-> Gate(run[r].found, own),
     skip |-> run[r].skip, steady |-> run[r].steady, ever |-> run[r].ever]
EndRun(r, own, saved) ==
    /\ Running(r) /\ Stage(r) = "graph"
    /\ run' = [run EXCEPT ![r].stage = 0, ![r].exit = ExitOf(r)]
    /\ records' = IF saved THEN records \cup {Record(r, own)} ELSE records
    /\ UNCHANGED <<tree, runs, treeEdits>>

(* Anything else that raises ends the command with the exit code of a       *)
(* violation and nothing recorded.                                          *)
RunFails(r) ==
    /\ Running(r) /\ Stage(r) \notin MayRaise
    /\ run' = [run EXCEPT ![r].stage = 0, ![r].exit = "error"]
    /\ UNCHANGED <<tree, records, runs, treeEdits>>

HistoryNext ==
    \/ \E t \in Targets, sites \in SUBSET Sites : EditTree(t, sites)
    \/ \E r \in Runners :
          \/ \E t \in Targets, options \in DOMAIN SkippedBy, clean \in BOOLEAN, failOn \in Thresholds :
                BeginRun(r, t, options, clean, failOn)
          \/ RunStage(r) \/ StageRaises(r) \/ RunFails(r)
          \/ \E left \in SUBSET Sites : CleanStage(r, left)
          \/ \E own \in OwnRisks, saved \in BOOLEAN : EndRun(r, own, saved)
HistorySpec == HistoryInit /\ [][HistoryNext]_historyVars

-----------------------------------------------------------------------------
RecordsOf(t) == {a \in records : a.target = t}
Newest(recs) == CHOOSE a \in recs : \A b \in recs : b.created <= a.created

(* The two scans of a target that list_regressions compares: list_scans     *)
(* sorts by created_at.  Mutant: newest first, as list_pull_requests does.  *)
ComparedNewestFirst(t) ==
    LET latest == Newest(RecordsOf(t)) IN [prev |-> latest, latest |-> Newest(RecordsOf(t) \ {latest})]
Compared(t) ==
    LET latest == Newest(RecordsOf(t)) IN [prev |-> Newest(RecordsOf(t) \ {latest}), latest |-> latest]
ListRegressions(t) ==
    {s \in Compared(t).latest.found :
        RankOf[s] >= 3 /\ FingerprintOf[s] \notin {FingerprintOf[q] : q \in Compared(t).prev.found}}

HistoryTypeOK ==
    /\ tree \in [Targets -> SUBSET Sites]
    /\ \A r \in Runners : /\ run[r].stage \in 0..Len(Stages) /\ run[r].target \in Targets
                          /\ run[r].created \in 0..runs /\ run[r].skip \subseteq Analyzers
                          /\ run[r].steady \subseteq run[r].ever /\ run[r].ever \cup run[r].found \subseteq Sites
                          /\ run[r].exit \in {"none", "success", "violation", "error"}
    /\ \A a, b \in records : a.created = b.created => a = b
    /\ runs \in 0..MaxRuns /\ treeEdits \in 0..MaxTreeEdits

(* However the directory changes under the scan: it ends with success only  *)
(* if every site of the asked severity that stood there all along belongs   *)
(* to an analyzer that was switched off or raised, and with a violation     *)
(* only if such a site stood there at some time.                            *)
ExitTells ==
    \A r \in Runners :
       /\ run[r].exit = "success" => \A s \in run[r].steady : RankOf[s] >= run[r].failOn => AnalyzerOf[s] \in run[r].skip
       /\ run[r].exit = "violation" => \E s \in run[r].ever : RankOf[s] >= run[r].failOn

(* list_regressions of a target, in whatever order its scans were saved: a  *)
(* site it names stood there during the scan begun last, and during the one *)
(* begun before it not all along, unless that skipped its analyzer; and it  *)
(* names every high or critical site that stood there all through the later *)
(* scan and not at all in the earlier one, unless the later one skipped its *)
(* analyzer or the earlier one met another site with its fingerprint.  The  *)
(* gate only passes a scan that found nothing.                              *)
RegressionTells ==
    /\ \A t \in Targets : \A current, then \in RecordsOf(t) :
          then # current /\ (\A a \in RecordsOf(t) \ {current} : a.created < current.created /\ a.created <= then.created) =>
             /\ \A s \in ListRegressions(t) :
                   s \in current.ever /\ (s \notin then.steady \/ AnalyzerOf[s] \in then.skip)
             /\ \A s \in current.steady : RankOf[s] >= 3 /\ s \notin then.ever /\ s \notin ListRegressions(t) =>
                   AnalyzerOf[s] \in current.skip \/ \E q \in then.ever : FingerprintOf[q] = FingerprintOf[s]
    /\ \A a \in records : a.gate = "PASS" => a.found = {}
=============================================================================
