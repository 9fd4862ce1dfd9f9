--------------------------- MODULE AnalysesProofs ---------------------------
(***************************************************************************)
(* Theorems about the analyses that one command makes of a workspace: what *)
(* a scan and its history tell, what the repair of dependencies reports,   *)
(* what the disinfection reports, what a vulnerability scan misses, what a *)
(* comparison tells, what is said of a version and what is known from a    *)
(* feed; of each for itself, and of all of them, with the engines of       *)
(* EngineProofs, as the run puts them together.                            *)
(***************************************************************************)
EXTENDS MCAnalyses, EngineProofs, QueueLemmas

-----------------------------------------------------------------------------
(* A scan and its history.                                                  *)

SomeSites == SUBSET Sites
SomeAnalyzers == SUBSET Analyzers
AnyTarget == Targets \cup {NoRun.target}
ExitCodes == {"none", "success", "violation", "error"}
RunRecord ==
    [stage : 0..8, target : AnyTarget, created : Nat, skip : SomeAnalyzers, clean : BOOLEAN, failOn : 0..4,
     found : SomeSites, steady : SomeSites, ever : SomeSites, exit : ExitCodes]

HistoryTyped == /\ tree \in [Targets -> SUBSET Sites] /\ run \in [Runners -> RunRecord]
                /\ runs \in Nat

(* What a scan has found once it is past the stages of some analyzers.      *)
LookedFor(done, found, steady, skip) ==
    \A s \in steady : AnalyzerOf[s] \in done => s \in found \/ AnalyzerOf[s] \in skip
StagesDone(k) == {Stages[j] : j \in {i \in DOMAIN Stages : i < k}}

(* A scan under way: what it saw stands between what stood there all along  *)
(* and what ever did.                                                       *)
GoesOn(u, standing, n) ==
    /\ u.target \in Targets /\ u.exit = "none" /\ u.created \in 1..n
    /\ u.steady \subseteq standing[u.target] /\ standing[u.target] \subseteq u.ever /\ u.found \subseteq u.ever
    /\ LookedFor(StagesDone(u.stage), u.found, u.steady, u.skip)
UnderWay(r) == Running(r) => GoesOn(run[r], tree, runs)

(* A scan that is over: its exit code is about what it found.               *)
Over(r) ==
    ~Running(r) =>
        /\ run[r].exit = "success" =>
              \A s \in run[r].steady : RankOf[s] >= run[r].failOn => AnalyzerOf[s] \in run[r].skip
        /\ run[r].exit = "violation" => \E s \in run[r].ever : RankOf[s] >= run[r].failOn

RecordTells(a) ==
    /\ a.found \subseteq a.ever /\ LookedFor(Analyzers, a.found, a.steady, a.skip)
    /\ a.steady \subseteq Sites /\ a.ever \subseteq Sites
    /\ a.gate = "PASS" => a.found = {}
    /\ a.created \in 1..runs

(* No two scans were begun at once.                                         *)
BegunApart ==
    /\ \A a, b \in records : a.created = b.created => a = b
    /\ \A a \in records, r \in Runners : Running(r) => run[r].created # a.created
    /\ \A r, q \in Runners : Running(r) /\ Running(q) /\ run[r].created = run[q].created => r = q

HistoryInv == /\ HistoryTyped /\ BegunApart
              /\ \A r \in Runners : UnderWay(r) /\ Over(r)
              /\ \A a \in records : RecordTells(a)

(* What a step changes of a scan.                                           *)
LEMMA UpdatedRuns ==
  ASSUME NEW u \in RunRecord
  PROVE  /\ \A stage \in 0..8 : [u EXCEPT !.stage = stage] \in RunRecord
         /\ \A stage \in 0..8, found \in SomeSites : [u EXCEPT !.stage = stage, !.found = found] \in RunRecord
         /\ \A stage \in 0..8, skip \in SomeAnalyzers : [u EXCEPT !.stage = stage, !.skip = skip] \in RunRecord
         /\ \A stage \in 0..8, exit \in ExitCodes : [u EXCEPT !.stage = stage, !.exit = exit] \in RunRecord
         /\ \A steady \in SomeSites, ever \in SomeSites :
               [u EXCEPT !.steady = steady, !.ever = ever] \in RunRecord
BY DEF RunRecord

LEMMA RunTyped ==
  ASSUME NEW u \in RunRecord
  PROVE  /\ u.stage \in 0..8 /\ u.skip \subseteq Analyzers /\ u.found \subseteq Sites /\ u.created \in Nat
         /\ u.steady \subseteq Sites /\ u.ever \subseteq Sites /\ u.exit \in ExitCodes
BY DEF RunRecord, SomeSites, SomeAnalyzers

(* Where a scan may stand.                                                  *)
LEMMA StageFields ==
  /\ DOMAIN Stages = 1..8 /\ Len(Stages) = 8
  /\ StagesDone(1) = {}
  /\ \A k \in 1..8 : /\ Stages[k] \in Analyzers \cup {"clean", "graph"}
                     /\ StagesDone(k + 1) = StagesDone(k) \cup {Stages[k]}
  /\ Analyzers \subseteq StagesDone(8) /\ Stages[8] = "graph"
  /\ \A k \in 1..8 : Stages[k] = "graph" => k = 8
<1>1. DOMAIN Stages = 1..8 /\ Len(Stages) = 8
  BY DEF Stages
<1>2. /\ Stages[1] = "malware" /\ Stages[2] = "clean" /\ Stages[3] = "npm" /\ Stages[4] = "pypi"
      /\ Stages[5] = "secrets" /\ Stages[6] = "dependencies" /\ Stages[7] = "vulnerabilities"
      /\ Stages[8] = "graph"
  BY DEF Stages
<1>3. StagesDone(1) = {}
  BY <1>1 DEF StagesDone
<1>4. ASSUME NEW k \in 1..8 PROVE StagesDone(k + 1) = StagesDone(k) \cup {Stages[k]}
  BY <1>1, <1>4 DEF StagesDone
<1>5. Analyzers \subseteq StagesDone(8)
  <2>1. \A j \in 1..7 : Stages[j] \in StagesDone(8)
    BY <1>1 DEF StagesDone
  <2> QED
    BY <1>2, <2>1 DEF Analyzers
<1>6. ASSUME NEW k \in 1..8
      PROVE  Stages[k] \in Analyzers \cup {"clean", "graph"} /\ (Stages[k] = "graph" => k = 8)
  <2>1. k = 1 \/ k = 2 \/ k = 3 \/ k = 4 \/ k = 5 \/ k = 6 \/ k = 7 \/ k = 8
    BY <1>6
  <2> QED
    BY <1>2, <2>1 DEF Analyzers
<1> QED
  BY <1>1, <1>2, <1>3, <1>4, <1>5, <1>6

LEMMA RunFields ==
  ASSUME HistoryInv, NEW r \in Runners
  PROVE  /\ run \in [Runners -> RunRecord] /\ run[r] \in RunRecord /\ tree \in [Targets -> SUBSET Sites]
         /\ UnderWay(r) /\ Over(r)
         /\ Running(r) <=> run[r].stage \in 1..8
BY StageFields DEF HistoryInv, HistoryTyped, Running

(* The gate only passes what found nothing.                                 *)
LEMMA GateTells ==
  ASSUME NEW found, NEW own \in Nat, Gate(found, own) = "PASS"
  PROVE  found = {}
<1> SUFFICES ASSUME found # {} PROVE FALSE
  OBVIOUS
<1> DEFINE worst == Max({RankOf[s] : s \in found})
           lifted == IF worst >= 3 THEN 90 ELSE IF worst = 2 THEN 50 ELSE 20
<1>1. lifted \in Nat /\ lifted >= 20
  <2> HIDE DEF worst
  <2> QED
    OBVIOUS
<1>2. Risk(found, own) = Max({own, lifted})
  BY DEF Risk
<1>3. Max({own, lifted}) \in Nat /\ lifted <= Max({own, lifted})
  <2> HIDE DEF lifted
  <2> QED
    BY <1>1, GreaterOfTwo
<1>4. Risk(found, own) >= 8
  <2> HIDE DEF lifted
  <2> QED
    BY <1>1, <1>2, <1>3
<1> QED
  BY <1>4 DEF Gate
(* A scan that stays as it is, in a directory that stays as it is.          *)
LEMMA ScansStay ==
  ASSUME HistoryInv, NEW r \in Runners, run'[r] = run[r], runs' \in Nat, runs <= runs',
         Running(r) => tree'[run[r].target] = tree[run[r].target]
  PROVE  UnderWay(r)' /\ Over(r)'
<1>1. UnderWay(r) /\ Over(r) /\ runs \in Nat
  BY RunFields DEF HistoryInv, HistoryTyped
<1>2. Running(r)' <=> Running(r)
  BY DEF Running
<1>3. 1..runs \subseteq 1..runs'
  BY <1>1
<1> QED
  BY <1>1, <1>2, <1>3 DEF UnderWay, GoesOn, Over, LookedFor

(* One scan takes a step, in directories that stay as they are, and is the  *)
(* same scan afterwards, or is over.                                        *)
LEMMA OneRunStep ==
  ASSUME HistoryInv, NEW r \in Runners, NEW STATE next, next \in RunRecord,
         run' = [run EXCEPT ![r] = next], UNCHANGED <<tree, records, runs>>, Running(r),
         next.created = run[r].created, UnderWay(r)', Over(r)'
  PROVE  HistoryInv'
<1>1. /\ run' \in [Runners -> RunRecord] /\ run'[r] = next
      /\ \A q \in Runners \ {r} : run'[q] = run[q]
  BY RunFields
<1>2. HistoryTyped'
  BY <1>1 DEF HistoryInv, HistoryTyped
<1>3. \A q \in Runners : (Running(q)' => Running(q)) /\ run'[q].created = run[q].created
  BY <1>1 DEF Running
<1>4. BegunApart'
  BY <1>3 DEF HistoryInv, BegunApart
<1>5. ASSUME NEW q \in Runners \ {r} PROVE UnderWay(q)' /\ Over(q)'
  BY <1>1, <1>5, ScansStay DEF HistoryInv, HistoryTyped
<1>6. \A a \in records' : RecordTells(a)'
  BY DEF HistoryInv, RecordTells
<1> QED
  BY <1>2, <1>4, <1>5, <1>6 DEF HistoryInv

LEMMA RunStageStep ==
  ASSUME HistoryInv, NEW r \in Runners, RunStage(r)
  PROVE  HistoryInv'
<1> DEFINE u == run[r]
           observed == {s \in tree[u.target] \ u.found : AnalyzerOf[s] = Stage(r) /\ Stage(r) \notin u.skip}
           next == [u EXCEPT !.stage = @ + 1, !.found = @ \cup observed]
<1>1. /\ u \in RunRecord /\ u.stage \in 1..8 /\ UnderWay(r) /\ Running(r) /\ Stage(r) \in Analyzers
      /\ run \in [Runners -> RunRecord]
  BY RunFields DEF RunStage
<1>2. u.target \in Targets /\ tree[u.target] \subseteq Sites
  BY <1>1, RunFields DEF UnderWay, GoesOn
<1>3. observed \subseteq Sites
  BY <1>2
<1>4. run' = [run EXCEPT ![r] = next] /\ UNCHANGED <<tree, records, runs>>
  BY <1>1 DEF RunStage, RunRecord
<1>5. u.stage + 1 \in 2..8
  <2>1. u.stage # 8
    BY <1>1, StageFields DEF Stage, Analyzers
  <2> QED
    BY <1>1, <2>1
<1>6. next \in RunRecord
  <2> HIDE DEF observed
  <2>1. u.found \cup observed \in SomeSites
    BY <1>1, <1>3, RunTyped DEF SomeSites
  <2>2. PICK k \in 0..8 : k = u.stage + 1
    BY <1>5
  <2>3. PICK more \in SomeSites : more = u.found \cup observed
    BY <2>1
  <2>4. [u EXCEPT !.stage = k, !.found = more] \in RunRecord
    BY <1>1, UpdatedRuns
  <2> QED
    BY <2>2, <2>3, <2>4
<1>7. /\ next.stage = u.stage + 1 /\ next.target = u.target /\ next.exit = u.exit /\ next.skip = u.skip
      /\ next.steady = u.steady /\ next.ever = u.ever /\ next.created = u.created
      /\ next.found = u.found \cup observed
  <2> HIDE DEF observed
  <2> QED
    BY <1>1 DEF RunRecord
<1>8. LookedFor(StagesDone(u.stage + 1), u.found \cup observed, u.steady, u.skip)
  <2>1. StagesDone(u.stage + 1) = StagesDone(u.stage) \cup {Stage(r)}
    BY <1>1, StageFields DEF Stage
  <2>2. LookedFor(StagesDone(u.stage), u.found, u.steady, u.skip) /\ u.steady \subseteq tree[u.target]
    BY <1>1 DEF UnderWay, GoesOn
  <2> QED
    BY <2>1, <2>2 DEF LookedFor
<1>9. u.found \cup observed \subseteq u.ever
  BY <1>1 DEF UnderWay, GoesOn
<1>10. run'[r] = next
  BY <1>1, <1>4
<1>11. Running(r)'
  BY <1>5, <1>7, <1>10, StageFields DEF Running
<1>12. UnderWay(r)' /\ Over(r)'
  <2> HIDE DEF observed, next
  <2> QED
    BY <1>1, <1>4, <1>7, <1>8, <1>9, <1>10, <1>11 DEF UnderWay, GoesOn, Over
<1> HIDE DEF next
<1> QED
  BY <1>1, <1>4, <1>6, <1>7, <1>12, OneRunStep

LEMMA StageRaisesStep ==
  ASSUME HistoryInv, NEW r \in Runners, StageRaises(r)
  PROVE  HistoryInv'
<1> DEFINE u == run[r]
           more == {Stage(r)} \cap Telling
           next == [u EXCEPT !.stage = @ + 1, !.skip = @ \cup more]
<1>1. /\ u \in RunRecord /\ u.stage \in 1..8 /\ UnderWay(r) /\ Running(r) /\ Stage(r) \in MayRaise
      /\ run \in [Runners -> RunRecord]
  BY RunFields DEF StageRaises
<1>2. more \subseteq Analyzers
  BY <1>1 DEF MayRaise, Analyzers
<1>3. run' = [run EXCEPT ![r] = next] /\ UNCHANGED <<tree, records, runs>>
  BY <1>1 DEF StageRaises, RunRecord
<1>4. u.stage + 1 \in 2..8
  <2>1. u.stage # 8
    BY <1>1, StageFields DEF Stage, MayRaise
  <2> QED
    BY <1>1, <2>1
<1>5. next \in RunRecord
  <2> HIDE DEF more
  <2>1. u.skip \cup more \in SomeAnalyzers
    BY <1>1, <1>2, RunTyped DEF SomeAnalyzers
  <2>2. PICK k \in 0..8 : k = u.stage + 1
    BY <1>4
  <2>3. PICK all \in SomeAnalyzers : all = u.skip \cup more
    BY <2>1
  <2>4. [u EXCEPT !.stage = k, !.skip = all] \in RunRecord
    BY <1>1, UpdatedRuns
  <2> QED
    BY <2>2, <2>3, <2>4
<1>6. /\ next.stage = u.stage + 1 /\ next.target = u.target /\ next.exit = u.exit
      /\ next.skip = u.skip \cup more /\ next.steady = u.steady /\ next.ever = u.ever
      /\ next.created = u.created /\ next.found = u.found
  <2> HIDE DEF more
  <2> QED
    BY <1>1 DEF RunRecord
<1>7. LookedFor(StagesDone(u.stage + 1), u.found, u.steady, u.skip \cup more)
  <2>1. StagesDone(u.stage + 1) = StagesDone(u.stage) \cup {Stage(r)}
    BY <1>1, StageFields DEF Stage
  <2>2. LookedFor(StagesDone(u.stage), u.found, u.steady, u.skip)
    BY <1>1 DEF UnderWay, GoesOn
  <2>3. \A s \in u.steady : AnalyzerOf[s] \in Telling
    BY <1>1, RunTyped DEF Telling
  <2> QED
    BY <2>1, <2>2, <2>3 DEF LookedFor
<1>8. run'[r] = next
  BY <1>1, <1>3
<1>9. Running(r)'
  BY <1>4, <1>6, <1>8, StageFields DEF Running
<1>10. UnderWay(r)' /\ Over(r)'
  <2> HIDE DEF more, next
  <2> QED
    BY <1>1, <1>3, <1>6, <1>7, <1>8, <1>9 DEF UnderWay, GoesOn, Over
<1> HIDE DEF next
<1> QED
  BY <1>1, <1>3, <1>5, <1>6, <1>10, OneRunStep

LEMMA RunFailsStep ==
  ASSUME HistoryInv, NEW r \in Runners, RunFails(r)
  PROVE  HistoryInv'
<1> DEFINE u == run[r]
           next == [u EXCEPT !.stage = 0, !.exit = "error"]
<1>1. u \in RunRecord /\ Running(r) /\ run \in [Runners -> RunRecord]
  BY RunFields DEF RunFails
<1>2. run' = [run EXCEPT ![r] = next] /\ UNCHANGED <<tree, records, runs>>
  BY <1>1 DEF RunFails, RunRecord
<1>3. next \in RunRecord /\ next.created = u.created /\ next.stage = 0 /\ next.exit = "error"
  <2>1. "error" \in ExitCodes /\ 0 \in 0..8
    BY DEF ExitCodes
  <2> QED
    BY <1>1, <2>1, UpdatedRuns DEF RunRecord
<1>4. run'[r] = next
  BY <1>1, <1>2
<1>5. ~Running(r)'
  BY <1>3, <1>4, StageFields DEF Running
<1>6. UnderWay(r)' /\ Over(r)'
  <2> HIDE DEF next
  <2> QED
    BY <1>3, <1>4, <1>5 DEF UnderWay, GoesOn, Over
<1> HIDE DEF next
<1> QED
  BY <1>1, <1>2, <1>3, <1>6, OneRunStep

(* The end of a scan, and what it would record.                             *)
LEMMA EndOfRun ==
  ASSUME HistoryInv, NEW r \in Runners, NEW own \in OwnRisks, Running(r), Stage(r) = "graph",
         NEW STATE next, next = [run[r] EXCEPT !.stage = 0, !.exit = ExitOf(r)]
  PROVE  /\ next \in RunRecord /\ next.stage = 0 /\ next.created = run[r].created
         /\ next.exit = "success" =>
               \A s \in next.steady : RankOf[s] >= next.failOn => AnalyzerOf[s] \in next.skip
         /\ next.exit = "violation" => \E s \in next.ever : RankOf[s] >= next.failOn
         /\ RecordTells(Record(r, own))
<1> DEFINE u == run[r]
<1>1. u \in RunRecord /\ u.stage \in 1..8 /\ UnderWay(r)
  BY RunFields
<1>2. ExitOf(r) \in {"success", "violation"}
  BY DEF ExitOf
<1>3. /\ next \in RunRecord /\ next.stage = 0 /\ next.exit = ExitOf(r) /\ next.steady = u.steady
      /\ next.ever = u.ever /\ next.skip = u.skip /\ next.failOn = u.failOn /\ next.created = u.created
  <2>1. ExitOf(r) \in ExitCodes /\ 0 \in 0..8
    BY <1>2 DEF ExitCodes
  <2> QED
    BY <1>1, <2>1, UpdatedRuns DEF RunRecord
<1>4. LookedFor(Analyzers, u.found, u.steady, u.skip) /\ u.found \subseteq u.ever
  <2>1. u.stage = 8
    BY <1>1, StageFields DEF Stage
  <2> QED
    BY <1>1, <2>1, StageFields DEF UnderWay, GoesOn, LookedFor
<1>5. \A s \in u.steady : s \in u.found \/ AnalyzerOf[s] \in u.skip
  BY <1>1, <1>4, HistoryAssumption, RunTyped DEF LookedFor
<1>6. next.exit = "success" => \A s \in next.steady : RankOf[s] >= next.failOn => AnalyzerOf[s] \in next.skip
  BY <1>3, <1>5 DEF ExitOf, Violates
<1>7. next.exit = "violation" => \E s \in next.ever : RankOf[s] >= next.failOn
  BY <1>3, <1>4 DEF ExitOf, Violates
<1>8. RecordTells(Record(r, own))
  <2>1. own \in Nat
    BY HistoryAssumption
  <2>2. Gate(u.found, own) = "PASS" => u.found = {}
    BY <2>1, GateTells
  <2> QED
    BY <1>1, <1>4, <2>2, RunTyped DEF RecordTells, Record, UnderWay, GoesOn
<1> QED
  BY <1>3, <1>6, <1>7, <1>8

LEMMA EndRunStep ==
  ASSUME HistoryInv, NEW r \in Runners, NEW own \in OwnRisks, NEW saved \in BOOLEAN, EndRun(r, own, saved)
  PROVE  HistoryInv'
<1> DEFINE u == run[r]
           next == [u EXCEPT !.stage = 0, !.exit = ExitOf(r)]
<1>1. u \in RunRecord /\ Running(r) /\ run \in [Runners -> RunRecord] /\ Stage(r) = "graph"
  BY RunFields DEF EndRun
<1>2. /\ run' = [run EXCEPT ![r] = next] /\ UNCHANGED <<tree, runs>>
      /\ records' = IF saved THEN records \cup {Record(r, own)} ELSE records
  BY <1>1 DEF EndRun, RunRecord
<1>3. /\ next \in RunRecord /\ next.stage = 0 /\ next.created = run[r].created
      /\ next.exit = "success" =>
            \A s \in next.steady : RankOf[s] >= next.failOn => AnalyzerOf[s] \in next.skip
      /\ next.exit = "violation" => \E s \in next.ever : RankOf[s] >= next.failOn
      /\ RecordTells(Record(r, own))
  <2> HIDE DEF next
  <2>1. next = [run[r] EXCEPT !.stage = 0, !.exit = ExitOf(r)]
    BY DEF next
  <2> QED
    BY <1>1, <2>1, EndOfRun
<1>4. /\ run' \in [Runners -> RunRecord] /\ run'[r] = next
      /\ \A q \in Runners \ {r} : run'[q] = run[q]
  <2> HIDE DEF next
  <2> QED
    BY <1>1, <1>2, <1>3
<1> HIDE DEF next
<1>5. HistoryTyped'
  BY <1>2, <1>4 DEF HistoryInv, HistoryTyped
<1>6. ~Running(r)' /\ \A q \in Runners : Running(q)' => Running(q) /\ q # r /\ run'[q] = run[q]
  BY <1>3, <1>4, StageFields DEF Running
<1>7. Record(r, own).created = run[r].created
  BY DEF Record
<1>8. BegunApart'
  <2>1. ASSUME NEW a \in records' PROVE a \in records \/ a = Record(r, own)
    BY <1>2, <2>1
  <2> QED
    BY <1>1, <1>6, <1>7, <2>1 DEF HistoryInv, BegunApart
<1>9. UnderWay(r)' /\ Over(r)'
  BY <1>3, <1>4, <1>6 DEF UnderWay, GoesOn, Over
<1>10. ASSUME NEW q \in Runners \ {r} PROVE UnderWay(q)' /\ Over(q)'
  BY <1>2, <1>4, <1>10, ScansStay DEF HistoryInv, HistoryTyped
<1>11. ASSUME NEW a \in records' PROVE RecordTells(a)'
  <2>1. RecordTells(a)
    BY <1>2, <1>3, <1>11 DEF HistoryInv
  <2> QED
    BY <1>2, <2>1 DEF RecordTells
<1> QED
  BY <1>5, <1>8, <1>9, <1>10, <1>11 DEF HistoryInv
(* Sites come to stand in a directory, or go: what whoever scans it keeps   *)
(* of what it saw goes with them.                                           *)
SeesChange(r, t, sites) ==
    IF Running(r) /\ run[r].target = t
    THEN [run[r] EXCEPT !.steady = @ \cap sites, !.ever = @ \cup sites] ELSE run[r]

LEMMA RunSeesChange ==
  ASSUME HistoryInv, NEW r \in Runners, NEW t \in Targets, NEW STATE sites, sites \subseteq Sites,
         tree' = [tree EXCEPT ![t] = sites]
  PROVE  LET v == SeesChange(r, t, sites) IN
         /\ v \in RunRecord /\ v.created = run[r].created /\ v.stage = run[r].stage
         /\ Running(r) => GoesOn(v, tree', runs)
         /\ ~Running(r) => v = run[r]
<1> DEFINE u == run[r]
           v == SeesChange(r, t, sites)
<1>1. /\ u \in RunRecord /\ UnderWay(r) /\ tree \in [Targets -> SUBSET Sites]
  BY RunFields
<1>2. CASE ~(Running(r) /\ u.target = t)
  <2>1. v = u
    BY <1>2 DEF SeesChange
  <2>2. Running(r) => tree'[u.target] = tree[u.target]
    BY <1>1, <1>2 DEF UnderWay, GoesOn
  <2>3. Running(r) => GoesOn(v, tree', runs)
    BY <1>1, <2>1, <2>2 DEF UnderWay, GoesOn
  <2> QED
    BY <1>1, <2>1, <2>3
<1>3. CASE Running(r) /\ u.target = t
  <2>1. PICK steady \in SomeSites : steady = u.steady \cap sites
    BY <1>1, RunTyped DEF SomeSites
  <2>2. PICK ever \in SomeSites : ever = u.ever \cup sites
    BY <1>1, RunTyped DEF SomeSites
  <2>3. v = [u EXCEPT !.steady = steady, !.ever = ever]
    BY <1>3, <2>1, <2>2 DEF SeesChange
  <2>4. v \in RunRecord
    <3>1. [u EXCEPT !.steady = steady, !.ever = ever] \in RunRecord
      BY <1>1, UpdatedRuns
    <3> QED
      BY <2>3, <3>1
  <2>5. /\ v.stage = u.stage /\ v.target = u.target /\ v.created = u.created
        /\ v.skip = u.skip /\ v.found = u.found /\ v.exit = u.exit
        /\ v.steady = steady /\ v.ever = ever
    BY <1>1, <2>3 DEF RunRecord
  <2>6. tree'[u.target] = sites
    BY <1>1, <1>3
  <2>7. LookedFor(StagesDone(u.stage), u.found, steady, u.skip)
    BY <1>1, <1>3, <2>1 DEF UnderWay, GoesOn, LookedFor
  <2> HIDE DEF v
  <2>8. GoesOn(v, tree', runs)
    BY <1>1, <1>3, <2>1, <2>2, <2>5, <2>6, <2>7 DEF UnderWay, GoesOn
  <2> QED
    BY <1>3, <2>4, <2>5, <2>8 DEF v
<1> QED
  BY <1>2, <1>3

LEMMA EditTreeStep ==
  ASSUME HistoryInv, NEW t \in Targets, NEW sites \in SUBSET Sites, EditTree(t, sites)
  PROVE  HistoryInv'
<1>1. /\ tree' = [tree EXCEPT ![t] = sites] /\ UNCHANGED <<records, runs>>
      /\ run' = [r \in Runners |-> SeesChange(r, t, sites)]
  BY DEF EditTree, SetTree, SeesChange
<1>2. ASSUME NEW r \in Runners
      PROVE  /\ run'[r] \in RunRecord /\ run'[r].created = run[r].created /\ (Running(r)' <=> Running(r))
             /\ UnderWay(r)' /\ Over(r)'
  <2>1. run'[r] = SeesChange(r, t, sites)
    BY <1>1, <1>2
  <2>2. /\ run'[r] \in RunRecord /\ run'[r].created = run[r].created /\ run'[r].stage = run[r].stage
        /\ Running(r) => GoesOn(run'[r], tree', runs)
        /\ ~Running(r) => run'[r] = run[r]
    BY <1>1, <1>2, <2>1, RunSeesChange
  <2>3. Running(r)' <=> Running(r)
    BY <2>2 DEF Running
  <2>4. UnderWay(r)'
    BY <1>1, <2>2, <2>3 DEF UnderWay
  <2>5. Over(r)'
    BY <2>2, <2>3, RunFields DEF Over
  <2> QED
    BY <2>2, <2>3, <2>4, <2>5
<1>3. tree' \in [Targets -> SUBSET Sites]
  BY <1>1 DEF HistoryInv, HistoryTyped
<1>4. run' \in [Runners -> RunRecord]
  BY <1>1, <1>2
<1>5. HistoryTyped'
  BY <1>1, <1>3, <1>4 DEF HistoryInv, HistoryTyped
<1>6. BegunApart'
  BY <1>1, <1>2 DEF HistoryInv, BegunApart
<1>7. \A a \in records' : RecordTells(a)'
  BY <1>1 DEF HistoryInv, RecordTells
<1> QED
  BY <1>2, <1>5, <1>6, <1>7 DEF HistoryInv

LEMMA CleanStageStep ==
  ASSUME HistoryInv, NEW r \in Runners, NEW left \in SUBSET Sites, CleanStage(r, left)
  PROVE  HistoryInv'
<1> DEFINE u == run[r]
           t == u.target
           dirt == {s \in tree[t] : AnalyzerOf[s] = "malware"}
           sites == IF u.clean THEN (tree[t] \ dirt) \cup left ELSE tree[t]
           After(q) == IF Running(q) /\ run[q].target = t THEN [run[q] EXCEPT !.steady = @ \cap sites] ELSE run[q]
<1>1. /\ u \in RunRecord /\ u.stage \in 1..8 /\ UnderWay(r) /\ Running(r) /\ Stage(r) = "clean"
      /\ tree \in [Targets -> SUBSET Sites] /\ t \in Targets
  BY RunFields DEF CleanStage, UnderWay, GoesOn
<1>2. /\ tree' = [tree EXCEPT ![t] = sites] /\ UNCHANGED <<records, runs>>
      /\ run' = [q \in Runners |-> IF q = r THEN [After(q) EXCEPT !.stage = @ + 1] ELSE After(q)]
  BY DEF CleanStage
<1>3. sites \subseteq tree[t]
  <2>1. left \subseteq IF u.clean THEN dirt ELSE {}
    BY DEF CleanStage
  <2> QED
    BY <2>1
<1> HIDE DEF sites
<1>4. ASSUME NEW q \in Runners, Running(q), run[q].target = t
      PROVE  run[q].ever = run[q].ever \cup sites
  BY <1>3, <1>4, RunFields DEF UnderWay, GoesOn
<1>5. ASSUME NEW q \in Runners PROVE After(q) = SeesChange(q, t, sites)
  <2>1. CASE Running(q) /\ run[q].target = t
    <3>1. run[q] \in RunRecord
      BY RunFields
    <3>2. PICK steady : steady = run[q].steady \cap sites
      OBVIOUS
    <3>3. [run[q] EXCEPT !.steady = steady] = [run[q] EXCEPT !.steady = steady, !.ever = @ \cup sites]
      BY <1>4, <2>1, <3>1 DEF RunRecord
    <3> QED
      BY <2>1, <3>2, <3>3 DEF SeesChange
  <2>2. CASE ~(Running(q) /\ run[q].target = t)
    BY <2>2 DEF SeesChange
  <2> QED
    BY <2>1, <2>2
<1> HIDE DEF After
<1>6. ASSUME NEW q \in Runners
      PROVE  LET v == After(q) IN
             /\ v \in RunRecord /\ v.created = run[q].created /\ v.stage = run[q].stage
             /\ Running(q) => GoesOn(v, tree', runs)
             /\ ~Running(q) => v = run[q]
  <2>1. sites \subseteq Sites
    BY <1>1, <1>3
  <2> QED
    BY <1>1, <1>2, <1>5, <1>6, <2>1, RunSeesChange
<1>7. ASSUME NEW q \in Runners \ {r}
      PROVE  /\ run'[q] \in RunRecord /\ run'[q].created = run[q].created /\ (Running(q)' <=> Running(q))
             /\ UnderWay(q)' /\ Over(q)'
  <2>1. run'[q] = After(q)
    BY <1>2, <1>7
  <2>2. Running(q)' <=> Running(q)
    BY <1>6, <2>1 DEF Running
  <2>3. UnderWay(q)' /\ Over(q)'
    BY <1>2, <1>6, <2>1, <2>2, RunFields DEF UnderWay, Over
  <2> QED
    BY <1>6, <2>1, <2>2, <2>3
<1>8. /\ run'[r] \in RunRecord /\ run'[r].created = run[r].created
      /\ UnderWay(r)' /\ Over(r)' /\ Running(r)'
  <2> DEFINE v == After(r)
  <2>1. v \in RunRecord /\ v.created = run[r].created /\ v.stage = u.stage /\ GoesOn(v, tree', runs)
    BY <1>1, <1>6
  <2>2. PICK k \in 0..8 : k = v.stage + 1 /\ k \in 1..8
    <3>1. u.stage # 8
      BY <1>1, StageFields DEF Stage
    <3> QED
      BY <1>1, <2>1, <3>1
  <2>3. run'[r] = [v EXCEPT !.stage = k]
    BY <1>2, <2>2
  <2> HIDE DEF v
  <2>4. run'[r] \in RunRecord
    BY <2>1, <2>3, UpdatedRuns
  <2>5. /\ run'[r].stage = k /\ run'[r].target = v.target /\ run'[r].created = v.created
        /\ run'[r].skip = v.skip /\ run'[r].found = v.found /\ run'[r].exit = v.exit
        /\ run'[r].steady = v.steady /\ run'[r].ever = v.ever
    BY <2>1, <2>3 DEF RunRecord
  <2>6. StagesDone(k) = StagesDone(v.stage) \cup {"clean"}
    BY <1>1, <2>1, <2>2, StageFields DEF Stage
  <2>7. \A s \in v.steady : AnalyzerOf[s] # "clean"
    BY <2>1, RunTyped, HistoryAssumption DEF Analyzers
  <2>8. LookedFor(StagesDone(k), v.found, v.steady, v.skip)
    BY <2>1, <2>6, <2>7 DEF GoesOn, LookedFor
  <2>9. Running(r)'
    BY <2>2, <2>5, StageFields DEF Running
  <2>10. UnderWay(r)'
    BY <1>2, <2>1, <2>5, <2>8, <2>9 DEF UnderWay, GoesOn
  <2> QED
    BY <2>1, <2>4, <2>5, <2>9, <2>10 DEF Over
<1>9. \A q \in Runners : /\ run'[q] \in RunRecord /\ run'[q].created = run[q].created
                        /\ (Running(q)' <=> Running(q)) /\ UnderWay(q)' /\ Over(q)'
  BY <1>1, <1>7, <1>8
<1>10. tree' \in [Targets -> SUBSET Sites]
  BY <1>1, <1>2, <1>3
<1>11. run' \in [Runners -> RunRecord]
  BY <1>2, <1>9
<1>12. HistoryTyped'
  BY <1>2, <1>10, <1>11 DEF HistoryInv, HistoryTyped
<1>13. BegunApart'
  <2>1. records' = records /\ \A q \in Runners : (Running(q)' => Running(q)) /\ run'[q].created = run[q].created
    BY <1>2, <1>9
  <2> QED
    BY <2>1 DEF HistoryInv, BegunApart
<1>14. \A a \in records' : RecordTells(a)'
  BY <1>2 DEF HistoryInv, RecordTells
<1> QED
  BY <1>9, <1>12, <1>13, <1>14 DEF HistoryInv
LEMMA BeginRunStep ==
  ASSUME HistoryInv, NEW r \in Runners, NEW t \in Targets, NEW options \in DOMAIN SkippedBy,
         NEW clean \in BOOLEAN, NEW failOn \in Thresholds, BeginRun(r, t, options, clean, failOn)
  PROVE  HistoryInv'
<1> DEFINE next == [NoRun EXCEPT !.stage = 1, !.target = t, !.created = runs + 1, !.clean = clean,
                                 !.skip = SkippedBy[options] \cap Telling, !.failOn = failOn,
                                 !.steady = tree[t], !.ever = tree[t]]
<1>1. /\ tree \in [Targets -> SUBSET Sites] /\ runs \in Nat /\ run \in [Runners -> RunRecord] /\ ~Running(r)
      /\ run' = [run EXCEPT ![r] = next] /\ UNCHANGED <<tree, records>> /\ runs' = runs + 1
  BY DEF BeginRun, HistoryInv, HistoryTyped
<1>2. /\ next.stage = 1 /\ next.target = t /\ next.created = runs + 1 /\ next.exit = "none" /\ next.found = {}
      /\ next.steady = tree[t] /\ next.ever = tree[t]
  BY DEF NoRun
<1>3. next \in RunRecord
  <2>1. tree[t] \in SomeSites /\ {} \in SomeSites /\ t \in AnyTarget /\ "none" \in ExitCodes
    BY <1>1 DEF SomeSites, AnyTarget, ExitCodes
  <2>2. SkippedBy[options] \cap Telling \in SomeAnalyzers
    BY HistoryAssumption DEF SomeAnalyzers, Telling
  <2>3. failOn \in 0..4 /\ runs + 1 \in Nat /\ 1 \in 0..8
    BY <1>1, HistoryAssumption
  <2>4. PICK some : some = SkippedBy[options] \cap Telling
    OBVIOUS
  <2>5. PICK here : here = tree[t]
    OBVIOUS
  <2>6. next = [stage |-> 1, target |-> t, created |-> runs + 1, skip |-> some, clean |-> clean,
                failOn |-> failOn, found |-> {}, steady |-> here, ever |-> here, exit |-> "none"]
    <3>1. next = [NoRun EXCEPT !.stage = 1, !.target = t, !.created = runs + 1, !.clean = clean,
                               !.skip = some, !.failOn = failOn, !.steady = here, !.ever = here]
      BY <2>4, <2>5
    <3> HIDE DEF next
    <3> QED
      BY <3>1 DEF NoRun
  <2> HIDE DEF next
  <2> QED
    BY <2>1, <2>2, <2>3, <2>4, <2>5, <2>6 DEF RunRecord
<1> HIDE DEF next
<1>4. /\ run' \in [Runners -> RunRecord] /\ run'[r] = next /\ \A q \in Runners \ {r} : run'[q] = run[q]
  BY <1>1, <1>3
<1>5. HistoryTyped'
  BY <1>1, <1>4 DEF HistoryTyped
<1>6. Running(r)' /\ \A q \in Runners \ {r} : Running(q)' <=> Running(q)
  BY <1>2, <1>4, StageFields DEF Running
<1>7. \A a \in records : a.created # runs + 1
  BY <1>1 DEF HistoryInv, RecordTells
<1>8. \A q \in Runners : Running(q) => run[q].created # runs + 1
  BY <1>1 DEF HistoryInv, UnderWay, GoesOn
<1>9. BegunApart'
  <2>1. \A a \in records', q \in Runners : Running(q)' => run'[q].created # a.created
    <3>1. ASSUME NEW a \in records', NEW q \in Runners, Running(q)' PROVE run'[q].created # a.created
      <4>1. CASE q = r
        BY <1>1, <1>2, <1>4, <1>7, <3>1, <4>1
      <4>2. CASE q # r
        BY <1>1, <1>4, <1>6, <3>1, <4>2 DEF HistoryInv, BegunApart
      <4> QED
        BY <4>1, <4>2
    <3> QED
      BY <3>1
  <2>2. ASSUME NEW p \in Runners, NEW q \in Runners, Running(p)', Running(q)', run'[p].created = run'[q].created
        PROVE  p = q
    <3>1. CASE p # r /\ q # r
      BY <1>4, <1>6, <2>2, <3>1 DEF HistoryInv, BegunApart
    <3>2. CASE p = r \/ q = r
      BY <1>2, <1>4, <1>6, <1>8, <2>2, <3>2
    <3> QED
      BY <3>1, <3>2
  <2> QED
    BY <1>1, <2>1, <2>2 DEF HistoryInv, BegunApart
<1>10. UnderWay(r)' /\ Over(r)'
  <2>1. LookedFor(StagesDone(1), next.found, next.steady, next.skip)
    BY StageFields DEF LookedFor
  <2>2. runs + 1 \in 1..(runs + 1)
    BY <1>1
  <2> QED
    BY <1>1, <1>2, <1>4, <1>6, <2>1, <2>2 DEF UnderWay, GoesOn, Over
<1>11. ASSUME NEW q \in Runners \ {r} PROVE UnderWay(q)' /\ Over(q)'
  BY <1>1, <1>4, <1>11, ScansStay
<1>12. ASSUME NEW a \in records' PROVE RecordTells(a)'
  <2>1. RecordTells(a) /\ 1..runs \subseteq 1..(runs + 1)
    BY <1>1, <1>12 DEF HistoryInv
  <2> QED
    BY <1>1, <2>1 DEF RecordTells
<1> QED
  BY <1>5, <1>9, <1>10, <1>11, <1>12 DEF HistoryInv

LEMMA HistoryInitial == HistoryInit => HistoryInv
<1> SUFFICES ASSUME HistoryInit PROVE HistoryInv
  OBVIOUS
<1>1. NoRun \in RunRecord
  <2>1. {} \in SomeSites /\ {} \in SomeAnalyzers /\ NoRun.target \in AnyTarget /\ "none" \in ExitCodes
    BY DEF SomeSites, SomeAnalyzers, AnyTarget, ExitCodes
  <2>2. PICK t \in AnyTarget : t = NoRun.target
    BY <2>1
  <2>3. NoRun = [stage |-> 0, target |-> t, created |-> 0, skip |-> {}, clean |-> FALSE,
                 failOn |-> 3, found |-> {}, steady |-> {}, ever |-> {}, exit |-> "none"]
    BY <2>2 DEF NoRun
  <2> QED
    BY <2>1, <2>3 DEF RunRecord
<1>2. HistoryTyped
  BY <1>1 DEF HistoryInit, HistoryTyped
<1>3. ASSUME NEW r \in Runners PROVE ~Running(r) /\ run[r].exit = "none"
  <2>1. run[r] = NoRun
    BY <1>3 DEF HistoryInit
  <2>2. run[r].stage = 0 /\ run[r].exit = "none"
    BY <2>1 DEF NoRun
  <2> QED
    BY <2>2, StageFields DEF Running
<1>4. BegunApart /\ \A a \in records : RecordTells(a)
  BY <1>3 DEF HistoryInit, BegunApart
<1>5. \A r \in Runners : UnderWay(r) /\ Over(r)
  BY <1>3 DEF UnderWay, Over
<1> QED
  BY <1>2, <1>4, <1>5 DEF HistoryInv

LEMMA HistoryKept == HistoryInv /\ [HistoryNext]_historyVars => HistoryInv'
<1> SUFFICES ASSUME HistoryInv, [HistoryNext]_historyVars PROVE HistoryInv'
  OBVIOUS
<1>1. CASE UNCHANGED historyVars
  <2>1. tree' = tree /\ run' = run /\ records' = records /\ runs' = runs
    BY <1>1 DEF historyVars
  <2>2. ASSUME NEW r \in Runners PROVE UnderWay(r)' /\ Over(r)'
    BY <2>1, <2>2, ScansStay DEF HistoryInv, HistoryTyped
  <2>3. HistoryTyped' /\ BegunApart' /\ \A a \in records' : RecordTells(a)'
    BY <2>1 DEF HistoryInv, HistoryTyped, BegunApart, Running, RecordTells
  <2> QED
    BY <2>2, <2>3 DEF HistoryInv
<1>2. CASE \E t \in Targets, sites \in SUBSET Sites : EditTree(t, sites)
  BY <1>2, EditTreeStep
<1>3. ASSUME NEW r \in Runners, NEW t \in Targets, NEW options \in DOMAIN SkippedBy,
             NEW clean \in BOOLEAN, NEW failOn \in Thresholds, BeginRun(r, t, options, clean, failOn)
      PROVE  HistoryInv'
  BY <1>3, BeginRunStep
<1>4. ASSUME NEW r \in Runners, RunStage(r) \/ StageRaises(r) \/ RunFails(r) PROVE HistoryInv'
  BY <1>4, RunStageStep, StageRaisesStep, RunFailsStep
<1>5. ASSUME NEW r \in Runners, NEW left \in SUBSET Sites, CleanStage(r, left) PROVE HistoryInv'
  BY <1>5, CleanStageStep
<1>6. ASSUME NEW r \in Runners, NEW own \in OwnRisks, NEW saved \in BOOLEAN, EndRun(r, own, saved)
      PROVE  HistoryInv'
  BY <1>6, EndRunStep
<1> QED
  BY <1>1, <1>2, <1>3, <1>4, <1>5, <1>6 DEF HistoryNext

(* The two scans that are compared, whatever the order they were saved in.  *)
LEMMA NewestTwo ==
  ASSUME HistoryInv, NEW t \in Targets, NEW current \in RecordsOf(t), NEW then \in RecordsOf(t),
         then # current,
         \A a \in RecordsOf(t) \ {current} : a.created < current.created /\ a.created <= then.created
  PROVE  Compared(t).latest = current /\ Compared(t).prev = then
<1>1. \A a \in RecordsOf(t) : a \in records /\ a.created \in Nat
  BY DEF HistoryInv, HistoryTyped, RecordTells, RecordsOf
<1>2. Newest(RecordsOf(t)) = current
  <2>1. \A b \in RecordsOf(t) : b.created <= current.created
    BY <1>1
  <2>2. ASSUME NEW a \in RecordsOf(t), \A b \in RecordsOf(t) : b.created <= a.created PROVE a = current
    BY <1>1, <2>2
  <2> QED
    BY <2>1, <2>2 DEF Newest
<1>3. Newest(RecordsOf(t) \ {current}) = then
  <2>1. then \in RecordsOf(t) \ {current} /\ \A b \in RecordsOf(t) \ {current} : b.created <= then.created
    OBVIOUS
  <2>2. ASSUME NEW a \in RecordsOf(t) \ {current},
               \A b \in RecordsOf(t) \ {current} : b.created <= a.created
        PROVE  a = then
    <3>1. a.created = then.created
      BY <1>1, <2>1, <2>2
    <3> QED
      BY <1>1, <3>1 DEF HistoryInv, BegunApart
  <2> QED
    BY <2>1, <2>2 DEF Newest
<1> QED
  BY <1>2, <1>3 DEF Compared

LEMMA ScansTell == HistoryInv => ExitTells /\ RegressionTells
<1> SUFFICES ASSUME HistoryInv PROVE ExitTells /\ RegressionTells
  OBVIOUS
<1>1. ASSUME NEW r \in Runners
      PROVE  /\ run[r].exit = "success" =>
                   \A s \in run[r].steady : RankOf[s] >= run[r].failOn => AnalyzerOf[s] \in run[r].skip
             /\ run[r].exit = "violation" => \E s \in run[r].ever : RankOf[s] >= run[r].failOn
  BY <1>1, RunFields DEF UnderWay, GoesOn, Over
<1>2. \A a \in records : a.gate = "PASS" => a.found = {}
  BY DEF HistoryInv, RecordTells
<1>3. ASSUME NEW t \in Targets, NEW current \in RecordsOf(t), NEW then \in RecordsOf(t), then # current,
             \A a \in RecordsOf(t) \ {current} : a.created < current.created /\ a.created <= then.created
      PROVE  /\ \A s \in ListRegressions(t) :
                   s \in current.ever /\ (s \notin then.steady \/ AnalyzerOf[s] \in then.skip)
             /\ \A s \in current.steady : RankOf[s] >= 3 /\ s \notin then.ever /\ s \notin ListRegressions(t) =>
                   AnalyzerOf[s] \in current.skip \/ \E q \in then.ever : FingerprintOf[q] = FingerprintOf[s]
  <2>1. RecordTells(current) /\ RecordTells(then)
    BY <1>3 DEF HistoryInv, RecordsOf
  <2>2. Compared(t).latest = current /\ Compared(t).prev = then
    BY <1>3, NewestTwo
  <2>3. ListRegressions(t) =
           {s \in current.found : RankOf[s] >= 3 /\ FingerprintOf[s] \notin {FingerprintOf[q] : q \in then.found}}
    BY <2>2 DEF ListRegressions
  <2>4. ASSUME NEW s \in ListRegressions(t)
        PROVE  s \in current.ever /\ (s \notin then.steady \/ AnalyzerOf[s] \in then.skip)
    <3>1. s \in current.found /\ s \notin then.found
      BY <2>3, <2>4
    <3> QED
      BY <2>1, <3>1, HistoryAssumption DEF RecordTells, LookedFor
  <2>5. ASSUME NEW s \in current.steady, RankOf[s] >= 3, s \notin then.ever, s \notin ListRegressions(t)
        PROVE  AnalyzerOf[s] \in current.skip \/ \E q \in then.ever : FingerprintOf[q] = FingerprintOf[s]
    <3>1. CASE s \notin current.found
      BY <2>1, <2>5, <3>1, HistoryAssumption DEF RecordTells, LookedFor
    <3>2. CASE s \in current.found
      <4>1. PICK q \in then.found : FingerprintOf[q] = FingerprintOf[s]
        BY <2>3, <2>5, <3>2
      <4> QED
        BY <2>1, <4>1 DEF RecordTells
    <3> QED
      BY <3>1, <3>2
  <2> QED
    BY <2>4, <2>5
<1> QED
  BY <1>1, <1>2, <1>3 DEF ExitTells, RegressionTells

-----------------------------------------------------------------------------
(* The repair of dependencies.                                              *)

(* What a name's first loose entry would have been pinned to when the       *)
(* analysis read it; and the entry that CalculateUpdates picks.             *)
Recommended(r, e) ==
    IF DefaultVersion[PackageNameOf[e]] # 0 THEN DefaultVersion[PackageNameOf[e]] ELSE r.at

(* A name has a new version if an entry that was read asked for one.        *)
AllChosen ==
    fixing.options.unpinned =>
        \A e \in FixEntries :
            /\ ManifestOf[e] \notin fixing.missed /\ Loose(asked[e]) /\ Recommended(asked[e], e) # 0
            => Target(e) # 0

(* The fixes of an entry in the report, and what it asks for meanwhile:     *)
(* nothing happens to it before its manifest's turn, and then all that the  *)
(* report says of it.                                                       *)
FixesOf(e) == {f \in fixing.fixes : f.entry = e}
IsReplaced(e) == e \notin OutOfReach /\ asked[e] # Erased /\ Target(e) # 0
Ahead(e) == e \notin OutOfReach /\ ManifestOf[e] \in fixing.todo

EntryTells(e) ==
    IF IsReplaced(e) /\ ~Ahead(e)
    THEN /\ FixesOf(e) = {[entry |-> e, version |-> Target(e)]}
         /\ require[e] = IF fixing.options.dryRun THEN asked[e] ELSE Exact(Target(e))
    ELSE FixesOf(e) = {} /\ require[e] = asked[e]

FixInv ==
    /\ FixTypeOK /\ asked \in [FixEntries -> Requirements \cup {Erased}]
    /\ DOMAIN fixing = {"phase", "options", "updates", "missed", "todo", "fixes"}
    /\ fixing.phase = "done" => fixing.todo = {}
    /\ fixing.phase # "idle" =>
          /\ AllChosen
          /\ \A e \in FixEntries : Undisturbed(e) => EntryTells(e)

LEMMA RequirementFields ==
  /\ \A r \in Requirements \cup {Erased} : r.at \in FixVersions \cup {0}
  /\ \A v \in FixVersions : Exact(v) \in Requirements /\ ~Loose(Exact(v)) /\ Exact(v) # Erased
  /\ ~Loose(Erased)
<1>1. ASSUME NEW r \in Requirements \cup {Erased} PROVE r.at \in FixVersions \cup {0}
  <2>1. CASE r \in {Unpinned, Erased}
    BY <2>1 DEF Unpinned, Erased
  <2>2. ASSUME NEW v \in FixVersions, r = Exact(v) \/ r = AtLeast(v) PROVE r.at = v
    BY <2>2 DEF Exact, AtLeast
  <2> QED
    BY <2>1, <2>2 DEF Requirements
<1>2. ASSUME NEW v \in FixVersions PROVE Exact(v) \in Requirements /\ Exact(v).pin = "exact"
  BY DEF Requirements, Exact
<1>3. Erased.pin = "erased"
  BY DEF Erased
<1> QED
  BY <1>1, <1>2, <1>3 DEF Loose

(* The version that a name gets is one, and it gets one if it needs one.    *)
LEMMA UpdatesAre ==
  ASSUME require \in [FixEntries -> Requirements \cup {Erased}],
         NEW missed, NEW o \in Options
  PROVE  LET updates == CalculateUpdates(missed, AdvisoriesFrom({e \in FixEntries : IsVulnerable(e)}), o) IN
         /\ updates \in [PackageNames -> FixVersions \cup {0}]
         /\ o.unpinned => \A e \in FixEntries :
               ManifestOf[e] \notin missed /\ Loose(require[e]) /\ RecommendedFor(e) # 0
                  => updates[PackageNameOf[e]] # 0
<1> DEFINE updates == CalculateUpdates(missed, AdvisoriesFrom({e \in FixEntries : IsVulnerable(e)}), o)
<1>1. ASSUME NEW e \in FixEntries PROVE RecommendedFor(e) \in FixVersions \cup {0}
  <2>1. DefaultVersion[PackageNameOf[e]] \in FixVersions \cup {0}
    BY DependencyFixAssumption DEF PackageNames
  <2>2. require[e].at \in FixVersions \cup {0}
    BY RequirementFields
  <2> QED
    BY <2>1, <2>2 DEF RecommendedFor
<1>2. updates = [n \in PackageNames |->
                   IF o.unpinned /\ LooseEntries(n, missed) # {}
                   THEN RecommendedFor(EarliestOf(LooseEntries(n, missed))) ELSE 0]
  BY DEF CalculateUpdates, AdvisoriesFrom
<1>3. ASSUME NEW n, LooseEntries(n, missed) # {}
      PROVE  /\ EarliestOf(LooseEntries(n, missed)) \in FixEntries
             /\ RecommendedFor(EarliestOf(LooseEntries(n, missed))) # 0
  <2> DEFINE places == LooseEntries(n, missed)
             k == CHOOSE k \in places : \A l \in places : k <= l
  <2>1. places \subseteq DOMAIN FoundInOrder /\ DOMAIN FoundInOrder \subseteq Nat
    BY DependencyFixAssumption DEF LooseEntries
  <2>2. \E l \in places : \A m \in places : l <= m
    BY <1>3, <2>1, EarliestExists
  <2>3. k \in places
    BY <2>2
  <2>4. FoundInOrder[k] \in FixEntries /\ RecommendedFor(FoundInOrder[k]) # 0
    BY <2>1, <2>3, DependencyFixAssumption DEF LooseEntries
  <2> QED
    BY <2>4 DEF EarliestOf
<1>4. updates \in [PackageNames -> FixVersions \cup {0}]
  BY <1>1, <1>2, <1>3
<1>5. ASSUME o.unpinned, NEW e \in FixEntries,
             ManifestOf[e] \notin missed, Loose(require[e]), RecommendedFor(e) # 0
      PROVE  updates[PackageNameOf[e]] # 0
  <2>1. PICK k \in DOMAIN FoundInOrder : FoundInOrder[k] = e
    BY DependencyFixAssumption
  <2>2. k \in LooseEntries(PackageNameOf[e], missed)
    BY <1>5, <2>1 DEF LooseEntries
  <2>3. PackageNameOf[e] \in PackageNames
    BY DEF PackageNames
  <2> QED
    BY <1>2, <1>3, <1>5, <2>2, <2>3
<1> QED
  BY <1>4, <1>5

LEMMA AnalyzeStep ==
  ASSUME FixInv, NEW o \in Options, NEW missed \in SUBSET Manifests, Analyze(o, missed)
  PROVE  FixInv'
<1> DEFINE chosen == CalculateUpdates(missed, AdvisoriesFrom({e \in FixEntries : IsVulnerable(e)}), o)
<1>1. /\ fixing' = [phase |-> "rewriting", options |-> o, updates |-> chosen, missed |-> missed,
                    todo |-> {ManifestOf[e] : e \in FixEntries \ OutOfReach}, fixes |-> {}]
      /\ asked' = require /\ broken' = {} /\ edited' = {}
      /\ UNCHANGED <<require, manifestEdits>>
      /\ fixRuns < MaxFixRuns /\ fixRuns' = fixRuns + 1
  BY DEF Analyze
<1>2. require \in [FixEntries -> Requirements \cup {Erased}]
  BY DEF FixInv, FixTypeOK
<1>3. /\ chosen \in [PackageNames -> FixVersions \cup {0}]
      /\ o.unpinned => \A e \in FixEntries :
            ManifestOf[e] \notin missed /\ Loose(require[e]) /\ RecommendedFor(e) # 0
               => chosen[PackageNameOf[e]] # 0
  BY <1>2, UpdatesAre
<1> HIDE DEF chosen
<1>4. FixTypeOK' /\ asked' \in [FixEntries -> Requirements \cup {Erased}]
  BY <1>1, <1>2, <1>3, DependencyFixAssumption DEF FixInv, FixTypeOK, Manifests
<1>5. AllChosen'
  BY <1>1, <1>3 DEF AllChosen, Target, Recommended, RecommendedFor
<1>6. ASSUME NEW e \in FixEntries PROVE EntryTells(e)'
  <2>1. FixesOf(e)' = {} /\ require'[e] = asked'[e]
    BY <1>1 DEF FixesOf
  <2>2. e \notin OutOfReach => Ahead(e)'
    BY <1>1 DEF Ahead
  <2> QED
    BY <2>1, <2>2 DEF EntryTells, IsReplaced
<1> QED
  BY <1>1, <1>4, <1>5, <1>6 DEF FixInv

(* A manifest that has its turn, whatever becomes of it: the entries of     *)
(* others stay as they are.                                                 *)
LEMMA TurnStep ==
  ASSUME FixInv, NEW m \in Manifests, fixing.phase = "rewriting", m \in fixing.todo,
         NEW STATE listed, listed \subseteq ListedFixes(m),
         fixing' = [fixing EXCEPT !.todo = @ \ {m}, !.fixes = @ \cup listed],
         require' \in [FixEntries -> Requirements \cup {Erased}],
         \A e \in FixEntries : ManifestOf[e] # m => require'[e] = require[e],
         m \in broken' \/ (listed = ListedFixes(m)
                             /\ require' = IF fixing.options.dryRun THEN require ELSE Rewritten(m)),
         broken' \in {broken, broken \cup {m}}, UNCHANGED <<asked, edited, fixRuns, manifestEdits>>
  PROVE  FixInv'
<1>1. /\ fixing'.phase = "rewriting" /\ fixing'.options = fixing.options /\ fixing'.updates = fixing.updates
      /\ fixing'.missed = fixing.missed /\ fixing'.todo = fixing.todo \ {m}
      /\ fixing'.fixes = fixing.fixes \cup listed
      /\ DOMAIN fixing' = {"phase", "options", "updates", "missed", "todo", "fixes"}
  BY DEF FixInv
<1>2. \A e \in FixEntries : Target(e)' = Target(e) /\ Target(e) \in FixVersions \cup {0}
  BY <1>1 DEF Target, FixInv, FixTypeOK, PackageNames
<1>3. \A f \in listed : /\ f.entry \in Replaced(m) /\ f = [entry |-> f.entry, version |-> Target(f.entry)]
                        /\ f \in [entry : FixEntries \ OutOfReach, version : FixVersions]
  BY <1>2 DEF ListedFixes, Replaced, Target
<1>4. FixTypeOK'
  BY <1>1, <1>3 DEF FixInv, FixTypeOK
<1>5. AllChosen'
  BY <1>1, <1>2 DEF FixInv, AllChosen
<1>6. ASSUME NEW e \in FixEntries, Undisturbed(e)' PROVE EntryTells(e)'
  <2>1. Undisturbed(e) /\ EntryTells(e)
    BY <1>6 DEF Undisturbed, FixInv
  <2>2. IsReplaced(e)' <=> IsReplaced(e)
    BY <1>2 DEF IsReplaced
  <2>3. CASE ManifestOf[e] # m \/ e \in OutOfReach
    <3>1. FixesOf(e)' = FixesOf(e)
      BY <1>1, <1>3, <2>3 DEF FixesOf, Replaced
    <3>2. Ahead(e)' <=> Ahead(e)
      BY <1>1, <2>3 DEF Ahead
    <3>3. require'[e] = require[e]
      BY <1>6, <2>3 DEF Rewritten, Replaced, Undisturbed, FixInv, FixTypeOK
    <3> QED
      BY <1>1, <1>2, <2>1, <2>2, <3>1, <3>2, <3>3 DEF EntryTells
  <2>4. CASE ManifestOf[e] = m /\ e \notin OutOfReach
    <3>1. Ahead(e) /\ ~Ahead(e)' /\ FixesOf(e) = {} /\ require[e] = asked[e]
      BY <1>1, <2>1, <2>4 DEF Ahead, EntryTells
    <3>2. listed = ListedFixes(m) /\ require' = IF fixing.options.dryRun THEN require ELSE Rewritten(m)
      BY <1>6, <2>4 DEF Undisturbed
    <3>3. e \in Replaced(m) <=> IsReplaced(e)
      BY <2>4, <3>1 DEF Replaced, IsReplaced, Target
    <3>4. FixesOf(e)' = IF IsReplaced(e) THEN {[entry |-> e, version |-> Target(e)]} ELSE {}
      <4>1. FixesOf(e)' = {f \in listed : f.entry = e}
        BY <1>1, <3>1 DEF FixesOf
      <4>2. \A f \in listed : f.entry = e => IsReplaced(e) /\ f = [entry |-> e, version |-> Target(e)]
        BY <1>3, <3>3
      <4>3. IsReplaced(e) => [entry |-> e, version |-> Target(e)] \in listed
        BY <3>2, <3>3 DEF ListedFixes
      <4> QED
        BY <4>1, <4>2, <4>3
    <3>5. require'[e] = IF IsReplaced(e) /\ ~fixing.options.dryRun THEN Exact(Target(e)) ELSE asked[e]
      BY <3>1, <3>2, <3>3 DEF Rewritten
    <3> QED
      BY <1>1, <1>2, <2>2, <3>1, <3>4, <3>5 DEF EntryTells
  <2> QED
    BY <2>3, <2>4
<1> QED
  BY <1>1, <1>4, <1>5, <1>6 DEF FixInv

LEMMA ManifestStep ==
  ASSUME FixInv, NEW m \in Manifests, FixManifest(m) \/ ManifestUnreadable(m) \/ WriteFails(m)
  PROVE  FixInv'
<1>1. fixing.phase = "rewriting" /\ m \in fixing.todo
  BY DEF FixManifest, ManifestUnreadable, WriteFails
<1>2. require \in [FixEntries -> Requirements \cup {Erased}]
  BY DEF FixInv, FixTypeOK
<1>3. CASE FixManifest(m)
  <2>1. \A e \in Replaced(m) : e \in FixEntries /\ ManifestOf[e] = m /\ Exact(Target(e)) \in Requirements
    BY RequirementFields DEF Replaced, Target, FixInv, FixTypeOK, PackageNames
  <2>2. Rewritten(m) \in [FixEntries -> Requirements \cup {Erased}]
        /\ \A e \in FixEntries : ManifestOf[e] # m => Rewritten(m)[e] = require[e]
    BY <1>2, <2>1 DEF Rewritten
  <2>3. fixing' = [fixing EXCEPT !.todo = @ \ {m}, !.fixes = @ \cup ListedFixes(m)]
        /\ require' = (IF fixing.options.dryRun THEN require ELSE Rewritten(m))
        /\ UNCHANGED <<asked, broken, edited, fixRuns, manifestEdits>>
    BY <1>3 DEF FixManifest
  <2> QED
    BY <1>1, <1>2, <2>2, <2>3, TurnStep
<1>4. CASE ManifestUnreadable(m)
  <2> PICK none : none = {}
    OBVIOUS
  <2>1. fixing' = [fixing EXCEPT !.todo = @ \ {m}, !.fixes = @ \cup none]
    BY <1>4 DEF ManifestUnreadable, FixInv
  <2>2. /\ require' \in [FixEntries -> Requirements \cup {Erased}]
        /\ \A e \in FixEntries : ManifestOf[e] # m => require'[e] = require[e]
        /\ m \in broken' /\ broken' \in {broken, broken \cup {m}} /\ none \subseteq ListedFixes(m)
        /\ UNCHANGED <<asked, edited, fixRuns, manifestEdits>>
    BY <1>2, <1>4 DEF ManifestUnreadable
  <2> QED
    BY <1>1, <2>1, <2>2, TurnStep
<1>5. CASE WriteFails(m)
  <2>1. require' \in [FixEntries -> Requirements \cup {Erased}]
        /\ \A e \in FixEntries : ManifestOf[e] # m => require'[e] = require[e]
    BY <1>2, <1>5 DEF WriteFails
  <2>2. fixing' = [fixing EXCEPT !.todo = @ \ {m}, !.fixes = @ \cup ListedFixes(m)]
        /\ broken' = broken \cup {m} /\ UNCHANGED <<asked, edited, fixRuns, manifestEdits>>
    BY <1>5 DEF WriteFails
  <2> QED
    BY <1>1, <2>1, <2>2, TurnStep
<1> QED
  BY <1>3, <1>4, <1>5

LEMMA EditStep ==
  ASSUME FixInv, NEW e \in FixEntries, EditRequirement(e)
  PROVE  FixInv'
<1>1. /\ edited' = edited \cup {e} /\ UNCHANGED <<fixing, asked, broken, fixRuns>>
      /\ require' \in [FixEntries -> Requirements \cup {Erased}]
      /\ \A d \in FixEntries \ {e} : require'[d] = require[d]
      /\ manifestEdits < MaxManifestEdits /\ manifestEdits' = manifestEdits + 1
  BY DEF EditRequirement, FixInv, FixTypeOK
<1>2. FixTypeOK'
  BY <1>1, DependencyFixAssumption DEF FixInv, FixTypeOK
<1>3. ASSUME NEW d \in FixEntries, Undisturbed(d)', fixing.phase # "idle" PROVE EntryTells(d)'
  <2>1. d # e /\ Undisturbed(d)
    BY <1>1, <1>3 DEF Undisturbed
  <2> QED
    BY <1>1, <1>3, <2>1 DEF FixInv, EntryTells, IsReplaced, Ahead, FixesOf, Target
<1> QED
  BY <1>1, <1>2, <1>3 DEF FixInv, AllChosen, Target

LEMMA FixStep == FixInv /\ [FixNext]_fixVars => FixInv'
<1> SUFFICES ASSUME FixInv, [FixNext]_fixVars PROVE FixInv'
  OBVIOUS
<1>1. CASE Report
  <2>1. /\ fixing'.phase = "done" /\ fixing'.options = fixing.options /\ fixing'.updates = fixing.updates
        /\ fixing'.missed = fixing.missed /\ fixing'.todo = {} /\ fixing'.fixes = fixing.fixes
        /\ DOMAIN fixing' = {"phase", "options", "updates", "missed", "todo", "fixes"}
        /\ fixing.phase = "rewriting" /\ fixing.todo = {}
        /\ UNCHANGED <<require, asked, broken, edited, fixRuns, manifestEdits>>
    BY <1>1 DEF Report, FixInv
  <2>2. FixTypeOK' /\ AllChosen'
    BY <2>1 DEF FixInv, FixTypeOK, AllChosen, Target
  <2>3. ASSUME NEW e \in FixEntries, Undisturbed(e)' PROVE EntryTells(e)'
    BY <2>1, <2>3 DEF FixInv, EntryTells, IsReplaced, Ahead, FixesOf, Target, Undisturbed
  <2> QED
    BY <2>1, <2>2, <2>3 DEF FixInv
<1>2. CASE UNCHANGED fixVars
  BY <1>2 DEF fixVars, FixInv, FixTypeOK, AllChosen, EntryTells, IsReplaced, Ahead, FixesOf, Target, Undisturbed
<1> QED
  BY <1>1, <1>2, AnalyzeStep, ManifestStep, EditStep DEF FixNext

LEMMA FixInvariant == FixSpec => []FixInv
<1>1. FixInit => FixInv
  BY DependencyFixAssumption DEF FixInit, FixInv, FixTypeOK, NotFixing, NoOptions, Options
<1> QED
  BY <1>1, FixStep, PTL DEF FixSpec

(* A finished `fix` tells the truth about the manifests and leaves nothing  *)
(* that it could have pinned, whatever is edited and whichever write fails  *)
(* meanwhile: for any entries, manifests and versions, and any number of    *)
(* runs (fix_dependencies.py, fixer.py).                                    *)
THEOREM FixAlwaysTells == FixSpec => []FixTells
<1>1. FixInv => FixTells
  <2> SUFFICES ASSUME FixInv, fixing.phase = "done" PROVE ReportIsTrue /\ RunsSettle
    BY DEF FixTells
  <2>1. ASSUME NEW e \in FixEntries, Undisturbed(e) PROVE EntryTells(e) /\ ~Ahead(e)
    BY <2>1 DEF FixInv, Ahead
  <2>2. ReportIsTrue
    <3> SUFFICES ASSUME NEW e \in FixEntries, Undisturbed(e)
                 PROVE  /\ \A f \in FixesOf(e) : fixing.options.dryRun \/ require[e] = Exact(f.version)
                        /\ require[e] # asked[e] => FixesOf(e) # {} /\ ~fixing.options.dryRun
      BY DEF ReportIsTrue, FixesOf
    <3>1. CASE IsReplaced(e)
      <4>1. FixesOf(e) = {[entry |-> e, version |-> Target(e)]}
            /\ require[e] = IF fixing.options.dryRun THEN asked[e] ELSE Exact(Target(e))
        BY <2>1, <3>1 DEF EntryTells
      <4> QED
        BY <4>1
    <3>2. CASE ~IsReplaced(e)
      BY <2>1, <3>2 DEF EntryTells
    <3> QED
      BY <3>1, <3>2
  <2>3. ASSUME fixing.options.unpinned, ~fixing.options.dryRun, NEW e \in FixEntries \ OutOfReach,
               Undisturbed(e), ManifestOf[e] \notin fixing.missed, Loose(require[e])
        PROVE  RecommendedFor(e) = 0
    <3>1. ~IsReplaced(e)
      <4> SUFFICES ASSUME IsReplaced(e) PROVE FALSE
        OBVIOUS
      <4>1. require[e] = Exact(Target(e))
        BY <2>1, <2>3 DEF EntryTells
      <4>2. ~Loose(Exact(Target(e)))
        BY DEF Loose, Exact
      <4> QED
        BY <2>3, <4>1, <4>2
    <3>2. require[e] = asked[e] /\ asked[e] # Erased
      BY <2>1, <2>3, <3>1, RequirementFields DEF EntryTells
    <3>3. Target(e) = 0
      BY <3>1, <3>2 DEF IsReplaced
    <3> QED
      BY <2>3, <3>2, <3>3 DEF FixInv, AllChosen, Recommended, RecommendedFor
  <2> QED
    BY <2>2, <2>3 DEF RunsSettle
<1> QED
  BY <1>1, FixInvariant, PTL

-----------------------------------------------------------------------------
(* The disinfection.                                                        *)

(* What a cleaning may leave, and what it must remove in its k-th step.     *)
Spared == Linked \union Pruned \union DetectedOnly \union Spread \union uncleaned
ToRemove(k) == {i \in Detected \ Spared : KindOf[i] = StepKind[k]}

(* The steps that are over have left nothing to remove, this one only what  *)
(* it has not come to; and what is said to be removed is gone.              *)
CleanInv ==
    /\ CleanTypeOK
    /\ step \in 1..7 => /\ \A k \in 1..6 : k < step => ToRemove(k) = {}
                        /\ \A k \in 1..6 : k = step => ToRemove(k) \subseteq todo
                        /\ cleaned \intersect present \subseteq uncleaned \union Spread

(* What the detector reports and is not spared, the cleaner acts on.        *)
LEMMA DetectedIsStripped ==
  ASSUME NEW i \in Detected \ Spared
  PROVE  Strips(i)
BY DisinfectionAssumption DEF Detected, Detects, Spared, Strips

LEMMA CleanTypeStep == CleanTypeOK /\ [CleanNext]_cleanVars => CleanTypeOK'
<1> SUFFICES ASSUME CleanTypeOK, [CleanNext]_cleanVars PROVE CleanTypeOK'
  OBVIOUS
<1> USE DEF CleanTypeOK
<1>1. CASE Start
  BY <1>1 DEF Start, Found, Of
<1>2. CASE NextStep
  BY <1>2 DEF NextStep, Found, Of
<1>3. CASE Rewrite
  BY <1>3 DEF Rewrite
<1>4. ASSUME NEW i \in Infections, RemoveDropper(i) \/ QuarantineFont(i) \/ CleanConfig(i) \/ ComesBack(i)
      PROVE  CleanTypeOK'
  <2>1. PathOf[i] \in Paths
    BY DEF Paths
  <2> QED
    BY <1>4, <2>1 DEF RemoveDropper, QuarantineFont, CleanConfig, ComesBack, Removed, PassOver
<1>5. CASE UNCHANGED cleanVars
  BY <1>5 DEF cleanVars
<1> QED
  BY <1>1, <1>2, <1>3, <1>4, <1>5 DEF CleanNext

(* A step that takes away what it comes to, or tells that it could not.     *)
LEMMA RemovalKeeps ==
  ASSUME CleanInv, CleanTypeOK', step \in 1..6, step' = step, UNCHANGED form,
         present' \subseteq present, uncleaned \subseteq uncleaned',
         \A i \in todo \ todo' : i \notin present' \/ i \in uncleaned' \union Spread,
         cleaned' \intersect present' \subseteq cleaned \union uncleaned' \union Spread
  PROVE  CleanInv'
<1>1. ASSUME NEW k \in 1..6 PROVE ToRemove(k)' \subseteq ToRemove(k)
  BY DEF ToRemove, Detected, Detects, Spared
<1>2. ASSUME NEW k \in 1..6, k = step' PROVE ToRemove(k)' \subseteq todo'
  <2>1. ToRemove(k)' \subseteq todo
    BY <1>1, <1>2 DEF CleanInv
  <2>2. \A i \in ToRemove(k)' : i \in present' /\ i \notin uncleaned' \union Spread
    BY DEF ToRemove, Detected, Spared
  <2> QED
    BY <2>1, <2>2
<1>3. \A k \in 1..6 : k < step' => ToRemove(k)' = {}
  BY <1>1 DEF CleanInv
<1>4. cleaned' \intersect present' \subseteq uncleaned' \union Spread
  BY DEF CleanInv
<1> QED
  BY <1>2, <1>3, <1>4 DEF CleanInv

LEMMA CleanStep == CleanInv /\ [CleanNext]_cleanVars => CleanInv'
<1> SUFFICES ASSUME CleanInv, [CleanNext]_cleanVars PROVE CleanInv'
  OBVIOUS
<1>1. CleanTypeOK'
  BY CleanTypeStep DEF CleanInv
<1>2. CASE Start
  <2>1. step' = 1 /\ todo' = Found("task") /\ cleaned' = {}
    BY <1>2 DEF Start
  <2>2. ToRemove(1)' \subseteq todo'
    <3> SUFFICES ASSUME NEW i \in ToRemove(1)' PROVE i \in Found("task")
      BY <2>1
    <3>1. i \in Infections /\ i \in present' /\ KindOf[i] = "task"
      BY <1>1 DEF ToRemove, Detected, StepKind, CleanTypeOK
    <3>2. i \in (Detected \ (Linked \union Pruned \union DetectedOnly \union Spread))
      BY <1>2, <3>1 DEF ToRemove, Detected, Detects, Spared, Start
    <3> QED
      BY <1>2, <3>1, <3>2 DEF Found, Of, Strips, Start, Detected, Detects
  <2> QED
    BY <1>1, <2>1, <2>2 DEF CleanInv
<1>3. CASE NextStep
  <2>1. /\ step \in 1..6 /\ step' = step + 1 /\ todo = {}
        /\ todo' = IF step = 6 THEN {} ELSE Found(StepKind[step + 1])
        /\ UNCHANGED <<present, form, cleaned, uncleaned>>
    BY <1>3 DEF NextStep
  <2>2. \A k \in 1..6 : ToRemove(k)' = ToRemove(k)
    BY <2>1 DEF ToRemove, Detected, Detects, Spared
  <2>3. \A k \in 1..6 : k < step' => ToRemove(k)' = {}
    BY <2>1, <2>2 DEF CleanInv
  <2>4. ASSUME NEW k \in 1..6, k = step' PROVE ToRemove(k)' \subseteq todo'
    <3>1. todo' = Found(StepKind[k])
      BY <2>1, <2>4
    <3>2. ToRemove(k) \subseteq Found(StepKind[k])
      BY DetectedIsStripped DEF ToRemove, Found, Of, Detected
    <3> QED
      BY <2>2, <3>1, <3>2
  <2> QED
    BY <1>1, <2>1, <2>3, <2>4 DEF CleanInv
<1>4. CASE Rewrite
  <2>1. /\ step \in 1..6 /\ step' = step /\ UNCHANGED form
        /\ present' \subseteq present /\ uncleaned \subseteq uncleaned'
        /\ \A i \in todo \ todo' : i \notin present' \/ i \in uncleaned' \union Spread
        /\ cleaned' \intersect present' \subseteq cleaned \union uncleaned' \union Spread
    BY <1>4 DEF Rewrite
  <2> QED
    BY <1>1, <2>1, RemovalKeeps
<1>5. ASSUME NEW i \in Infections, RemoveDropper(i) \/ QuarantineFont(i) \/ CleanConfig(i) PROVE CleanInv'
  <2>1. /\ step \in 1..6 /\ step' = step /\ UNCHANGED form
        /\ present' \subseteq present /\ uncleaned \subseteq uncleaned'
        /\ \A j \in todo \ todo' : j \notin present' \/ j \in uncleaned' \union Spread
        /\ cleaned' \intersect present' \subseteq cleaned \union uncleaned' \union Spread
    BY <1>5 DEF RemoveDropper, QuarantineFont, CleanConfig, Removed, PassOver
  <2> QED
    BY <1>1, <2>1, RemovalKeeps
<1>6. ASSUME NEW i \in Infections, ComesBack(i) PROVE CleanInv'
  BY <1>1, <1>6 DEF CleanInv, ComesBack
<1>7. CASE UNCHANGED cleanVars
  BY <1>1, <1>7 DEF cleanVars, CleanInv, ToRemove, Detected, Detects, Spared
<1> QED
  BY <1>2, <1>3, <1>4, <1>5, <1>6, <1>7 DEF CleanNext

LEMMA CleanInvariant == CleanSpec => []CleanInv
<1>1. CleanInit => CleanInv
  BY DEF CleanInit, CleanInv, CleanTypeOK
<1> QED
  BY <1>1, CleanStep, PTL DEF CleanSpec

(* After a cleaning the detector reports nothing but what the cleaner does  *)
(* not touch and what raised, and what the result lists is gone: for any    *)
(* infections, whatever fails and however often it is repeated              *)
(* (polinrider_cleaner.py, polinrider_detector.py).                         *)
THEOREM CleaningAlwaysTells == CleanSpec => []CleaningTells
<1>1. CleanInv => CleaningTells
  <2> SUFFICES ASSUME CleanInv PROVE CleaningTells
    OBVIOUS
  <2>1. ASSUME step = 7, NEW i \in Detected PROVE i \in Spared
    <3>1. KindOf[i] \in {"task", "setting", "dropper", "font", "config", "ignore"}
      BY DisinfectionAssumption DEF CleanInv, CleanTypeOK, Detected
    <3>2. PICK k \in 1..6 : KindOf[i] = StepKind[k]
      BY <3>1 DEF StepKind
    <3> QED
      BY <2>1, <3>2 DEF CleanInv, ToRemove
  <2> QED
    BY <2>1 DEF CleaningTells, ResidueExplained, ResultIsTrue, Spared, CleanInv
<1> QED
  BY <1>1, CleanInvariant, PTL

-----------------------------------------------------------------------------
(* The vulnerability scan and its cache.                                    *)

ScanRecord == [at : {"idle", "asking", "saving", "done"}, inventory : Inventories \cup {<< >>}, next : Nat,
               answers : [Packages -> Answers], known : SUBSET Packages,
               skipped : SUBSET Deps, reported : SUBSET Deps]
ProviderRecord == [open : BOOLEAN, offline : BOOLEAN, memory : [Deps -> Answers], status : {"AVAILABLE", "DOWN"}]

VulnerabilityTyped ==
    /\ published \subseteq Packages /\ cacheFile \in [Deps -> Answers]
    /\ provider \in [Commands -> ProviderRecord]
    /\ scan \in [Commands -> ScanRecord]
    /\ \A c \in Commands : scan[c].next \in 1..(Len(scan[c].inventory) + 1)
    /\ begun \in 0..MaxScans /\ failed \subseteq Deps /\ early \subseteq Deps

(* A cached answer is a true one, but for what a failed query left, and for *)
(* what was asked before the advisory came out.                             *)
TrueAnswers(cache) ==
    \A d \in Deps : /\ cache[d] = "hit" => d \in Affected /\ PackageOf[d] \in published
                    /\ cache[d] = "empty" /\ d \in Affected => d \in failed \cup early
CachesTell == TrueAnswers(cacheFile) /\ \A c \in Commands : TrueAnswers(provider[c].memory)

(* What a scan knows of a dependency that it has asked for, and of which the *)
(* inventory has no other version.                                          *)
Answered(c, d) ==
    d \in Affected /\ PackageOf[d] \in scan[c].known =>
        \/ scan[c].answers[PackageOf[d]] = "hit"
        \/ d \in failed \cup early \cup scan[c].skipped
        \/ SamePackage(c, d)
AnswersOf(c) ==
    /\ scan[c].known \subseteq published
    /\ \A p \in Packages : scan[c].answers[p] = "hit" => p \in published
    /\ \A i \in DOMAIN scan[c].inventory : i < scan[c].next => Answered(c, scan[c].inventory[i])
    /\ scan[c].at = "done" => scan[c].next > Len(scan[c].inventory)

(* What is reported is known to be affected, and what is not was answered   *)
(* with nothing, or the inventory has another version of it.                *)
ReportOf(c) ==
    scan[c].at = "done" =>
        /\ \A d \in Listed(c) : /\ d \in Affected /\ ~SamePackage(c, d)
                                /\ scan[c].answers[PackageOf[d]] = "hit"
                                => d \in scan[c].reported
        /\ \A d \in scan[c].reported : d \in Affected /\ PackageOf[d] \in published

VulnerabilityInv == /\ VulnerabilityTyped /\ CachesTell
                    /\ \A c \in Commands : AnswersOf(c) /\ ReportOf(c)

LEMMA ScanFields ==
  ASSUME VulnerabilityTyped, NEW c \in Commands
  PROVE  /\ scan[c] \in ScanRecord /\ provider[c] \in ProviderRecord
         /\ scan[c].inventory \in Seq(Deps)
         /\ scan[c].next \in Nat \ {0} /\ scan[c].next <= Len(scan[c].inventory) + 1
         /\ DOMAIN scan[c].inventory = 1..Len(scan[c].inventory) /\ Len(scan[c].inventory) \in Nat
         /\ \A i \in DOMAIN scan[c].inventory :
               scan[c].inventory[i] \in Deps /\ PackageOf[scan[c].inventory[i]] \in Packages
         /\ Asking(c) => Asked(c) \in Deps /\ scan[c].next \in DOMAIN scan[c].inventory
<1>1. scan[c] \in ScanRecord /\ provider[c] \in ProviderRecord /\ scan[c].next \in 1..(Len(scan[c].inventory) + 1)
  BY DEF VulnerabilityTyped
<1>2. scan[c].inventory \in Seq(Deps)
  <2>1. scan[c].inventory \in Inventories \cup {<< >>}
    BY <1>1 DEF ScanRecord
  <2>2. << >> \in Seq(Deps)
    OBVIOUS
  <2>3. CASE scan[c].inventory = << >>
    BY <2>2, <2>3
  <2>4. CASE scan[c].inventory \in Inventories
    BY <2>4, VulnerabilityAssumption
  <2> QED
    BY <2>1, <2>3, <2>4
<1>3. DOMAIN scan[c].inventory = 1..Len(scan[c].inventory) /\ Len(scan[c].inventory) \in Nat
      /\ \A i \in DOMAIN scan[c].inventory : scan[c].inventory[i] \in Deps
  BY <1>2
<1>4. \A i \in DOMAIN scan[c].inventory : PackageOf[scan[c].inventory[i]] \in Packages
  BY <1>3 DEF Packages
<1>5. scan[c].next \in Nat \ {0} /\ scan[c].next <= Len(scan[c].inventory) + 1
  BY <1>1, <1>3
<1> QED
  BY <1>1, <1>2, <1>3, <1>4, <1>5 DEF Asking, Asked

LEMMA NoScanTyped == NoScan \in ScanRecord /\ NoCache \in [Deps -> Answers] /\ Closed \in ProviderRecord
BY DEF NoScan, NoCache, Closed, ScanRecord, ProviderRecord, Answers

(* Whoever is not at work in a step has what it had: what is published, and *)
(* what failed or came early, only grows.                                   *)
LEMMA OthersKeep ==
  ASSUME VulnerabilityInv, NEW c \in Commands, scan'[c] = scan[c],
         published \subseteq published', failed \subseteq failed', early \subseteq early'
  PROVE  AnswersOf(c)' /\ ReportOf(c)'
<1>1. AnswersOf(c) /\ ReportOf(c)
  BY DEF VulnerabilityInv
<1>2. Listed(c)' = Listed(c) /\ \A d : SamePackage(c, d)' <=> SamePackage(c, d)
  BY DEF SamePackage, Listed
<1>3. ASSUME NEW d, Answered(c, d) PROVE Answered(c, d)'
  BY <1>2, <1>3 DEF Answered
<1>4. ASSUME NEW i \in DOMAIN scan[c].inventory, i < scan[c].next PROVE Answered(c, scan[c].inventory[i])'
  <2>1. PICK d : d = scan[c].inventory[i] /\ Answered(c, d)
    BY <1>1, <1>4 DEF AnswersOf
  <2>2. Answered(c, d)'
    BY <1>3, <2>1
  <2> QED
    BY <2>1, <2>2 DEF Answered, SamePackage, Listed
<1>5. AnswersOf(c)'
  BY <1>1, <1>4 DEF AnswersOf
<1>6. ReportOf(c)'
  BY <1>1, <1>2 DEF ReportOf
<1> QED
  BY <1>5, <1>6

(* One scan takes a step.                                                   *)
LEMMA OneScanStep ==
  ASSUME VulnerabilityInv, NEW c \in Commands, \A e \in Commands \ {c} : scan'[e] = scan[e],
         VulnerabilityTyped', CachesTell', AnswersOf(c)', ReportOf(c)',
         published \subseteq published', failed \subseteq failed', early \subseteq early'
  PROVE  VulnerabilityInv'
<1>1. ASSUME NEW e \in Commands \ {c} PROVE AnswersOf(e)' /\ ReportOf(e)'
  BY <1>1, OthersKeep
<1> QED
  BY <1>1 DEF VulnerabilityInv

(* An answer to what a scan asks: a hit is a true one, and an empty one of  *)
(* what is affected has its reason.                                         *)
LEMMA AnswerStep ==
  ASSUME VulnerabilityInv, NEW c \in Commands, Asking(c), VulnerabilityTyped', CachesTell',
         NEW STATE answer, answer \in {"hit", "empty"}, NEW at \in {"asking", "saving"},
         NEW STATE more, more \subseteq Deps,
         scan' = [Answer(c, answer, at) EXCEPT ![c].skipped = @ \cup more],
         published \subseteq published', failed \subseteq failed', early \subseteq early',
         answer = "hit" => PackageOf[Asked(c)] \in published,
         answer = "empty" /\ Asked(c) \in Affected /\ PackageOf[Asked(c)] \in published
            => Asked(c) \in failed' \cup early' \cup more
  PROVE  VulnerabilityInv'
<1> DEFINE s == scan[c]
           t == scan'[c]
           a == Asked(c)
<1>1. /\ s \in ScanRecord /\ s.inventory \in Seq(Deps) /\ s.next \in Nat \ {0} /\ Len(s.inventory) \in Nat
      /\ DOMAIN s.inventory = 1..Len(s.inventory)
      /\ a \in Deps /\ PackageOf[a] \in Packages /\ a = s.inventory[s.next] /\ s.next \in DOMAIN s.inventory
      /\ \A i \in DOMAIN s.inventory : s.inventory[i] \in Deps /\ PackageOf[s.inventory[i]] \in Packages
  BY ScanFields DEF VulnerabilityInv, Asked, Packages
<1>2. scan \in [Commands -> ScanRecord]
  BY DEF VulnerabilityInv, VulnerabilityTyped
<1>3. /\ t.inventory = s.inventory /\ t.next = s.next + 1 /\ t.known = s.known /\ t.reported = s.reported
      /\ t.at = at /\ t.skipped = s.skipped \cup more
      /\ t.answers = [s.answers EXCEPT ![PackageOf[a]] = answer]
      /\ \A e \in Commands \ {c} : scan'[e] = scan[e]
  BY <1>1, <1>2 DEF Answer, ScanRecord
<1>4. s.answers \in [Packages -> Answers]
  BY <1>1 DEF ScanRecord
<1>5. AnswersOf(c)
  BY DEF VulnerabilityInv
<1>6. t.known \subseteq published' /\ \A p \in Packages : t.answers[p] = "hit" => p \in published'
  BY <1>1, <1>3, <1>4, <1>5 DEF AnswersOf
<1>7. ASSUME NEW i \in DOMAIN s.inventory, i < s.next + 1 PROVE Answered(c, s.inventory[i])'
  <2> DEFINE d == s.inventory[i]
  <2> SUFFICES ASSUME d \in Affected, PackageOf[d] \in s.known
               PROVE  \/ t.answers[PackageOf[d]] = "hit"
                      \/ d \in failed' \cup early' \cup t.skipped
                      \/ SamePackage(c, d)'
    BY <1>3 DEF Answered
  <2>1. CASE d = a
    <3>1. t.answers[PackageOf[d]] = answer
      BY <1>1, <1>3, <1>4, <2>1
    <3>2. PackageOf[a] \in published
      BY <1>5, <2>1 DEF AnswersOf
    <3> QED
      BY <1>3, <2>1, <3>1, <3>2
  <2>2. CASE d # a /\ PackageOf[d] = PackageOf[a]
    <3>1. a \in Listed(c)'
      BY <1>1, <1>3 DEF Listed
    <3> QED
      BY <1>3, <2>2, <3>1 DEF SamePackage
  <2>3. CASE PackageOf[d] # PackageOf[a]
    <3>1. i < s.next
      BY <1>1, <1>7, <2>3
    <3>2. Answered(c, d)
      BY <1>5, <3>1 DEF AnswersOf
    <3>3. t.answers[PackageOf[d]] = s.answers[PackageOf[d]]
      BY <1>1, <1>3, <1>4, <2>3
    <3>4. SamePackage(c, d)' <=> SamePackage(c, d)
      BY <1>3 DEF SamePackage, Listed
    <3> QED
      BY <1>3, <3>2, <3>3, <3>4 DEF Answered
  <2> QED
    BY <2>1, <2>2, <2>3
<1>8. AnswersOf(c)' /\ ReportOf(c)'
  BY <1>3, <1>6, <1>7 DEF AnswersOf, ReportOf
<1> QED
  BY <1>3, <1>8, OneScanStep

LEMMA ProviderFields ==
  ASSUME VulnerabilityInv, NEW c \in Commands
  PROVE  /\ provider[c] \in ProviderRecord /\ provider \in [Commands -> ProviderRecord]
         /\ scan \in [Commands -> ScanRecord] /\ cacheFile \in [Deps -> Answers]
         /\ TrueAnswers(cacheFile) /\ TrueAnswers(provider[c].memory)
BY DEF VulnerabilityInv, VulnerabilityTyped, CachesTell

(* What was true of a cache stays true while advisories come out, and while *)
(* queries fail.                                                            *)
LEMMA CachesStayTrue ==
  ASSUME NEW STATE cache, TrueAnswers(cache),
         published \subseteq published', failed \subseteq failed', early \subseteq early'
  PROVE  \A d \in Deps : /\ cache[d] = "hit" => d \in Affected /\ PackageOf[d] \in published'
                        /\ cache[d] = "empty" /\ d \in Affected => d \in failed' \cup early'
BY DEF TrueAnswers

LEMMA OpenProviderStep ==
  ASSUME VulnerabilityInv, NEW c \in Commands, NEW yes \in BOOLEAN, OpenProvider(c, yes)
  PROVE  VulnerabilityInv'
<1>1. provider' \in [Commands -> ProviderRecord] /\ \A e \in Commands \ {c} : provider'[e] = provider[e]
  BY ProviderFields, NoScanTyped DEF OpenProvider, ProviderRecord, Closed
<1>2. provider'[c].memory = cacheFile
  BY ProviderFields DEF OpenProvider, Closed
<1>3. VulnerabilityTyped'
  BY <1>1 DEF OpenProvider, VulnerabilityInv, VulnerabilityTyped
<1>4. ASSUME NEW e \in Commands PROVE TrueAnswers(provider[e].memory)'
  <2>1. CASE e = c
    BY <1>2, <2>1, ProviderFields DEF OpenProvider, TrueAnswers
  <2>2. CASE e # c
    BY <1>1, <1>4, <2>2, ProviderFields DEF OpenProvider, TrueAnswers
  <2> QED
    BY <2>1, <2>2
<1>5. TrueAnswers(cacheFile)'
  BY ProviderFields DEF OpenProvider, TrueAnswers
<1>6. CachesTell'
  BY <1>4, <1>5 DEF CachesTell
<1>7. ASSUME NEW e \in Commands PROVE AnswersOf(e)' /\ ReportOf(e)'
  <2>1. scan' = scan /\ published' = published /\ failed' = failed /\ early' = early
    BY DEF OpenProvider
  <2> QED
    BY <1>7, <2>1, OthersKeep
<1> QED
  BY <1>3, <1>6, <1>7 DEF VulnerabilityInv

LEMMA CloseProviderStep ==
  ASSUME VulnerabilityInv, NEW c \in Commands, CloseProvider(c)
  PROVE  VulnerabilityInv'
<1>1. /\ provider' \in [Commands -> ProviderRecord] /\ scan' \in [Commands -> ScanRecord]
      /\ provider'[c] = Closed /\ scan'[c] = NoScan
      /\ \A e \in Commands \ {c} : provider'[e] = provider[e] /\ scan'[e] = scan[e]
  BY ProviderFields, NoScanTyped DEF CloseProvider
<1>2. \A e \in Commands : scan'[e].next \in 1..(Len(scan'[e].inventory) + 1)
  <2>1. NoScan.next \in 1..(Len(NoScan.inventory) + 1)
    BY DEF NoScan
  <2>2. ASSUME NEW e \in Commands \ {c} PROVE scan'[e].next \in 1..(Len(scan'[e].inventory) + 1)
    BY <1>1, <2>2 DEF VulnerabilityInv, VulnerabilityTyped
  <2> QED
    BY <1>1, <2>1, <2>2
<1>3. VulnerabilityTyped'
  BY <1>1, <1>2 DEF CloseProvider, VulnerabilityInv, VulnerabilityTyped
<1>4. ASSUME NEW e \in Commands PROVE TrueAnswers(provider[e].memory)'
  <2>1. CASE e = c
    BY <1>1, <2>1 DEF TrueAnswers, Closed, NoCache
  <2>2. CASE e # c
    BY <1>1, <1>4, <2>2, ProviderFields DEF CloseProvider, TrueAnswers
  <2> QED
    BY <2>1, <2>2
<1>5. TrueAnswers(cacheFile)'
  BY ProviderFields DEF CloseProvider, TrueAnswers
<1>6. CachesTell'
  BY <1>4, <1>5 DEF CachesTell
<1>7. AnswersOf(c)' /\ ReportOf(c)'
  BY <1>1 DEF AnswersOf, ReportOf, NoScan
<1>8. published' = published /\ failed' = failed /\ early' = early
  BY DEF CloseProvider
<1> QED
  BY <1>1, <1>3, <1>6, <1>7, <1>8, OneScanStep

LEMMA BeginScanStep ==
  ASSUME VulnerabilityInv, NEW c \in Commands, NEW inventory \in Inventories, BeginScan(c, inventory)
  PROVE  VulnerabilityInv'
<1>1. /\ scan' \in [Commands -> ScanRecord] /\ \A e \in Commands \ {c} : scan'[e] = scan[e]
      /\ scan'[c] = [NoScan EXCEPT !.at = "asking", !.inventory = inventory, !.known = published]
  <2>1. published \subseteq Packages
    BY DEF VulnerabilityInv, VulnerabilityTyped
  <2> QED
    BY <2>1, ProviderFields DEF BeginScan, NoScan, ScanRecord, Answers
<1>2. inventory \in Seq(Deps) /\ Len(inventory) \in Nat /\ DOMAIN inventory = 1..Len(inventory)
  BY VulnerabilityAssumption
<1>3. /\ scan'[c].at = "asking" /\ scan'[c].inventory = inventory /\ scan'[c].known = published
      /\ scan'[c].next = 1 /\ scan'[c].answers = [p \in Packages |-> "none"]
  BY <1>1 DEF NoScan
<1>4. \A e \in Commands : scan'[e].next \in 1..(Len(scan'[e].inventory) + 1)
  <2>1. ASSUME NEW e \in Commands \ {c} PROVE scan'[e].next \in 1..(Len(scan'[e].inventory) + 1)
    BY <1>1, <2>1 DEF VulnerabilityInv, VulnerabilityTyped
  <2> QED
    BY <1>2, <1>3, <2>1
<1>5. begun' \in 0..MaxScans
  BY VulnerabilityAssumption DEF BeginScan, VulnerabilityInv, VulnerabilityTyped
<1>6. VulnerabilityTyped'
  BY <1>1, <1>4, <1>5 DEF BeginScan, VulnerabilityInv, VulnerabilityTyped
<1>7. CachesTell'
  BY DEF BeginScan, VulnerabilityInv, CachesTell, TrueAnswers
<1>8. published' = published /\ failed' = failed /\ early' = early
  BY DEF BeginScan
<1>9. AnswersOf(c)' /\ ReportOf(c)'
  BY <1>2, <1>3, <1>8 DEF AnswersOf, ReportOf
<1> QED
  BY <1>1, <1>6, <1>7, <1>8, <1>9, OneScanStep
LEMMA AnswerTyped ==
  ASSUME VulnerabilityInv, NEW c \in Commands, Asking(c),
         NEW STATE answer, answer \in {"hit", "empty"}, NEW at \in {"asking", "saving"},
         NEW STATE more, more \subseteq Deps,
         scan' = [Answer(c, answer, at) EXCEPT ![c].skipped = @ \cup more]
  PROVE  /\ scan' \in [Commands -> ScanRecord]
         /\ \A e \in Commands : scan'[e].next \in 1..(Len(scan'[e].inventory) + 1)
<1> DEFINE s == scan[c]
           a == Asked(c)
<1>1. /\ s \in ScanRecord /\ s.next \in Nat \ {0} /\ Len(s.inventory) \in Nat
      /\ a \in Deps /\ PackageOf[a] \in Packages
  BY ScanFields DEF VulnerabilityInv, Packages
<1>2. scan \in [Commands -> ScanRecord]
  BY ProviderFields
<1>3. s.answers \in [Packages -> Answers] /\ answer \in Answers
  BY <1>1 DEF ScanRecord, Answers
<1>4. scan' = [scan EXCEPT ![c] = [s EXCEPT !.answers = [@ EXCEPT ![PackageOf[a]] = answer],
                                           !.at = at, !.next = @ + 1, !.skipped = @ \cup more]]
  BY <1>1, <1>2 DEF Answer, ScanRecord
<1>5. [s EXCEPT !.answers = [@ EXCEPT ![PackageOf[a]] = answer],
                !.at = at, !.next = @ + 1, !.skipped = @ \cup more] \in ScanRecord
  <2>1. [s.answers EXCEPT ![PackageOf[a]] = answer] \in [Packages -> Answers]
    BY <1>1, <1>3
  <2>2. s.skipped \cup more \in SUBSET Deps /\ s.next + 1 \in Nat
    BY <1>1 DEF ScanRecord
  <2> QED
    BY <1>1, <2>1, <2>2 DEF ScanRecord
<1>6. scan' \in [Commands -> ScanRecord]
  BY <1>2, <1>4, <1>5
<1>7. ASSUME NEW e \in Commands PROVE scan'[e].next \in 1..(Len(scan'[e].inventory) + 1)
  <2>1. CASE e = c
    <3> DEFINE t == [s EXCEPT !.answers = [@ EXCEPT ![PackageOf[a]] = answer],
                              !.at = at, !.next = @ + 1, !.skipped = @ \cup more]
    <3>1. scan'[c].next = s.next + 1 /\ scan'[c].inventory = s.inventory
      <4>1. scan'[c] = t
        BY <1>2, <1>4
      <4>2. t.next = s.next + 1 /\ t.inventory = s.inventory
        BY <1>1 DEF ScanRecord
      <4> QED
        BY <4>1, <4>2
    <3>2. s.next <= Len(s.inventory)
      BY DEF Asking
    <3> QED
      BY <1>1, <2>1, <3>1, <3>2
  <2>2. CASE e # c
    BY <1>2, <1>4, <1>7, <2>2 DEF VulnerabilityInv, VulnerabilityTyped
  <2> QED
    BY <2>1, <2>2
<1> QED
  BY <1>6, <1>7

LEMMA QueryCachedStep ==
  ASSUME VulnerabilityInv, NEW c \in Commands, QueryCached(c)
  PROVE  VulnerabilityInv'
<1> DEFINE answer == provider[c].memory[Asked(c)]
<1>1. PICK none : none = {}
  OBVIOUS
<1>2. Asked(c) \in Deps /\ Asking(c) /\ TrueAnswers(provider[c].memory)
  BY ScanFields, ProviderFields DEF QueryCached, VulnerabilityInv
<1>3. answer \in {"hit", "empty"}
  BY <1>2, ProviderFields DEF QueryCached, ProviderRecord, Answers
<1>4. scan' = [Answer(c, answer, "asking") EXCEPT ![c].skipped = @ \cup none]
  <2>1. scan' = Answer(c, answer, "asking")
    BY DEF QueryCached
  <2>2. Answer(c, answer, "asking")[c].skipped \cup none = Answer(c, answer, "asking")[c].skipped
    BY <1>1
  <2>3. scan \in [Commands -> ScanRecord]
    BY ProviderFields
  <2> QED
    BY <2>1, <2>2, <2>3 DEF Answer, ScanRecord
<1>5. /\ published' = published /\ failed' = failed /\ early' = early /\ begun' = begun
      /\ provider' = provider /\ cacheFile' = cacheFile
  BY DEF QueryCached
<1> HIDE DEF answer
<1>6. scan' \in [Commands -> ScanRecord] /\ \A e \in Commands : scan'[e].next \in 1..(Len(scan'[e].inventory) + 1)
  BY <1>1, <1>2, <1>3, <1>4, AnswerTyped
<1>7. VulnerabilityTyped'
  BY <1>5, <1>6 DEF VulnerabilityInv, VulnerabilityTyped
<1>8. CachesTell'
  BY <1>5 DEF VulnerabilityInv, CachesTell, TrueAnswers
<1>9. /\ answer = "hit" => PackageOf[Asked(c)] \in published
      /\ answer = "empty" /\ Asked(c) \in Affected => Asked(c) \in failed \cup early
  BY <1>2 DEF TrueAnswers, answer
<1> QED
  BY <1>1, <1>2, <1>3, <1>4, <1>5, <1>7, <1>8, <1>9, AnswerStep

LEMMA QueryOfflineStep ==
  ASSUME VulnerabilityInv, NEW c \in Commands, QueryOffline(c)
  PROVE  VulnerabilityInv'
<1> DEFINE more == {Asked(c)}
<1>1. PICK answer : answer = "empty"
  OBVIOUS
<1>2. Asked(c) \in Deps /\ Asking(c)
  BY ScanFields DEF QueryOffline, VulnerabilityInv
<1>3. scan' = [Answer(c, answer, "asking") EXCEPT ![c].skipped = @ \cup more]
  BY <1>1 DEF QueryOffline
<1>4. more \subseteq Deps /\ Asked(c) \in more
  BY <1>2
<1>5. /\ published' = published /\ failed' = failed /\ early' = early /\ begun' = begun
      /\ provider' = provider /\ cacheFile' = cacheFile
  BY DEF QueryOffline
<1> HIDE DEF more
<1>6. scan' \in [Commands -> ScanRecord] /\ \A e \in Commands : scan'[e].next \in 1..(Len(scan'[e].inventory) + 1)
  BY <1>1, <1>2, <1>3, <1>4, AnswerTyped
<1>7. VulnerabilityTyped'
  BY <1>5, <1>6 DEF VulnerabilityInv, VulnerabilityTyped
<1>8. CachesTell'
  BY <1>5 DEF VulnerabilityInv, CachesTell, TrueAnswers
<1> QED
  BY <1>1, <1>2, <1>3, <1>4, <1>5, <1>7, <1>8, AnswerStep

(* A query that the database was asked for: its answer is remembered.       *)
LEMMA AskedStep ==
  ASSUME VulnerabilityInv, NEW c \in Commands, Asking(c),
         NEW STATE answer, answer \in {"hit", "empty"}, NEW status \in {"AVAILABLE", "DOWN"},
         Remember(c, answer, status), scan' = Answer(c, answer, "saving"),
         cacheFile' = cacheFile, published' = published, begun' = begun,
         failed \subseteq failed', early \subseteq early', failed' \subseteq Deps, early' \subseteq Deps,
         answer = "hit" => Asked(c) \in Affected /\ PackageOf[Asked(c)] \in published,
         answer = "empty" /\ Asked(c) \in Affected => Asked(c) \in failed' \cup early'
  PROVE  VulnerabilityInv'
<1>1. PICK none : none = {}
  OBVIOUS
<1>2. Asked(c) \in Deps
  BY ScanFields DEF VulnerabilityInv
<1>3. scan' = [Answer(c, answer, "saving") EXCEPT ![c].skipped = @ \cup none]
  <2>1. Answer(c, answer, "saving")[c].skipped \cup none = Answer(c, answer, "saving")[c].skipped
    BY <1>1
  <2>2. scan \in [Commands -> ScanRecord]
    BY ProviderFields
  <2> QED
    BY <2>1, <2>2 DEF Answer, ScanRecord
<1>4. scan' \in [Commands -> ScanRecord] /\ \A e \in Commands : scan'[e].next \in 1..(Len(scan'[e].inventory) + 1)
  <2>1. none \subseteq Deps /\ "saving" \in {"asking", "saving"}
    BY <1>1
  <2> QED
    BY <1>3, <2>1, AnswerTyped
<1>5. /\ provider' \in [Commands -> ProviderRecord]
      /\ \A e \in Commands \ {c} : provider'[e] = provider[e]
      /\ \A d \in Deps : provider'[c].memory[d] = IF d = Asked(c) THEN answer ELSE provider[c].memory[d]
  <2>1. [d \in Deps |-> IF d \in CacheKey(Asked(c)) THEN answer ELSE provider[c].memory[d]] \in [Deps -> Answers]
    BY ProviderFields DEF ProviderRecord, Answers
  <2>2. provider' = [provider EXCEPT ![c] = [provider[c] EXCEPT !.status = status,
             !.memory = [d \in Deps |-> IF d \in CacheKey(Asked(c)) THEN answer ELSE provider[c].memory[d]]]]
    BY ProviderFields DEF Remember, ProviderRecord
  <2>3. [provider[c] EXCEPT !.status = status,
             !.memory = [d \in Deps |-> IF d \in CacheKey(Asked(c)) THEN answer ELSE provider[c].memory[d]]]
        \in ProviderRecord
    BY <2>1, ProviderFields DEF ProviderRecord
  <2>4. provider'[c].memory = [d \in Deps |-> IF d \in CacheKey(Asked(c)) THEN answer ELSE provider[c].memory[d]]
    BY <2>2, ProviderFields DEF ProviderRecord
  <2> QED
    BY <2>2, <2>3, <2>4, ProviderFields DEF CacheKey
<1>6. VulnerabilityTyped'
  BY <1>4, <1>5 DEF VulnerabilityInv, VulnerabilityTyped
<1>7. ASSUME NEW e \in Commands PROVE TrueAnswers(provider[e].memory)'
  <2>1. TrueAnswers(provider[e].memory)
    BY ProviderFields
  <2>2. CASE e = c
    <3>1. ASSUME NEW d \in Deps
          PROVE  /\ provider'[c].memory[d] = "hit" => d \in Affected /\ PackageOf[d] \in published'
                 /\ provider'[c].memory[d] = "empty" /\ d \in Affected => d \in failed' \cup early'
      <4>1. CASE d = Asked(c)
        BY <1>5, <3>1, <4>1
      <4>2. CASE d # Asked(c)
        BY <1>5, <2>1, <2>2, <3>1, <4>2 DEF TrueAnswers
      <4> QED
        BY <4>1, <4>2
    <3> QED
      BY <2>2, <3>1 DEF TrueAnswers
  <2>3. CASE e # c
    BY <1>5, <2>1, <2>3 DEF TrueAnswers
  <2> QED
    BY <2>2, <2>3
<1>8. TrueAnswers(cacheFile)'
  BY ProviderFields DEF TrueAnswers
<1>9. CachesTell'
  BY <1>7, <1>8 DEF CachesTell
<1> QED
  BY <1>1, <1>3, <1>6, <1>9, AnswerStep

LEMMA QueryDatabaseStep ==
  ASSUME VulnerabilityInv, NEW c \in Commands, QueryDatabase(c)
  PROVE  VulnerabilityInv'
<1> DEFINE answer == IF Asked(c) \in Affected /\ PackageOf[Asked(c)] \in published THEN "hit" ELSE "empty"
<1>1. Asking(c) /\ Asked(c) \in Deps
  BY ScanFields DEF QueryDatabase, VulnerabilityInv
<1>2. /\ Remember(c, answer, "AVAILABLE") /\ scan' = Answer(c, answer, "saving")
      /\ cacheFile' = cacheFile /\ published' = published /\ begun' = begun /\ failed' = failed
  BY DEF QueryDatabase
<1>3. /\ early \subseteq early' /\ early' \subseteq Deps /\ failed' \subseteq Deps
      /\ PackageOf[Asked(c)] \notin published => Asked(c) \in early'
  BY <1>1, <1>2 DEF QueryDatabase, VulnerabilityInv, VulnerabilityTyped
<1>4. /\ answer \in {"hit", "empty"}
      /\ answer = "hit" => Asked(c) \in Affected /\ PackageOf[Asked(c)] \in published
      /\ answer = "empty" /\ Asked(c) \in Affected => PackageOf[Asked(c)] \notin published
  OBVIOUS
<1>5. PICK status : status = "AVAILABLE"
  OBVIOUS
<1>6. Remember(c, answer, status) /\ status \in {"AVAILABLE", "DOWN"}
  BY <1>2, <1>5
<1>7. /\ failed \subseteq failed'
      /\ (answer = "empty" /\ Asked(c) \in Affected => Asked(c) \in failed' \cup early')
  BY <1>2, <1>3, <1>4
<1> HIDE DEF answer
<1> QED
  BY <1>1, <1>2, <1>3, <1>4, <1>6, <1>7, AskedStep

LEMMA QueryFailsStep ==
  ASSUME VulnerabilityInv, NEW c \in Commands, NEW status \in {"AVAILABLE", "DOWN"}, QueryFails(c, status)
  PROVE  VulnerabilityInv'
<1>1. Asking(c) /\ Asked(c) \in Deps
  BY ScanFields DEF QueryFails, VulnerabilityInv
<1>2. PICK answer : answer = "empty"
  OBVIOUS
<1>3. /\ Remember(c, answer, status) /\ scan' = Answer(c, answer, "saving")
      /\ cacheFile' = cacheFile /\ published' = published /\ begun' = begun /\ early' = early
      /\ failed' = failed \cup {Asked(c)}
  BY <1>2 DEF QueryFails
<1>4. failed' \subseteq Deps /\ early' \subseteq Deps
  BY <1>1, <1>3 DEF VulnerabilityInv, VulnerabilityTyped
<1> QED
  BY <1>1, <1>2, <1>3, <1>4, AskedStep

LEMMA SaveCacheStep ==
  ASSUME VulnerabilityInv, NEW c \in Commands, NEW written \in BOOLEAN, SaveCache(c, written)
  PROVE  VulnerabilityInv'
<1>1. /\ scan' \in [Commands -> ScanRecord] /\ \A e \in Commands \ {c} : scan'[e] = scan[e]
      /\ scan'[c] = [scan[c] EXCEPT !.at = "asking"]
  <2>1. [scan[c] EXCEPT !.at = "asking"] \in ScanRecord
    BY ProviderFields DEF ScanRecord
  <2>2. scan' = [scan EXCEPT ![c] = [scan[c] EXCEPT !.at = "asking"]]
    BY ProviderFields DEF SaveCache
  <2> QED
    BY <2>1, <2>2, ProviderFields
<1>2. /\ scan'[c].inventory = scan[c].inventory /\ scan'[c].next = scan[c].next
      /\ scan'[c].answers = scan[c].answers /\ scan'[c].known = scan[c].known
      /\ scan'[c].skipped = scan[c].skipped /\ scan'[c].at = "asking"
  BY <1>1, ProviderFields DEF ScanRecord
<1>3. \A e \in Commands : scan'[e].next \in 1..(Len(scan'[e].inventory) + 1)
  BY <1>1, <1>2 DEF VulnerabilityInv, VulnerabilityTyped
<1>4. cacheFile' \in [Deps -> Answers]
  <2>1. CASE written
    BY <2>1, ProviderFields DEF SaveCache, ProviderRecord
  <2>2. CASE ~written
    BY <2>2, ProviderFields DEF SaveCache
  <2> QED
    BY <2>1, <2>2
<1>5. VulnerabilityTyped'
  BY <1>1, <1>3, <1>4 DEF SaveCache, VulnerabilityInv, VulnerabilityTyped
<1>6. TrueAnswers(cacheFile)'
  <2>1. CASE written
    BY <2>1, ProviderFields DEF SaveCache, TrueAnswers
  <2>2. CASE ~written
    BY <2>2, ProviderFields DEF SaveCache, TrueAnswers
  <2> QED
    BY <2>1, <2>2
<1>7. \A e \in Commands : TrueAnswers(provider[e].memory)'
  BY ProviderFields DEF SaveCache, TrueAnswers
<1>8. CachesTell'
  BY <1>6, <1>7 DEF CachesTell
<1>9. published' = published /\ failed' = failed /\ early' = early
  BY DEF SaveCache
<1>10. AnswersOf(c)
  BY DEF VulnerabilityInv
<1>11. Listed(c)' = Listed(c)
  BY <1>2 DEF Listed
<1>12. ASSUME NEW i \in DOMAIN scan[c].inventory, i < scan[c].next PROVE Answered(c, scan[c].inventory[i])'
  <2>1. Answered(c, scan[c].inventory[i])
    BY <1>10, <1>12 DEF AnswersOf
  <2> QED
    BY <1>2, <1>9, <1>11, <2>1 DEF Answered, SamePackage
<1>13. AnswersOf(c)' /\ ReportOf(c)'
  BY <1>2, <1>9, <1>10, <1>12 DEF AnswersOf, ReportOf
<1> QED
  BY <1>1, <1>5, <1>8, <1>9, <1>13, OneScanStep
LEMMA JudgeScanStep ==
  ASSUME VulnerabilityInv, NEW c \in Commands, JudgeScan(c)
  PROVE  VulnerabilityInv'
<1> DEFINE s == scan[c]
           found == {s.inventory[i] : i \in {j \in DOMAIN s.inventory :
                        /\ FirstOfPackage(s.inventory, j)
                        /\ s.answers[PackageOf[s.inventory[j]]] = "hit"
                        /\ s.inventory[j] \in Affected}}
<1>1. /\ s \in ScanRecord /\ s.next \in Nat /\ Len(s.inventory) \in Nat /\ s.next > Len(s.inventory)
      /\ DOMAIN s.inventory = 1..Len(s.inventory)
      /\ \A i \in DOMAIN s.inventory : s.inventory[i] \in Deps /\ PackageOf[s.inventory[i]] \in Packages
  BY ScanFields DEF JudgeScan, VulnerabilityInv
<1>2. found \subseteq Deps
  BY <1>1
<1>3. /\ scan' \in [Commands -> ScanRecord] /\ \A e \in Commands \ {c} : scan'[e] = scan[e]
      /\ scan'[c] = [s EXCEPT !.at = "done", !.reported = found]
  <2>1. [s EXCEPT !.at = "done", !.reported = found] \in ScanRecord
    BY <1>1, <1>2 DEF ScanRecord
  <2>2. scan' = [scan EXCEPT ![c] = [s EXCEPT !.at = "done", !.reported = found]]
    BY ProviderFields DEF JudgeScan
  <2> HIDE DEF found
  <2> QED
    BY <2>1, <2>2, ProviderFields
<1>4. /\ scan'[c].inventory = s.inventory /\ scan'[c].next = s.next /\ scan'[c].answers = s.answers
      /\ scan'[c].known = s.known /\ scan'[c].skipped = s.skipped /\ scan'[c].at = "done"
      /\ scan'[c].reported = found
  <2> HIDE DEF found
  <2> QED
    BY <1>1, <1>3 DEF ScanRecord
<1>5. /\ published' = published /\ failed' = failed /\ early' = early /\ begun' = begun
      /\ provider' = provider /\ cacheFile' = cacheFile
  BY DEF JudgeScan
<1>6. \A e \in Commands : scan'[e].next \in 1..(Len(scan'[e].inventory) + 1)
  BY <1>3, <1>4 DEF VulnerabilityInv, VulnerabilityTyped
<1>7. VulnerabilityTyped'
  BY <1>3, <1>5, <1>6 DEF VulnerabilityInv, VulnerabilityTyped
<1>8. CachesTell'
  BY <1>5 DEF VulnerabilityInv, CachesTell, TrueAnswers
<1>9. AnswersOf(c)
  BY DEF VulnerabilityInv
<1>10. Listed(c)' = Listed(c)
  BY <1>4 DEF Listed
<1>11. ASSUME NEW i \in DOMAIN s.inventory, i < s.next PROVE Answered(c, s.inventory[i])'
  <2>1. Answered(c, s.inventory[i])
    BY <1>9, <1>11 DEF AnswersOf
  <2> QED
    BY <1>4, <1>5, <1>10, <2>1 DEF Answered, SamePackage
<1>12. AnswersOf(c)'
  <2> HIDE DEF found
  <2> QED
    BY <1>1, <1>4, <1>5, <1>9, <1>11 DEF AnswersOf
<1>13. ASSUME NEW d \in Listed(c), d \in Affected, ~SamePackage(c, d), s.answers[PackageOf[d]] = "hit"
       PROVE  d \in found
  <2> DEFINE places == {i \in DOMAIN s.inventory : s.inventory[i] = d}
  <2>1. places # {} /\ places \subseteq Nat
    BY <1>1, <1>13 DEF Listed
  <2>2. PICK i \in places : \A j \in places : i <= j
    BY <2>1, EarliestExists
  <2>3. ASSUME NEW j \in 1..(i - 1), PackageOf[s.inventory[j]] = PackageOf[s.inventory[i]] PROVE FALSE
    <3>1. j \in DOMAIN s.inventory /\ j < i /\ s.inventory[i] = d
      BY <1>1, <2>2
    <3>2. s.inventory[j] # d
      BY <2>2, <3>1, <1>1
    <3> QED
      BY <1>13, <2>3, <3>1, <3>2 DEF SamePackage, Listed
  <2>4. FirstOfPackage(s.inventory, i) /\ i \in DOMAIN s.inventory /\ s.inventory[i] = d
    BY <2>2, <2>3 DEF FirstOfPackage
  <2> QED
    BY <1>13, <2>4
<1>14. ASSUME NEW d \in found PROVE d \in Affected /\ PackageOf[d] \in published
  BY <1>1, <1>9, <1>14 DEF AnswersOf
<1>15. ReportOf(c)'
  <2> HIDE DEF found
  <2>1. \A d : SamePackage(c, d)' <=> SamePackage(c, d)
    BY <1>10 DEF SamePackage
  <2> QED
    BY <1>4, <1>5, <1>10, <1>13, <1>14, <2>1 DEF ReportOf
<1> QED
  BY <1>3, <1>5, <1>7, <1>8, <1>12, <1>15, OneScanStep

LEMMA PublishAdvisoryStep ==
  ASSUME VulnerabilityInv, NEW p \in Packages, PublishAdvisory(p)
  PROVE  VulnerabilityInv'
<1>1. /\ scan' = scan /\ published \subseteq published' /\ failed' = failed /\ early' = early /\ begun' = begun
      /\ provider' = provider /\ cacheFile' = cacheFile /\ published' \subseteq Packages
  BY DEF PublishAdvisory, VulnerabilityInv, VulnerabilityTyped
<1>2. VulnerabilityTyped'
  BY <1>1 DEF VulnerabilityInv, VulnerabilityTyped
<1>3. CachesTell'
  BY <1>1 DEF VulnerabilityInv, CachesTell, TrueAnswers
<1>4. ASSUME NEW c \in Commands PROVE AnswersOf(c)' /\ ReportOf(c)'
  BY <1>1, <1>4, OthersKeep
<1> QED
  BY <1>2, <1>3, <1>4 DEF VulnerabilityInv

LEMMA VulnerabilityInitial == VulnerabilityInit => VulnerabilityInv
<1> SUFFICES ASSUME VulnerabilityInit PROVE VulnerabilityInv
  OBVIOUS
<1>1. VulnerabilityTyped
  <2>1. NoScan.next \in 1..(Len(NoScan.inventory) + 1)
    BY DEF NoScan
  <2>2. \A c \in Commands : scan[c] = NoScan
    BY DEF VulnerabilityInit
  <2> QED
    BY <2>1, <2>2, NoScanTyped, VulnerabilityAssumption DEF VulnerabilityInit, VulnerabilityTyped
<1>2. CachesTell
  BY DEF VulnerabilityInit, CachesTell, TrueAnswers, NoCache, Closed
<1>3. ASSUME NEW c \in Commands PROVE AnswersOf(c) /\ ReportOf(c)
  <2>1. scan[c] = NoScan
    BY <1>3 DEF VulnerabilityInit
  <2>2. /\ scan[c].known = {} /\ scan[c].at = "idle" /\ scan[c].inventory = << >>
        /\ scan[c].answers = [p \in Packages |-> "none"]
    BY <2>1 DEF NoScan
  <2> QED
    BY <2>2 DEF AnswersOf, ReportOf
<1> QED
  BY <1>1, <1>2, <1>3 DEF VulnerabilityInv

LEMMA VulnerabilityKept == VulnerabilityInv /\ [VulnerabilityNext]_vulnerabilityVars => VulnerabilityInv'
<1> SUFFICES ASSUME VulnerabilityInv, [VulnerabilityNext]_vulnerabilityVars PROVE VulnerabilityInv'
  OBVIOUS
<1>1. CASE UNCHANGED vulnerabilityVars
  <2>1. /\ scan' = scan /\ published' = published /\ failed' = failed /\ early' = early /\ begun' = begun
        /\ provider' = provider /\ cacheFile' = cacheFile
    BY <1>1 DEF vulnerabilityVars
  <2>2. VulnerabilityTyped' /\ CachesTell'
    BY <2>1 DEF VulnerabilityInv, VulnerabilityTyped, CachesTell, TrueAnswers
  <2>3. ASSUME NEW c \in Commands PROVE AnswersOf(c)' /\ ReportOf(c)'
    BY <2>1, <2>3, OthersKeep
  <2> QED
    BY <2>2, <2>3 DEF VulnerabilityInv
<1>2. CASE \E p \in Packages : PublishAdvisory(p)
  BY <1>2, PublishAdvisoryStep
<1>3. ASSUME NEW c \in Commands, NEW yes \in BOOLEAN, OpenProvider(c, yes) PROVE VulnerabilityInv'
  BY <1>3, OpenProviderStep
<1>4. ASSUME NEW c \in Commands, NEW yes \in BOOLEAN, SaveCache(c, yes) PROVE VulnerabilityInv'
  BY <1>4, SaveCacheStep
<1>5. ASSUME NEW c \in Commands, NEW inventory \in Inventories, BeginScan(c, inventory) PROVE VulnerabilityInv'
  BY <1>5, BeginScanStep
<1>6. ASSUME NEW c \in Commands, NEW status \in {provider[c].status, "DOWN"}, QueryFails(c, status)
      PROVE  VulnerabilityInv'
  <2>1. status \in {"AVAILABLE", "DOWN"}
    BY <1>6, ProviderFields DEF ProviderRecord
  <2> QED
    BY <1>6, <2>1, QueryFailsStep
<1>7. ASSUME NEW c \in Commands,
             CloseProvider(c) \/ QueryCached(c) \/ QueryOffline(c) \/ QueryDatabase(c) \/ JudgeScan(c)
      PROVE  VulnerabilityInv'
  BY <1>7, CloseProviderStep, QueryCachedStep, QueryOfflineStep, QueryDatabaseStep, JudgeScanStep
<1> QED
  BY <1>1, <1>2, <1>3, <1>4, <1>5, <1>6, <1>7 DEF VulnerabilityNext

LEMMA ReportsTell == VulnerabilityInv => MissExplained
<1> SUFFICES ASSUME VulnerabilityInv, NEW c \in Commands, scan[c].at = "done"
             PROVE  /\ \A d \in Listed(c) : /\ d \in Affected /\ PackageOf[d] \in scan[c].known
                                            /\ d \notin scan[c].reported
                                            => d \in failed \cup early \cup scan[c].skipped \/ SamePackage(c, d)
                    /\ \A d \in scan[c].reported : d \in Affected /\ PackageOf[d] \in published
  BY DEF MissExplained
<1>1. AnswersOf(c) /\ ReportOf(c)
  BY DEF VulnerabilityInv
<1>2. ASSUME NEW d \in Listed(c), d \in Affected, PackageOf[d] \in scan[c].known, d \notin scan[c].reported
      PROVE  d \in failed \cup early \cup scan[c].skipped \/ SamePackage(c, d)
  <2>1. PICK i \in DOMAIN scan[c].inventory : d = scan[c].inventory[i]
    BY <1>2 DEF Listed
  <2>2. i < scan[c].next
    BY <1>1, <2>1, ScanFields DEF VulnerabilityInv, AnswersOf
  <2>3. Answered(c, d)
    BY <1>1, <2>1, <2>2 DEF AnswersOf
  <2> QED
    BY <1>1, <1>2, <2>3 DEF Answered, ReportOf
<1> QED
  BY <1>1, <1>2 DEF ReportOf

(* Whatever commands share the cache of answers, whenever they end, and     *)
(* however the database answers, fails or learns: a scan misses an advisory *)
(* that was out when it began for the stated reasons only, and reports no   *)
(* other.                                                                   *)
THEOREM MissesExplained == VulnerabilitySpec => []MissExplained
<1>1. VulnerabilitySpec => []VulnerabilityInv
  BY VulnerabilityInitial, VulnerabilityKept, PTL DEF VulnerabilitySpec
<1> QED
  BY <1>1, ReportsTell, PTL

(* What a scan says of itself, and what is told of its history: HistoryTells.*)
THEOREM HistoryAlwaysTells == HistorySpec => []HistoryTells
<1>1. HistorySpec => []HistoryInv
  BY HistoryInitial, HistoryKept, PTL DEF HistorySpec
<1>2. HistoryInv => HistoryTells
  BY ScansTell DEF HistoryTells
<1> QED
  BY <1>1, <1>2, PTL

-----------------------------------------------------------------------------
(* The comparisons of scans and of pull requests.                           *)

(* The comparison of two scans: what was said last was said of the code and *)
(* of the kept scan as they are now.                                        *)
PullRequest(how) ==
    [how |-> how, new |-> Delta(how).new, fixed |-> Delta(how).fixed,
     risk |-> Classified(NewIssues(Delta(how))), delta |-> Score(code) - Score(keptScan),
     gate |-> PolicyResult]
Told(said) ==
    \/ said = Untold
    \/ \E how \in {"diff", "snapshots"} : said = Delta(how)
    \/ \E how \in {"pull_request", "pull_request_with_ids"} : said = PullRequest(how)
    \/ \E base, head \in DepLists :
          \E silent \in SUBSET ({"base", "head"} \X (PackagesIn(base) \cup PackagesIn(head))) :
             said = Dependencies(base, head, silent)

ComparisonInv ==
    /\ code \in [Issues -> Lines \cup {0}] /\ keptScan \in [Issues -> Lines \cup {0}]
    /\ Told(compared)

LEMMA ComparisonInitial == ComparisonInit => ComparisonInv
BY DEF ComparisonInit, ComparisonInv, Nowhere, Told

LEMMA ComparisonKept == ComparisonInv /\ [ComparisonNext]_comparisonVars => ComparisonInv'
<1> SUFFICES ASSUME ComparisonInv, [ComparisonNext]_comparisonVars PROVE ComparisonInv'
  OBVIOUS
<1> USE DEF ComparisonInv
<1>1. ASSUME NEW i \in Issues, NEW line \in Lines \cup {0}, EditCode(i, line) PROVE ComparisonInv'
  BY <1>1 DEF EditCode, Told
<1>2. CASE KeepScan
  BY <1>2 DEF KeepScan, Told
<1>3. ASSUME UNCHANGED <<code, keptScan>>, Told(compared') PROVE ComparisonInv'
  <2>1. \A how : Delta(how)' = Delta(how)
    BY <1>3 DEF Delta
  <2>2. Score(code)' = Score(code) /\ Score(keptScan)' = Score(keptScan) /\ PolicyResult' = PolicyResult
    BY <1>3 DEF PolicyResult
  <2>3. \A how : Classified(NewIssues(Delta(how)))' = Classified(NewIssues(Delta(how)))
    BY <1>3, <2>1 DEF NewIssues
  <2>4. \A how : PullRequest(how)' = PullRequest(how)
    BY <2>1, <2>2, <2>3 DEF PullRequest
  <2>5. Told(compared)'
    BY <1>3, <2>1, <2>4 DEF Told
  <2> QED
    BY <1>3, <2>5
<1>4. ASSUME NEW how \in {"diff", "snapshots"}, CompareScans(how) PROVE ComparisonInv'
  BY <1>4, <1>3 DEF CompareScans, Told
<1>5. ASSUME NEW how \in {"pull_request", "pull_request_with_ids"}, AnalyzePullRequest(how) PROVE ComparisonInv'
  <2>1. compared' = PullRequest(how)
    BY <1>5, Zenon DEF AnalyzePullRequest, PullRequest
  <2>2. Told(compared')
    BY <2>1 DEF Told
  <2> QED
    BY <2>2, <1>5, <1>3 DEF AnalyzePullRequest
<1>6. CASE CompareDependencies
  <2>1. Told(compared')
    BY <1>6 DEF CompareDependencies, Told
  <2> QED
    BY <2>1, <1>6, <1>3 DEF CompareDependencies
<1>7. CASE UNCHANGED comparisonVars
  BY <1>7, <1>3 DEF comparisonVars
<1> QED
  BY <1>1, <1>2, <1>4, <1>5, <1>6, <1>7 DEF ComparisonNext

(* By their lines, or by their evidence.                                    *)
LEMMA DeltasTell ==
  ASSUME ComparisonInv, NEW how \in {"diff", "snapshots"}, compared = Delta(how)
  PROVE  DiffTells /\ SnapshotsTell
<1>1. /\ compared.how = how
      /\ compared.new = Keys(how, "head", code) \ Keys(how, "base", keptScan)
      /\ compared.fixed = Keys(how, "base", keptScan) \ Keys(how, "head", code)
  BY DEF Delta
<1>2. DiffTells
  <2> SUFFICES ASSUME how = "diff" PROVE DiffTells
    BY <1>1 DEF DiffTells
  <2>1. \A side : \A c : Keys(how, side, c) = {<<SiteKindOf[i], c[i]>> : i \in Standing(c)}
    BY DEF Keys, Key, Fingerprint
  <2> QED
    BY <1>1, <2>1 DEF DiffTells, Introduced, Gone, Standing
<1>3. SnapshotsTell
  <2> SUFFICES ASSUME how = "snapshots" PROVE SnapshotsTell
    BY <1>1 DEF SnapshotsTell
  <2>1. \A side : \A c : Keys(how, side, c) = {<<SiteKindOf[i], EvidenceOf[i]>> : i \in Standing(c)}
    BY DEF Keys, Key
  <2> QED
    BY <1>1, <2>1 DEF SnapshotsTell, Introduced, Gone
<1> QED
  BY <1>2, <1>3

LEMMA RankOfNew ==
  ASSUME NEW new \in SUBSET Issues
  PROVE  /\ Classified(new) \in 1..4
         /\ \A i \in new : Classified(new) >= IssueRankOf[i] /\ (i \in SecretIssues => Classified(new) = 4)
         /\ Classified(new) > 1 => \E i \in new : Classified(new) = IssueRankOf[i] \/ i \in SecretIssues
<1> DEFINE ranks == {1} \cup {IssueRankOf[i] : i \in new}
<1>1. ranks \subseteq 1..4 /\ ranks # {}
  BY ComparisonAssumption
<1>2. Max(ranks) \in ranks /\ \A r \in ranks : r <= Max(ranks)
  <2>1. ranks \subseteq Nat /\ \A r \in ranks : r <= 4
    BY <1>1
  <2> HIDE DEF ranks
  <2> QED
    BY <1>1, <2>1, GreatestExists, 4 \in Nat
<1>3. Classified(new) = IF new \cap SecretIssues # {} THEN 4 ELSE Max(ranks)
  BY DEF Classified
<1>4. \A i \in new : IssueRankOf[i] \in 1..4 /\ IssueRankOf[i] \in ranks
  BY <1>1
<1>5. Max(ranks) = 1 \/ \E i \in new : Max(ranks) = IssueRankOf[i]
  BY <1>2
<1> HIDE DEF ranks
<1> QED
  BY <1>1, <1>2, <1>3, <1>4, <1>5

LEMMA ScoresTell ==
  ASSUME NEW c \in [Issues -> Nat], NEW d \in [Issues -> Nat]
  PROVE  /\ Score(c) \in 0..100
         /\ Score(c) < Score(d) => Standing(c) \ Standing(d) # {}
         /\ TotalRisk(c) \in Nat /\ \A i \in Standing(c) : IssueRiskOf[i] <= TotalRisk(c)
<1>1. PenaltyOf \in Weight(Issues) /\ IssueRiskOf \in Weight(Issues) /\ IsFiniteSet(Issues)
  <2>1. ASSUME NEW i \in Issues PROVE Penalty[IssueRankOf[i]] \in Nat
    <3>1. IssueRankOf[i] \in {1, 2, 3, 4}
      BY ComparisonAssumption
    <3> QED
      BY <3>1 DEF Penalty
  <2> QED
    BY <2>1, ComparisonAssumption DEF Weight, PenaltyOf
<1>2. Standing(c) \in SUBSET Issues /\ Standing(d) \in SUBSET Issues
  BY DEF Standing
<1>3. PICK f : /\ \A T \in SUBSET Issues : /\ MapThenSumSet(LAMBDA i : PenaltyOf[i], T) = f[T] /\ f[T] \in Nat
                                             /\ \A i \in T : PenaltyOf[i] <= f[T]
               /\ \A T, U \in SUBSET Issues : T \subseteq U => f[T] <= f[U]
  BY <1>1, SumsTell
<1>4. PICK r : \A T \in SUBSET Issues :
                  /\ MapThenSumSet(LAMBDA i : IssueRiskOf[i], T) = r[T] /\ r[T] \in Nat
                  /\ \A i \in T : IssueRiskOf[i] <= r[T]
  BY <1>1, SumsTell
<1>5. /\ Score(c) = IF f[Standing(c)] > 100 THEN 0 ELSE 100 - f[Standing(c)]
      /\ Score(d) = IF f[Standing(d)] > 100 THEN 0 ELSE 100 - f[Standing(d)]
  BY <1>2, <1>3 DEF Score
<1>6. f[Standing(c)] \in Nat /\ f[Standing(d)] \in Nat
  BY <1>2, <1>3
<1>7. Standing(c) \ Standing(d) = {} => f[Standing(c)] <= f[Standing(d)]
  BY <1>2, <1>3
<1>8. TotalRisk(c) = r[Standing(c)]
  BY <1>2, <1>4 DEF TotalRisk
<1>9. r[Standing(c)] \in Nat /\ \A i \in Standing(c) : IssueRiskOf[i] <= r[Standing(c)]
  BY <1>2, <1>4
<1>10. Score(c) \in 0..100 /\ (Score(c) < Score(d) => Standing(c) \ Standing(d) # {})
  BY <1>5, <1>6, <1>7
<1> QED
  BY <1>8, <1>9, <1>10

(* By their ids.                                                            *)
LEMMA PullRequestsAreTold ==
  ASSUME ComparisonInv, NEW how \in {"pull_request", "pull_request_with_ids"}, compared = PullRequest(how)
  PROVE  PullRequestsTell /\ compared.risk \in 1..4 /\ compared.gate \in {"PASS", "FAIL"} /\ compared.delta \in -100..100
         /\ compared.how = how
<1> DEFINE new == NewIssues(Delta(how))
<1>1. /\ compared.risk = Classified(new) /\ compared.delta = Score(code) - Score(keptScan)
      /\ compared.gate = PolicyResult /\ compared.how = how
  BY DEF PullRequest
<1>2. new \in SUBSET Issues /\ Introduced \subseteq new /\ (how = "pull_request_with_ids" => new = Introduced)
  <2>1. Delta(how).how = how /\ Delta(how).new = Keys(how, "head", code) \ Keys(how, "base", keptScan)
    BY DEF Delta
  <2>2. CASE how = "pull_request"
    <3>1. \A side : \A c : Keys(how, side, c) = {<<i, side>> : i \in Standing(c)}
      BY <2>2 DEF Keys, Key
    <3>2. new = {i \in Standing(code) : <<i, "head">> \in Delta(how).new}
      BY <2>1, <2>2 DEF NewIssues, Key
    <3>3. Delta(how).new = {<<i, "head">> : i \in Standing(code)}
      BY <2>1, <3>1
    <3> QED
      BY <2>2, <3>2, <3>3 DEF Introduced, Standing
  <2>3. CASE how = "pull_request_with_ids"
    <3>1. \A side : \A c : Keys(how, side, c) = {<<i, "given">> : i \in Standing(c)}
      BY <2>3 DEF Keys, Key
    <3>2. new = {i \in Standing(code) : <<i, "given">> \in Delta(how).new}
      BY <2>1, <2>3 DEF NewIssues, Key
    <3>3. Delta(how).new = {<<i, "given">> : i \in Standing(code) \ Standing(keptScan)}
      BY <2>1, <3>1
    <3> QED
      BY <2>3, <3>2, <3>3 DEF Introduced, Standing
  <2> QED
    BY <2>2, <2>3
<1>3. code \in [Issues -> Nat] /\ keptScan \in [Issues -> Nat]
  <2>1. Lines \cup {0} \subseteq Nat
    BY ComparisonAssumption
  <2> QED
    BY <2>1 DEF ComparisonInv
<1>4. /\ Score(code) \in 0..100 /\ Score(keptScan) \in 0..100
      /\ Score(code) < Score(keptScan) => Introduced # {}
      /\ TotalRisk(code) \in Nat /\ \A i \in Standing(code) : IssueRiskOf[i] <= TotalRisk(code)
  BY <1>3, ScoresTell DEF Introduced
<1> HIDE DEF new
<1>5. /\ \A i \in Introduced : compared.risk >= IssueRankOf[i] /\ (i \in SecretIssues => compared.risk = 4)
      /\ how = "pull_request_with_ids" /\ compared.risk > 1 =>
            \E i \in Introduced : compared.risk = IssueRankOf[i] \/ i \in SecretIssues
      /\ compared.risk \in 1..4
  BY <1>1, <1>2, RankOfNew
<1>6. compared.delta \in -100..100 /\ (compared.delta < 0 => Introduced # {})
  <2>1. compared.delta = Score(code) - Score(keptScan) /\ Score(code) \in 0..100 /\ Score(keptScan) \in 0..100
    BY <1>1, <1>4
  <2>2. compared.delta < 0 => Score(code) < Score(keptScan)
    BY <2>1
  <2>3. compared.delta \in -100..100
    BY <2>1
  <2> QED
    BY <2>2, <2>3, <1>4
<1>7. compared.gate = "PASS" => \A i \in Standing(code) : IssueRankOf[i] < 4 /\ IssueRiskOf[i] < 8
  <2> SUFFICES ASSUME compared.gate = "PASS", NEW i \in Standing(code) PROVE IssueRankOf[i] < 4 /\ IssueRiskOf[i] < 8
    OBVIOUS
  <2>1. IssueRankOf[i] # 4 /\ ~(TotalRisk(code) >= 8)
    BY <1>1 DEF PolicyResult
  <2>2. IssueRankOf[i] \in 1..4 /\ IssueRiskOf[i] \in Nat
    BY ComparisonAssumption DEF Standing
  <2>3. TotalRisk(code) \in Nat /\ IssueRiskOf[i] <= TotalRisk(code)
    BY <1>4
  <2> QED
    BY <2>1, <2>2, <2>3
<1>8. compared.gate \in {"PASS", "FAIL"}
  BY <1>1 DEF PolicyResult
<1> QED
  BY <1>1, <1>5, <1>6, <1>7, <1>8 DEF PullRequestsTell

(* What a list says of a package.                                           *)
LEMMA VersionsListed ==
  ASSUME NEW list \in DepLists, NEW p \in PackagesIn(list)
  PROVE  LET versions == {list[n].version : n \in {m \in DOMAIN list : list[m].package = p}} IN
         /\ VersionIn(list, p) \in versions /\ versions \subseteq Nat
         /\ Cardinality(versions) > 1 \/ versions = {VersionIn(list, p)}
<1> DEFINE places == {n \in DOMAIN list : list[n].package = p}
           versions == {list[n].version : n \in {m \in DOMAIN list : list[m].package = p}}
<1>1. list \in Seq({list[n] : n \in DOMAIN list}) /\ \A n \in DOMAIN list : list[n].version \in Nat
  BY ComparisonAssumption
<1>2. Len(list) \in Nat /\ DOMAIN list = 1..Len(list)
  BY <1>1
<1>3. places \subseteq Nat /\ places # {} /\ \A n \in places : n <= Len(list)
  BY <1>2 DEF PackagesIn
<1>4. Max(places) \in places
  <2> HIDE DEF places
  <2> QED
    BY <1>2, <1>3, GreatestExists
<1>5. VersionIn(list, p) = list[Max(places)].version
  BY DEF VersionIn
<1>6. VersionIn(list, p) \in versions /\ versions \subseteq Nat
  BY <1>1, <1>4, <1>5
<1>7. IsFiniteSet(versions)
  <2>1. IsFiniteSet(1..Len(list))
    BY <1>2, FS_Interval
  <2>2. IsFiniteSet(places)
    BY <2>1, <1>2, FS_Subset
  <2>3. versions = {list[n].version : n \in places}
    OBVIOUS
  <2> DEFINE as == [n \in places |-> list[n].version]
  <2>4. as \in Surjection(places, versions)
    BY DEF Surjection
  <2> HIDE DEF as, places, versions
  <2> QED
    BY <2>2, <2>4, FS_Surjection
<1>8. ASSUME NEW v \in versions, v # VersionIn(list, p) PROVE Cardinality(versions) > 1
  <2>1. {v, VersionIn(list, p)} \subseteq versions
    BY <1>6
  <2>2. Cardinality({v, VersionIn(list, p)}) = 2
    <3>1. IsFiniteSet({v}) /\ Cardinality({v}) = 1
      BY FS_Singleton
    <3> DEFINE other == VersionIn(list, p)
    <3> HIDE DEF other, versions
    <3>4. other \notin {v}
      BY <1>8 DEF other
    <3>2. Cardinality({v} \cup {other}) = 1 + 1
      BY <3>1, <3>4, FS_AddElement
    <3>3. {v} \cup {other} = {v, VersionIn(list, p)}
      BY DEF other
    <3> QED
      BY <3>2, <3>3
  <2> HIDE DEF versions
  <2>3. Cardinality({v, VersionIn(list, p)}) <= Cardinality(versions) /\ Cardinality(versions) \in Nat
    BY <2>1, <1>7, FS_Subset, FS_CardinalityType
  <2> QED
    BY <2>2, <2>3
<1> QED
  BY <1>6, <1>8

LEMMA DependenciesAreTold ==
  ASSUME NEW base \in DepLists, NEW head \in DepLists, NEW silent, compared = Dependencies(base, head, silent)
  PROVE  DependenciesTell
<1> DEFINE Versions(list, p) == {list[n].version : n \in {m \in DOMAIN list : list[m].package = p}}
           KnownIn(list, p) == UNION {AdvisoriesOf[<<p, v>>] : v \in Versions(list, p)}
           both == PackagesIn(base) \cap PackagesIn(head)
           NamedBy(side, p) == Matching(side, IF side = "base" THEN base ELSE head, p, silent)
<1>1. /\ compared.base = base /\ compared.head = head /\ compared.silent = silent
      /\ compared.new = {p \in PackagesIn(head) \ both : NamedBy("head", p) # {}}
            \cup {p \in both : VersionIn(head, p) # VersionIn(base, p) /\ NamedBy("head", p) # {} /\ NamedBy("base", p) = {}}
      /\ compared.regression = (compared.new # {} \/ {p \in both : VersionIn(head, p) < VersionIn(base, p)} # {})
  BY DEF Dependencies
<1>2. \A p \in PackagesIn(base) : /\ VersionIn(base, p) \in Versions(base, p) /\ Versions(base, p) \subseteq Nat
                                  /\ AdvisoriesOf[<<p, VersionIn(base, p)>>] \subseteq KnownIn(base, p)
  BY VersionsListed
<1>3. \A p \in PackagesIn(head) : /\ VersionIn(head, p) \in Versions(head, p) /\ Versions(head, p) \subseteq Nat
                                  /\ AdvisoriesOf[<<p, VersionIn(head, p)>>] \subseteq KnownIn(head, p)
                                  /\ \/ Cardinality(Versions(head, p)) > 1
                                     \/ KnownIn(head, p) = AdvisoriesOf[<<p, VersionIn(head, p)>>]
  <2> SUFFICES ASSUME NEW p \in PackagesIn(head) 
               PROVE  /\ VersionIn(head, p) \in Versions(head, p) /\ Versions(head, p) \subseteq Nat
                      /\ AdvisoriesOf[<<p, VersionIn(head, p)>>] \subseteq KnownIn(head, p)
                      /\ \/ Cardinality(Versions(head, p)) > 1
                         \/ KnownIn(head, p) = AdvisoriesOf[<<p, VersionIn(head, p)>>]
    OBVIOUS
  <2>1. /\ VersionIn(head, p) \in Versions(head, p) /\ Versions(head, p) \subseteq Nat
        /\ Cardinality(Versions(head, p)) > 1 \/ Versions(head, p) = {VersionIn(head, p)}
    BY VersionsListed
  <2> QED
    BY <2>1
<1>4. /\ \A p : NamedBy("head", p) = IF <<"head", p>> \in silent THEN {} ELSE AdvisoriesOf[<<p, VersionIn(head, p)>>]
      /\ \A p : NamedBy("base", p) = IF <<"base", p>> \in silent THEN {} ELSE AdvisoriesOf[<<p, VersionIn(base, p)>>]
  BY DEF Matching
<1> HIDE DEF NamedBy, Versions, KnownIn
<1>5. ASSUME NEW p \in PackagesIn(head), ~(KnownIn(head, p) \subseteq KnownIn(base, p))
      PROVE  \/ p \in compared.new \/ <<"head", p>> \in silent
             \/ Cardinality(Versions(head, p)) > 1 \/ KnownIn(base, p) # {}
  <2> SUFFICES ASSUME <<"head", p>> \notin silent, Cardinality(Versions(head, p)) > 1 => FALSE, KnownIn(base, p) = {}
               PROVE  p \in compared.new
    OBVIOUS
  <2>1. NamedBy("head", p) = KnownIn(head, p) /\ KnownIn(head, p) # {}
    BY <1>3, <1>4, <1>5
  <2>2. p \in both => NamedBy("base", p) = {} /\ VersionIn(head, p) # VersionIn(base, p)
    BY <1>2, <1>3, <1>4, <2>1
  <2> QED
    BY <2>1, <2>2, <1>1
<1>6. ASSUME NEW p \in compared.new
      PROVE  /\ KnownIn(head, p) # {}
             /\ \/ p \notin PackagesIn(base) \/ <<"base", p>> \in silent
                \/ \E v \in Versions(base, p) : AdvisoriesOf[<<p, v>>] = {}
  <2>1. p \in PackagesIn(head) /\ NamedBy("head", p) # {} /\ (p \in PackagesIn(base) => NamedBy("base", p) = {})
    BY <1>1, <1>6
  <2>2. AdvisoriesOf[<<p, VersionIn(head, p)>>] # {}
    BY <2>1, <1>4
  <2>3. p \in PackagesIn(base) /\ <<"base", p>> \notin silent => AdvisoriesOf[<<p, VersionIn(base, p)>>] = {}
    BY <2>1, <1>4
  <2>4. p \in PackagesIn(base) => VersionIn(base, p) \in Versions(base, p)
    BY <1>2
  <2>5. KnownIn(head, p) # {}
    BY <2>1, <2>2, <1>3
  <2> QED
    BY <2>3, <2>4, <2>5
<1>7. ASSUME ~compared.regression, NEW p \in both PROVE \E v \in Versions(base, p), w \in Versions(head, p) : v <= w
  <2>1. ~(VersionIn(head, p) < VersionIn(base, p))
    BY <1>1, <1>7
  <2>2. VersionIn(head, p) \in Nat /\ VersionIn(base, p) \in Nat
    BY <1>2, <1>3
  <2>3. VersionIn(base, p) \in Versions(base, p) /\ VersionIn(head, p) \in Versions(head, p)
    BY <1>2, <1>3
  <2>4. VersionIn(base, p) <= VersionIn(head, p)
    BY <2>1, <2>2
  <2> QED
    BY <2>3, <2>4
<1> QED
  <2>1. /\ \A p \in PackagesIn(compared.head) :
              ~(KnownIn(compared.head, p) \subseteq KnownIn(compared.base, p)) =>
                 \/ p \in compared.new
                 \/ <<"head", p>> \in compared.silent
                 \/ Cardinality(Versions(compared.head, p)) > 1
                 \/ KnownIn(compared.base, p) # {}
        /\ \A p \in compared.new :
              /\ KnownIn(compared.head, p) # {}
              /\ \/ p \notin PackagesIn(compared.base) \/ <<"base", p>> \in compared.silent
                 \/ \E v \in Versions(compared.base, p) : AdvisoriesOf[<<p, v>>] = {}
        /\ ~compared.regression =>
              \A p \in PackagesIn(compared.base) \cap PackagesIn(compared.head) :
                 \E v \in Versions(compared.base, p), w \in Versions(compared.head, p) : v <= w
    BY <1>1, <1>5, <1>6, <1>7
  <2> QED
    BY <2>1, Zenon DEF DependenciesTell, Versions, KnownIn

LEMMA SaidIsTold == ComparisonInv => ComparisonsTell /\ ComparisonTypeOK
<1> SUFFICES ASSUME ComparisonInv PROVE ComparisonsTell /\ ComparisonTypeOK
  OBVIOUS
<1>1. CASE compared = Untold
  BY <1>1 DEF ComparisonInv, ComparisonsTell, ComparisonTypeOK, DiffTells, SnapshotsTell, PullRequestsTell, DependenciesTell, Untold
<1>2. ASSUME NEW how \in {"diff", "snapshots"}, compared = Delta(how) PROVE ComparisonsTell /\ ComparisonTypeOK
  <2>1. compared.how = how /\ "gate" \notin DOMAIN compared
    BY <1>2 DEF Delta
  <2> QED
    BY <1>2, <2>1, DeltasTell DEF ComparisonInv, ComparisonsTell, ComparisonTypeOK, PullRequestsTell, DependenciesTell
<1>3. ASSUME NEW how \in {"pull_request", "pull_request_with_ids"}, compared = PullRequest(how)
      PROVE  ComparisonsTell /\ ComparisonTypeOK
  BY <1>3, PullRequestsAreTold DEF ComparisonInv, ComparisonsTell, ComparisonTypeOK, DiffTells, SnapshotsTell, DependenciesTell
<1>4. ASSUME NEW base \in DepLists, NEW head \in DepLists, NEW silent, compared = Dependencies(base, head, silent)
      PROVE  ComparisonsTell /\ ComparisonTypeOK
  <2>1. compared.how = "dependencies" /\ "gate" \notin DOMAIN compared
    BY <1>4 DEF Dependencies
  <2>2. DependenciesTell
    BY <1>4, DependenciesAreTold
  <2> QED
    BY <2>1, <2>2 DEF ComparisonInv, ComparisonsTell, ComparisonTypeOK, DiffTells, SnapshotsTell, PullRequestsTell
<1> QED
  BY <1>1, <1>2, <1>3, <1>4 DEF ComparisonInv, Told

(* What is called new, fixed or a regression is told of the code as it is,  *)
(* or for a reason that can be named: of any issues, lists of dependencies, *)
(* edits and scans that were kept.                                          *)
THEOREM ComparisonsAlwaysTell == ComparisonSpec => []ComparisonsTell
<1>1. ComparisonSpec => []ComparisonInv
  BY ComparisonInitial, ComparisonKept, PTL DEF ComparisonSpec
<1> QED
  BY <1>1, SaidIsTold, PTL

-----------------------------------------------------------------------------
(* An advisory and a version.                                               *)

EventAt(n) == events[n].at
Ends == {[from |-> EventAt(n), to |-> EventAt(n + 1)] : n \in {m \in 1..(Len(events) - 1) : m % 2 = 1}}
MatchInv ==
    /\ events \in Seq(Event)
    /\ InOrder => /\ introduced = IF Len(events) % 2 = 1 THEN EventAt(Len(events)) ELSE NoVersion
                  /\ intervals = Ends
    /\ verdict # NoVersion => \E dep \in MatchedDep, withdrawn \in BOOLEAN : verdict = Evaluate(dep, withdrawn)

LEMMA MatchInitial == MatchInit => MatchInv
<1> SUFFICES ASSUME MatchInit PROVE MatchInv
  OBVIOUS
<1>1. events \in Seq(Event) /\ Len(events) = 0
  BY DEF MatchInit
<1>2. Ends = {}
  BY <1>1 DEF Ends
<1> QED
  BY <1>1, <1>2 DEF MatchInit, MatchInv

LEMMA MatchKept == MatchInv /\ [MatchNext]_matchVars => MatchInv'
<1> SUFFICES ASSUME MatchInv, [MatchNext]_matchVars PROVE MatchInv'
  OBVIOUS
<1>1. ASSUME NEW e \in Event, ReadEvent(e) PROVE MatchInv'
  <2> DEFINE L == Len(events)
  <2>1. /\ events \in Seq(Event) /\ events' = Append(events, e) /\ verdict = NoVersion /\ verdict' = verdict
        /\ L \in Nat
    BY <1>1, LenProperties DEF ReadEvent, MatchInv
  <2>2. /\ events' \in Seq(Event) /\ Len(events') = L + 1 /\ events'[L + 1] = e
        /\ \A n \in 1..L : events'[n] = events[n]
    BY <2>1, AppendProperties
  <2>3. DOMAIN events = 1..L /\ DOMAIN events' = 1..(L + 1)
    BY <2>1, <2>2, LenProperties
  <2>4. ASSUME InOrder'
        PROVE  /\ introduced' = IF Len(events') % 2 = 1 THEN EventAt(Len(events))' ELSE NoVersion
               /\ intervals' = Ends'
    <3>1. InOrder
      BY <2>2, <2>3, <2>4 DEF InOrder
    <3>2. e.at # Invalid /\ e.kind = IF (L + 1) % 2 = 1 THEN "introduced" ELSE "fixed"
      <4>1. L + 1 \in DOMAIN events'
        BY <2>1, <2>3
      <4>2. /\ events'[L + 1].at # Invalid
            /\ events'[L + 1].kind = IF (L + 1) % 2 = 1 THEN "introduced" ELSE "fixed"
        BY <2>4, <4>1 DEF InOrder
      <4> QED
        BY <2>2, <4>2
    <3>3. Parsed(e.at) = e.at
      BY <3>2 DEF Parsed
    <3>4. /\ introduced = IF L % 2 = 1 THEN EventAt(L) ELSE NoVersion
          /\ intervals = Ends
      BY <3>1 DEF MatchInv
    <3> DEFINE Odd(k) == {m \in 1..k : m % 2 = 1}
               New(n) == [from |-> events'[n].at, to |-> events'[n + 1].at]
               Old(n) == [from |-> events[n].at, to |-> events[n + 1].at]
    <3>5. Ends' = {New(n) : n \in Odd(L)} /\ Ends = {Old(n) : n \in Odd(L - 1)}
      <4>1. Len(events') - 1 = L
        BY <2>1, <2>2
      <4> QED
        BY <4>1 DEF Ends, EventAt
    <3>8. \A n \in Odd(L - 1) : New(n) = Old(n)
      <4>1. \A n \in Odd(L - 1) : events'[n] = events[n] /\ events'[n + 1] = events[n + 1]
        BY <2>1, <2>2
      <4> QED
        BY <4>1
    <3>6. CASE L % 2 = 1
      <4>1. (L + 1) % 2 # 1
        BY <2>1, <3>6
      <4>2. introduced' = NoVersion /\ intervals' = intervals \cup {[from |-> introduced, to |-> e.at]}
        BY <1>1, <3>2, <3>3, <4>1 DEF ReadEvent
      <4>3. L \in 1..L /\ Odd(L) = Odd(L - 1) \cup {L}
        BY <2>1, <3>6
      <4>4. New(L) = [from |-> introduced, to |-> e.at]
        BY <2>2, <3>4, <3>6, <4>3 DEF EventAt
      <4> HIDE DEF Odd, New, Old
      <4>5. Ends' = Ends \cup {New(L)}
        BY <3>5, <3>8, <4>3
      <4>6. Ends' = Ends \cup {[from |-> introduced, to |-> e.at]}
        BY <4>4, <4>5
      <4> QED
        BY <2>2, <3>4, <4>1, <4>2, <4>6
    <3>7. CASE L % 2 # 1
      <4>1. (L + 1) % 2 = 1
        BY <2>1, <3>7
      <4>2. introduced' = e.at /\ intervals' = intervals
        BY <1>1, <3>2, <3>3, <4>1 DEF ReadEvent
      <4>3. Odd(L) = Odd(L - 1)
        BY <2>1, <3>7
      <4> HIDE DEF Odd, New, Old
      <4>6. Ends' = Ends
        BY <3>5, <3>8, <4>3
      <4> QED
        BY <2>2, <3>4, <4>1, <4>2, <4>6 DEF EventAt
    <3> QED
      BY <3>6, <3>7
  <2> QED
    BY <2>1, <2>2, <2>4 DEF MatchInv
<1>2. ASSUME NEW dep \in MatchedDep, NEW withdrawn \in BOOLEAN, Judge(dep, withdrawn) PROVE MatchInv'
  <2>1. UNCHANGED <<events, introduced, intervals>> /\ verdict' = Evaluate(dep, withdrawn)
    BY <1>2 DEF Judge
  <2>2. Evaluate(dep, withdrawn)' = Evaluate(dep, withdrawn)
    BY <2>1 DEF Evaluate, Remediation, ParsedFixes, FixedPlaces, IsVersionAffected, OverlapsAffected, AllIntervals
  <2> QED
    BY <2>1, <2>2 DEF MatchInv, InOrder, Ends, EventAt
<1>3. CASE UNCHANGED matchVars
  <2>1. UNCHANGED <<events, introduced, intervals, verdict>>
    BY <1>3 DEF matchVars
  <2>2. \A dep, withdrawn : Evaluate(dep, withdrawn)' = Evaluate(dep, withdrawn)
    BY <2>1 DEF Evaluate, Remediation, ParsedFixes, FixedPlaces, IsVersionAffected, OverlapsAffected, AllIntervals
  <2> QED
    BY <2>1, <2>2 DEF MatchInv, InOrder, Ends, EventAt
<1> QED
  BY <1>1, <1>2, <1>3 DEF MatchNext

-----------------------------------------------------------------------------
(* Events that are in order stand in the order of their versions.           *)
LEMMA VersionsRise ==
  ASSUME MatchInv, InOrder
  PROVE  /\ DOMAIN events = 1..Len(events) /\ Len(events) \in Nat
         /\ \A n \in DOMAIN events : EventAt(n) \in MatchVersions /\ EventAt(n) \in Nat
         /\ \A n, m \in DOMAIN events : n < m => EventAt(n) < EventAt(m)
<1>1. DOMAIN events = 1..Len(events) /\ Len(events) \in Nat
  BY LenProperties DEF MatchInv
<1>2. ASSUME NEW n \in DOMAIN events PROVE EventAt(n) \in MatchVersions /\ EventAt(n) \in Nat
  <2>1. events[n] \in Event
    BY <1>1, ElementOfSeq DEF MatchInv
  <2>2. events[n].at # Invalid
    BY DEF InOrder
  <2> QED
    BY <2>1, <2>2, VersionMatchAssumption DEF EventAt, Event
<1>3. ASSUME NEW n \in DOMAIN events, NEW m \in DOMAIN events, n < m PROVE EventAt(n) < EventAt(m)
  <2> DEFINE Wrong == {k \in DOMAIN events : n < k /\ ~(EventAt(n) < EventAt(k))}
  <2>1. Wrong \subseteq Nat
    BY <1>1
  <2> SUFFICES ASSUME Wrong # {} PROVE FALSE
    BY <1>3
  <2>2. PICK k \in Wrong : \A l \in Wrong : k <= l
    BY <2>1, EarliestExists
  <2>3. k - 1 \in DOMAIN events /\ n <= k - 1 /\ k > 1 /\ k \in DOMAIN events /\ k - 1 \notin Wrong
    BY <1>1, <2>2
  <2>4. EventAt(k - 1) < EventAt(k)
    BY <2>3 DEF InOrder, EventAt
  <2>5. EventAt(n) \in Nat /\ EventAt(k - 1) \in Nat /\ EventAt(k) \in Nat
    BY <1>2, <2>3
  <2> HIDE DEF EventAt
  <2>6. CASE n = k - 1
    BY <2>2, <2>4, <2>6
  <2>7. CASE n < k - 1
    BY <2>2, <2>3, <2>4, <2>5, <2>7
  <2> QED
    BY <1>1, <2>3, <2>6, <2>7
<1> QED
  BY <1>1, <1>2, <1>3

(* Where a version lies between an introduction and the fix that follows.   *)
Inside(v, n) ==
    /\ n \in DOMAIN events /\ n % 2 = 1 /\ EventAt(n) <= v
    /\ n + 1 \in DOMAIN events => v < EventAt(n + 1)

LEMMA KindsInTurn ==
  ASSUME MatchInv, InOrder
  PROVE  /\ VersionAt("introduced") = {EventAt(n) : n \in {m \in DOMAIN events : m % 2 = 1}}
         /\ VersionAt("fixed") = {EventAt(n) : n \in {m \in DOMAIN events : m % 2 # 1}}
         /\ FixedPlaces = {m \in DOMAIN events : m % 2 # 1}
         /\ ParsedFixes = VersionAt("fixed")
         /\ VersionAt("last_affected") = {}
<1>1. \A n \in DOMAIN events : /\ events[n].at # Invalid
                               /\ events[n].kind = IF n % 2 = 1 THEN "introduced" ELSE "fixed"
  BY DEF InOrder
<1>2. /\ {m \in DOMAIN events : events[m].kind = "introduced"} = {m \in DOMAIN events : m % 2 = 1}
      /\ {m \in DOMAIN events : events[m].kind = "fixed"} = {m \in DOMAIN events : m % 2 # 1}
      /\ {m \in DOMAIN events : events[m].kind = "last_affected"} = {}
  BY <1>1
<1> QED
  BY <1>1, <1>2 DEF VersionAt, FixedPlaces, ParsedFixes, EventAt

LEMMA VulnerableIsInside ==
  ASSUME MatchInv, InOrder, NEW v \in Nat
  PROVE  Vulnerable(v) <=> \E n \in DOMAIN events : Inside(v, n)
<1>1. Vulnerable(v) <=> \E n \in DOMAIN events :
                           /\ n % 2 = 1 /\ EventAt(n) <= v
                           /\ \A m \in DOMAIN events : m % 2 # 1 => ~(EventAt(n) <= EventAt(m) /\ EventAt(m) <= v)
  BY KindsInTurn DEF Vulnerable
<1>2. ASSUME NEW n \in DOMAIN events, n % 2 = 1, EventAt(n) <= v
      PROVE  (\A m \in DOMAIN events : m % 2 # 1 => ~(EventAt(n) <= EventAt(m) /\ EventAt(m) <= v))
             <=> (n + 1 \in DOMAIN events => v < EventAt(n + 1))
  <2>1. /\ DOMAIN events = 1..Len(events) /\ Len(events) \in Nat /\ n \in Nat
        /\ \A k \in DOMAIN events : EventAt(k) \in Nat
        /\ \A k, m \in DOMAIN events : k < m => EventAt(k) < EventAt(m)
    BY VersionsRise
  <2> HIDE DEF EventAt
  <2>2. ASSUME \A m \in DOMAIN events : m % 2 # 1 => ~(EventAt(n) <= EventAt(m) /\ EventAt(m) <= v), n + 1 \in DOMAIN events
        PROVE  v < EventAt(n + 1)
    <3>1. (n + 1) % 2 # 1 /\ n < n + 1
      BY <1>2, <2>1
    <3>2. EventAt(n) < EventAt(n + 1) /\ EventAt(n) \in Nat /\ EventAt(n + 1) \in Nat
      BY <2>1, <2>2, <3>1
    <3> QED
      BY <2>2, <3>1, <3>2
  <2>3. ASSUME n + 1 \in DOMAIN events => v < EventAt(n + 1),
               NEW m \in DOMAIN events, m % 2 # 1, EventAt(n) <= EventAt(m), EventAt(m) <= v
        PROVE  FALSE
    <3>1. m # n /\ m \in Nat
      BY <1>2, <2>1, <2>3
    <3>2. ~(m < n)
      BY <2>1, <2>3
    <3>3. n + 1 \in DOMAIN events /\ n + 1 <= m
      BY <2>1, <2>3, <3>1, <3>2
    <3>4. EventAt(n + 1) <= EventAt(m)
      BY <2>1, <2>3, <3>1, <3>3
    <3> QED
      BY <2>1, <2>3, <3>3, <3>4
  <2> QED
    BY <2>2, <2>3
<1> QED
  BY <1>1, <1>2 DEF Inside

(* The intervals are those of the introductions.                            *)
From(n) == [from |-> EventAt(n), to |-> IF n + 1 \in DOMAIN events THEN EventAt(n + 1) ELSE NoVersion]
LEMMA IntervalsInTurn ==
  ASSUME MatchInv, InOrder
  PROVE  AllIntervals = {From(n) : n \in {m \in DOMAIN events : m % 2 = 1}}
<1> DEFINE L == Len(events)
           Odd(k) == {m \in 1..k : m % 2 = 1}
<1>1. /\ DOMAIN events = 1..L /\ L \in Nat
      /\ \A n \in DOMAIN events : EventAt(n) \in Nat
  BY VersionsRise
<1>2. /\ introduced = IF L % 2 = 1 THEN EventAt(L) ELSE NoVersion
      /\ intervals = {[from |-> EventAt(n), to |-> EventAt(n + 1)] : n \in Odd(L - 1)}
  BY DEF MatchInv, Ends
<1>3. \A n \in Odd(L - 1) : From(n) = [from |-> EventAt(n), to |-> EventAt(n + 1)]
  BY <1>1 DEF From
<1> HIDE DEF Odd, EventAt
<1>4. intervals = {From(n) : n \in Odd(L - 1)}
  BY <1>2, <1>3
<1>5. CASE L % 2 = 1
  <2>1. L \in 1..L /\ L + 1 \notin DOMAIN events
    BY <1>1, <1>5
  <2>2. introduced = EventAt(L) /\ introduced # NoVersion
    BY <1>1, <1>2, <1>5, <2>1, VersionMatchAssumption
  <2>3. From(L) = [from |-> introduced, to |-> NoVersion]
    BY <2>1, <2>2 DEF From
  <2>4. AllIntervals = intervals \cup {From(L)}
    BY <2>2, <2>3 DEF AllIntervals
  <2>5. {m \in DOMAIN events : m % 2 = 1} = Odd(L - 1) \cup {L}
    BY <1>1, <1>5, <2>1 DEF Odd
  <2> QED
    BY <1>4, <2>4, <2>5
<1>6. CASE L % 2 # 1
  <2>1. introduced = NoVersion
    BY <1>2, <1>6
  <2>2. AllIntervals = intervals
    BY <2>1 DEF AllIntervals
  <2>3. {m \in DOMAIN events : m % 2 = 1} = Odd(L - 1)
    BY <1>1, <1>6 DEF Odd
  <2> QED
    BY <1>4, <2>2, <2>3
<1> QED
  BY <1>5, <1>6

LEMMA AffectedIsInside ==
  ASSUME MatchInv, InOrder, NEW v \in Nat
  PROVE  IsVersionAffected(v) <=> Vulnerable(v)
<1> DEFINE Spans(iv) == /\ iv.from # NoVersion => v >= iv.from
                        /\ iv.to # NoVersion => v < iv.to
<1>0. IsVersionAffected(v) <=> \E iv \in AllIntervals : Spans(iv)
  BY DEF IsVersionAffected
<1>1. IsVersionAffected(v) <=> \E n \in DOMAIN events : n % 2 = 1 /\ Spans(From(n))
  <2> HIDE DEF Spans
  <2> QED
    BY <1>0, IntervalsInTurn
<1>2. ASSUME NEW n \in DOMAIN events, n % 2 = 1 PROVE Spans(From(n)) <=> Inside(v, n)
  <2>1. \A k \in DOMAIN events : EventAt(k) \in Nat /\ EventAt(k) # NoVersion
    BY VersionsRise, VersionMatchAssumption
  <2>2. From(n).from = EventAt(n) /\ From(n).to = IF n + 1 \in DOMAIN events THEN EventAt(n + 1) ELSE NoVersion
    BY DEF From
  <2>3. v >= EventAt(n) <=> EventAt(n) <= v
    BY <2>1
  <2> HIDE DEF EventAt
  <2> QED
    BY <1>2, <2>1, <2>2, <2>3 DEF Inside
<1>3. IsVersionAffected(v) <=> \E n \in DOMAIN events : Inside(v, n)
  <2>1. \A n : Inside(v, n) => n % 2 = 1
    BY DEF Inside
  <2> HIDE DEF Spans
  <2> QED
    BY <1>1, <1>2, <2>1
<1> QED
  BY <1>3, VulnerableIsInside

(* No fix is vulnerable, and the remediation is a fix.                      *)
LEMMA FixesAreSafe ==
  ASSUME MatchInv, InOrder, NEW f \in VersionAt("fixed")
  PROVE  f \in Nat /\ ~Vulnerable(f)
<1>1. PICK m \in DOMAIN events : m % 2 # 1 /\ f = EventAt(m)
  BY KindsInTurn
<1>2. /\ DOMAIN events = 1..Len(events) /\ Len(events) \in Nat
      /\ \A k \in DOMAIN events : EventAt(k) \in Nat
      /\ \A k, l \in DOMAIN events : k < l => EventAt(k) < EventAt(l)
  BY VersionsRise
<1> HIDE DEF EventAt
<1>3. f \in Nat
  BY <1>1, <1>2
<1>4. ASSUME NEW n \in DOMAIN events, Inside(f, n) PROVE FALSE
  <2>1. n % 2 = 1 /\ EventAt(n) <= EventAt(m) /\ (n + 1 \in DOMAIN events => EventAt(m) < EventAt(n + 1))
    BY <1>1, <1>4 DEF Inside
  <2>2. ~(m < n) /\ m # n
    BY <1>1, <1>2, <2>1
  <2>3. n + 1 \in DOMAIN events /\ n + 1 <= m
    BY <1>2, <2>2
  <2>4. EventAt(n + 1) <= EventAt(m)
    BY <1>1, <1>2, <2>3
  <2> QED
    BY <1>1, <1>2, <2>1, <2>3, <2>4
<1> QED
  BY <1>3, <1>4, VulnerableIsInside

LEMMA RemediationIsFix ==
  ASSUME MatchInv, InOrder, NEW v \in Nat
  PROVE  Remediation(v) = NoVersion \/ Remediation(v) \in VersionAt("fixed")
<1> SUFFICES ASSUME ParsedFixes # {} PROVE Remediation(v) \in ParsedFixes
  BY KindsInTurn DEF Remediation
<1>1. ParsedFixes \subseteq Nat
  BY KindsInTurn, FixesAreSafe
<1>2. \E n \in Nat : \A f \in ParsedFixes : f <= n
  <2>1. PICK k \in DOMAIN events : TRUE
    BY KindsInTurn
  <2>2. /\ DOMAIN events = 1..Len(events) /\ Len(events) \in Nat
        /\ \A n \in DOMAIN events : EventAt(n) \in Nat
        /\ \A n, m \in DOMAIN events : n < m => EventAt(n) < EventAt(m)
    BY VersionsRise
  <2> HIDE DEF EventAt
  <2>3. Len(events) \in DOMAIN events
    BY <2>1, <2>2
  <2>4. \A n \in DOMAIN events : EventAt(n) <= EventAt(Len(events))
    BY <2>2, <2>3
  <2> QED
    BY <2>2, <2>3, <2>4, KindsInTurn
<1>3. Max(ParsedFixes) \in ParsedFixes
  BY <1>1, <1>2, GreatestExists
<1> DEFINE later == {f \in ParsedFixes : f > v}
<1>4. later # {} => Min(later) \in ParsedFixes
  <2>1. later \subseteq Nat
    BY <1>1
  <2>2. later # {} => Min(later) \in later
    BY <2>1, LeastIsIn
  <2> QED
    BY <2>2
<1> QED
  BY <1>3, <1>4 DEF Remediation

-----------------------------------------------------------------------------
(* What is said of a constraint.                                            *)
LEMMA ConstraintIs ==
  ASSUME NEW c \in Constraint, c # NoVersion, c # Invalid
  PROVE  \E lo, hi \in Nat : c = lo..hi /\ lo <= hi /\ Min(c) = lo
<1>0. PICK limits \in MatchVersions \X MatchVersions : c = limits[1]..limits[2] /\ c # {}
  BY DEF Constraint
<1>1. PICK lo \in MatchVersions, hi \in MatchVersions : c = lo..hi /\ lo..hi # {}
  BY <1>0
<1>2. lo \in Nat /\ hi \in Nat /\ lo <= hi
  BY <1>1, VersionMatchAssumption
<1>3. Min(c) \in c /\ \A s \in c : Min(c) <= s
  <2>1. c \subseteq Nat /\ c # {}
    BY <1>1, <1>2
  <2> QED
    BY <2>1, LeastIsIn
<1>4. Min(c) = lo
  BY <1>1, <1>2, <1>3
<1> QED
  BY <1>1, <1>2, <1>4

LEMMA OverlapIs ==
  ASSUME MatchInv, InOrder, NEW c \in Constraint, c # NoVersion, c # Invalid
  PROVE  OverlapsAffected(c) <=>
            \E n \in DOMAIN events : n % 2 = 1 /\ (EventAt(n) \in c \/ (n + 1 \in DOMAIN events /\ EventAt(n + 1) \in c))
<1>1. OverlapsAffected(c) <=> \E n \in DOMAIN events : n % 2 = 1 /\ {From(n).from, From(n).to} \cap c # {}
  BY IntervalsInTurn DEF OverlapsAffected
<1>2. NoVersion \notin c
  BY ConstraintIs, VersionMatchAssumption
<1>3. ASSUME NEW n \in DOMAIN events
      PROVE  {From(n).from, From(n).to} \cap c # {}
             <=> EventAt(n) \in c \/ (n + 1 \in DOMAIN events /\ EventAt(n + 1) \in c)
  <2>1. From(n).from = EventAt(n) /\ From(n).to = IF n + 1 \in DOMAIN events THEN EventAt(n + 1) ELSE NoVersion
    BY DEF From
  <2> HIDE DEF EventAt
  <2> QED
    BY <1>2, <2>1
<1> QED
  BY <1>1, <1>3

LEMMA AllOrNone ==
  ASSUME MatchInv, InOrder, NEW c \in Constraint, c # NoVersion, c # Invalid, ~OverlapsAffected(c)
  PROVE  \/ \A v \in c : ~Vulnerable(v)
         \/ \A v \in c : Vulnerable(v) /\ v \notin VersionAt("introduced")
<1>1. PICK lo \in Nat, hi \in Nat : c = lo..hi /\ lo <= hi
  BY ConstraintIs
<1>2. \A n \in DOMAIN events : n % 2 = 1 => EventAt(n) \notin c /\ (n + 1 \in DOMAIN events => EventAt(n + 1) \notin c)
  BY OverlapIs
<1>3. \A n \in DOMAIN events : EventAt(n) \in Nat
  BY VersionsRise
<1> HIDE DEF EventAt
<1> SUFFICES ASSUME NEW v \in c, Vulnerable(v), NEW u \in c
             PROVE  Vulnerable(u) /\ u \notin VersionAt("introduced")
  OBVIOUS
<1>4. v \in Nat /\ u \in Nat
  BY <1>1
<1>5. PICK n \in DOMAIN events : Inside(v, n)
  BY <1>4, VulnerableIsInside
<1>6. Inside(u, n)
  <2>1. n % 2 = 1 /\ EventAt(n) <= v /\ (n + 1 \in DOMAIN events => v < EventAt(n + 1))
    BY <1>5 DEF Inside
  <2>2. EventAt(n) < lo
    BY <1>1, <1>2, <1>3, <2>1
  <2>3. n + 1 \in DOMAIN events => hi < EventAt(n + 1)
    BY <1>1, <1>2, <1>3, <2>1
  <2> QED
    BY <1>1, <1>3, <2>1, <2>2, <2>3 DEF Inside
<1>7. u \notin VersionAt("introduced")
  BY <1>2, KindsInTurn
<1> QED
  BY <1>4, <1>6, <1>7, VulnerableIsInside

LEMMA SomeOrFix ==
  ASSUME MatchInv, InOrder, NEW c \in Constraint, c # NoVersion, c # Invalid, OverlapsAffected(c)
  PROVE  (\E v \in c : Vulnerable(v)) \/ Min(c) \in VersionAt("fixed")
<1>1. PICK lo \in Nat, hi \in Nat : c = lo..hi /\ lo <= hi /\ Min(c) = lo
  BY ConstraintIs
<1>2. PICK n \in DOMAIN events : n % 2 = 1 /\ (EventAt(n) \in c \/ (n + 1 \in DOMAIN events /\ EventAt(n + 1) \in c))
  BY OverlapIs
<1>3. /\ DOMAIN events = 1..Len(events) /\ Len(events) \in Nat
      /\ \A k \in DOMAIN events : EventAt(k) \in Nat
      /\ \A k, l \in DOMAIN events : k < l => EventAt(k) < EventAt(l)
  BY VersionsRise
<1>4. n + 1 \in DOMAIN events => EventAt(n) < EventAt(n + 1)
  BY <1>3
<1>5. n + 1 \in DOMAIN events => EventAt(n + 1) \in VersionAt("fixed")
  <2>1. n + 1 \in DOMAIN events => (n + 1) % 2 # 1
    BY <1>2, <1>3
  <2> QED
    BY <2>1, KindsInTurn
<1> HIDE DEF EventAt
<1>6. CASE EventAt(n) \in c
  <2>1. Inside(EventAt(n), n) /\ EventAt(n) \in Nat
    BY <1>2, <1>3, <1>4 DEF Inside
  <2> QED
    BY <1>6, <2>1, VulnerableIsInside
<1>7. CASE EventAt(n) \notin c /\ n + 1 \in DOMAIN events /\ EventAt(n + 1) \in c
  <2>1. EventAt(n) < lo /\ lo <= EventAt(n + 1) /\ lo \in c
    BY <1>1, <1>3, <1>4, <1>7
  <2>2. CASE lo = EventAt(n + 1)
    BY <1>1, <1>5, <1>7, <2>2
  <2>3. CASE lo # EventAt(n + 1)
    <3>1. Inside(lo, n)
      BY <1>1, <1>2, <1>3, <1>7, <2>1, <2>3 DEF Inside
    <3> QED
      BY <1>1, <2>1, <3>1, VulnerableIsInside
  <2> QED
    BY <2>2, <2>3
<1> QED
  BY <1>2, <1>6, <1>7

LEMMA EvaluateIs ==
  ASSUME NEW dep, NEW withdrawn \in BOOLEAN
  PROVE  LET e == Evaluate(dep, withdrawn) IN
         /\ e.dep = dep
         /\ e.status = "AFFECTED" => /\ dep.version \in MatchVersions /\ IsVersionAffected(dep.version)
                                     /\ e.fix = Remediation(dep.version)
         /\ e.status = "NOT_AFFECTED" /\ dep.version \in MatchVersions => ~IsVersionAffected(dep.version)
         /\ e.status = "NOT_AFFECTED" /\ dep.version \notin MatchVersions =>
               dep.constraint # NoVersion /\ ~OverlapsAffected(dep.constraint)
         /\ e.status = "POTENTIALLY_AFFECTED" => dep.constraint # NoVersion /\ OverlapsAffected(dep.constraint)
BY DEF Evaluate, Match

LEMMA VerdictsAreRight == MatchInv => VerdictRight
<1> SUFFICES ASSUME MatchInv, verdict # NoVersion, InOrder
             PROVE  /\ verdict.status = "AFFECTED" =>
                          /\ Vulnerable(verdict.dep.version)
                          /\ verdict.fix # NoVersion => ~Vulnerable(verdict.fix)
                    /\ verdict.status = "NOT_AFFECTED" /\ verdict.dep.version \in MatchVersions =>
                          ~Vulnerable(verdict.dep.version)
                    /\ verdict.status = "NOT_AFFECTED" /\ verdict.dep.version \notin MatchVersions =>
                          \/ \A v \in verdict.dep.constraint : ~Vulnerable(v)
                          \/ \A v \in verdict.dep.constraint : Vulnerable(v) /\ v \notin VersionAt("introduced")
                    /\ verdict.status = "POTENTIALLY_AFFECTED" /\ verdict.dep.constraint # Invalid =>
                          \/ \E v \in verdict.dep.constraint : Vulnerable(v)
                          \/ Min(verdict.dep.constraint) \in VersionAt("fixed")
  BY DEF VerdictRight
<1>1. PICK dep \in MatchedDep, withdrawn \in BOOLEAN : verdict = Evaluate(dep, withdrawn)
  BY DEF MatchInv
<1>2. /\ verdict.dep = dep
      /\ verdict.status = "AFFECTED" => /\ dep.version \in MatchVersions /\ IsVersionAffected(dep.version)
                                        /\ verdict.fix = Remediation(dep.version)
      /\ verdict.status = "NOT_AFFECTED" /\ dep.version \in MatchVersions => ~IsVersionAffected(dep.version)
      /\ verdict.status = "NOT_AFFECTED" /\ dep.version \notin MatchVersions =>
            dep.constraint # NoVersion /\ ~OverlapsAffected(dep.constraint)
      /\ verdict.status = "POTENTIALLY_AFFECTED" => dep.constraint # NoVersion /\ OverlapsAffected(dep.constraint)
  BY <1>1, EvaluateIs
<1>3. dep.constraint \in Constraint /\ (dep.version \in MatchVersions => dep.version \in Nat)
  BY VersionMatchAssumption DEF MatchedDep
<1>4. OverlapsAffected(Invalid)
  BY DEF OverlapsAffected
<1>5. dep.version \in Nat =>
         (Remediation(dep.version) # NoVersion => ~Vulnerable(Remediation(dep.version)))
  BY RemediationIsFix, FixesAreSafe
<1>6. dep.version \in Nat => (IsVersionAffected(dep.version) <=> Vulnerable(dep.version))
  BY AffectedIsInside
<1>7. dep.constraint # NoVersion /\ ~OverlapsAffected(dep.constraint) =>
         \/ \A v \in dep.constraint : ~Vulnerable(v)
         \/ \A v \in dep.constraint : Vulnerable(v) /\ v \notin VersionAt("introduced")
  BY <1>3, <1>4, AllOrNone
<1>8. dep.constraint # NoVersion /\ OverlapsAffected(dep.constraint) /\ dep.constraint # Invalid =>
         (\E v \in dep.constraint : Vulnerable(v)) \/ Min(dep.constraint) \in VersionAt("fixed")
  BY <1>3, SomeOrFix
<1> QED
  BY <1>2, <1>3, <1>5, <1>6, <1>7, <1>8

-----------------------------------------------------------------------------
(* Ranges of versions.                                                      *)

(* Tuples of four numbers are compared from the left.                       *)
Tuple == [1..4 -> Nat]
LEMMA BeforeFromLeft ==
  ASSUME NEW t \in Tuple, NEW u \in Tuple
  PROVE  /\ Before(t, u) <=> \/ t[1] < u[1]
                             \/ t[1] = u[1] /\ t[2] < u[2]
                             \/ t[1] = u[1] /\ t[2] = u[2] /\ t[3] < u[3]
                             \/ t[1] = u[1] /\ t[2] = u[2] /\ t[3] = u[3] /\ PreBefore(t[4], u[4])
         /\ t = u <=> t[1] = u[1] /\ t[2] = u[2] /\ t[3] = u[3] /\ t[4] = u[4]
<1>1. t = u <=> t[1] = u[1] /\ t[2] = u[2] /\ t[3] = u[3] /\ t[4] = u[4]
  <2>1. \A n \in 1..4 : n \in {1, 2, 3, 4}
    OBVIOUS
  <2> QED
    BY <2>1 DEF Tuple
<1>2. \A n \in 1..4 : t[n] \in Nat /\ u[n] \in Nat
  BY DEF Tuple
<1> DEFINE First(n) == n \in 1..4 /\ t[n] # u[n] /\ \A m \in 1..(n - 1) : t[m] = u[m]
<1>3. ASSUME NEW n, First(n) PROVE FirstDifference(t, u) = n
  <2>1. \A m : First(m) => m = n
    BY <1>3
  <2> QED
    BY <1>3, <2>1 DEF FirstDifference
<1>4. CASE t[1] # u[1]
  <2>1. First(1)
    BY <1>4
  <2> HIDE DEF First
  <2>2. FirstDifference(t, u) = 1
    BY <2>1, <1>3
  <2> QED
    BY <1>1, <1>2, <1>4, <2>2 DEF Before
<1>5. CASE t[1] = u[1] /\ t[2] # u[2]
  <2>1. First(2)
    BY <1>5
  <2> HIDE DEF First
  <2>2. FirstDifference(t, u) = 2
    BY <2>1, <1>3
  <2> QED
    BY <1>1, <1>2, <1>5, <2>2 DEF Before
<1>6. CASE t[1] = u[1] /\ t[2] = u[2] /\ t[3] # u[3]
  <2>1. First(3)
    BY <1>6
  <2> HIDE DEF First
  <2>2. FirstDifference(t, u) = 3
    BY <2>1, <1>3
  <2> QED
    BY <1>1, <1>2, <1>6, <2>2 DEF Before
<1>7. CASE t[1] = u[1] /\ t[2] = u[2] /\ t[3] = u[3] /\ t[4] # u[4]
  <2>1. First(4)
    BY <1>7
  <2> HIDE DEF First
  <2>2. FirstDifference(t, u) = 4
    BY <2>1, <1>3
  <2> QED
    BY <1>1, <1>2, <1>7, <2>2 DEF Before
<1>8. CASE t[1] = u[1] /\ t[2] = u[2] /\ t[3] = u[3] /\ t[4] = u[4]
  BY <1>1, <1>2, <1>8 DEF Before, PreBefore
<1> QED
  BY <1>4, <1>5, <1>6, <1>7, <1>8

(* What is written of a version.                                            *)
LEMMA WritingFields ==
  ASSUME NEW w \in Writing
  PROVE  /\ w.pre \in 0..3 /\ w.dashed \in BOOLEAN
         /\ w.digits \in Seq(0..3) /\ Len(w.digits) \in 1..3 /\ DOMAIN w.digits = 1..Len(w.digits)
         /\ \A n \in Nat : Digit(w.digits, n) \in 0..3
         /\ Digit(w.digits, 1) = w.digits[1]
<1>1. PICK n \in 1..3 : w.digits \in [1..n -> 0..3]
  BY DEF Writing, Number
<1>2. w.digits \in Seq(0..3) /\ Len(w.digits) = n /\ DOMAIN w.digits = 1..n
  BY <1>1
<1>3. w.pre \in 0..3 /\ w.dashed \in BOOLEAN
  BY DEF Writing, Number
<1> QED
  BY <1>1, <1>2, <1>3 DEF Digit

Pre(w) == IF w.pre = 0 THEN 3 ELSE w.pre - 1
LEMMA PlaceIs ==
  ASSUME NEW w \in Writing
  PROVE  /\ Place(w) = 64 * Digit(w.digits, 1) + 16 * Digit(w.digits, 2) + 4 * Digit(w.digits, 3) + Pre(w)
         /\ Digit(w.digits, 1) \in 0..3 /\ Digit(w.digits, 2) \in 0..3 /\ Digit(w.digits, 3) \in 0..3
         /\ Pre(w) \in 0..3 /\ Place(w) \in Nat
<1>1. /\ Digit(w.digits, 1) \in 0..3 /\ Digit(w.digits, 2) \in 0..3 /\ Digit(w.digits, 3) \in 0..3
      /\ w.pre \in 0..3
  BY WritingFields
<1>2. Place(w) = 64 * Digit(w.digits, 1) + 16 * Digit(w.digits, 2) + 4 * Digit(w.digits, 3) + Pre(w)
  BY DEF Place, Pre
<1>3. Pre(w) \in 0..3
  BY <1>1 DEF Pre
<1> QED
  BY <1>1, <1>2, <1>3

(* A version whose pre-release can be told is read as it is written.        *)
LEMMA ReadTuple ==
  ASSUME NEW w \in Writing, Dashed(w)
  PROVE  LET t == ParseVersionTuple(w) IN
         /\ t \in Tuple /\ t[4] = w.pre
         /\ t[1] = Digit(w.digits, 1) /\ t[2] = Digit(w.digits, 2) /\ t[3] = Digit(w.digits, 3)
<1>1. ParseVersionTuple(w) = [n \in 1..4 |-> IF n = 4 THEN w.pre ELSE Digit(w.digits, n)]
  BY DEF ParseVersionTuple, Dashed
<1> QED
  BY <1>1, WritingFields DEF Tuple

(* The order of the tuples is the order of the places.                      *)
LEMMA OrderIsMeant ==
  ASSUME NEW w \in Writing, NEW b \in Writing, Dashed(w), Dashed(b)
  PROVE  LET way == CompareVersions(ParseVersionTuple(w), ParseVersionTuple(b)) IN
         /\ way >= 0 <=> Place(w) - Place(b) >= 0
         /\ way > 0 <=> Place(w) - Place(b) > 0
         /\ way <= 0 <=> Place(w) - Place(b) <= 0
         /\ way < 0 <=> Place(w) - Place(b) < 0
         /\ way = 0 <=> Place(w) - Place(b) = 0
<1> DEFINE t == ParseVersionTuple(w)
           u == ParseVersionTuple(b)
<1>1. /\ t \in Tuple /\ t[4] = w.pre
      /\ t[1] = Digit(w.digits, 1) /\ t[2] = Digit(w.digits, 2) /\ t[3] = Digit(w.digits, 3)
      /\ u \in Tuple /\ u[4] = b.pre
      /\ u[1] = Digit(b.digits, 1) /\ u[2] = Digit(b.digits, 2) /\ u[3] = Digit(b.digits, 3)
  BY ReadTuple
<1>2. w.pre \in 0..3 /\ b.pre \in 0..3
  BY WritingFields
<1> HIDE DEF t, u
<1>3. Before(t, u) <=> Place(w) < Place(b)
  <2>1. PreBefore(t[4], u[4]) <=> Pre(w) < Pre(b)
    BY <1>1, <1>2 DEF PreBefore, Pre
  <2>2. Before(t, u) <=> \/ Digit(w.digits, 1) < Digit(b.digits, 1)
                         \/ Digit(w.digits, 1) = Digit(b.digits, 1) /\ Digit(w.digits, 2) < Digit(b.digits, 2)
                         \/ /\ Digit(w.digits, 1) = Digit(b.digits, 1) /\ Digit(w.digits, 2) = Digit(b.digits, 2)
                            /\ Digit(w.digits, 3) < Digit(b.digits, 3)
                         \/ /\ Digit(w.digits, 1) = Digit(b.digits, 1) /\ Digit(w.digits, 2) = Digit(b.digits, 2)
                            /\ Digit(w.digits, 3) = Digit(b.digits, 3) /\ Pre(w) < Pre(b)
    BY <1>1, <2>1, BeforeFromLeft
  <2> QED
    BY <2>2, PlaceIs
<1>4. t = u <=> Place(w) = Place(b)
  <2>1. t[4] = u[4] <=> Pre(w) = Pre(b)
    BY <1>1, <1>2 DEF Pre
  <2>2. t = u <=> /\ Digit(w.digits, 1) = Digit(b.digits, 1) /\ Digit(w.digits, 2) = Digit(b.digits, 2)
                  /\ Digit(w.digits, 3) = Digit(b.digits, 3) /\ Pre(w) = Pre(b)
    BY <1>1, <2>1, BeforeFromLeft
  <2> QED
    BY <2>2, PlaceIs
<1>5. CompareVersions(t, u) = IF t = u THEN 0 ELSE IF Before(t, u) THEN -1 ELSE 1
  BY DEF CompareVersions
<1>6. Place(w) \in Nat /\ Place(b) \in Nat
  BY PlaceIs
<1>7. CompareVersions(t, u) = IF Place(w) = Place(b) THEN 0 ELSE IF Place(w) < Place(b) THEN -1 ELSE 1
  BY <1>3, <1>4, <1>5
<1>8. \A way : way = (IF Place(w) = Place(b) THEN 0 ELSE IF Place(w) < Place(b) THEN -1 ELSE 1) =>
         /\ way >= 0 <=> Place(w) - Place(b) >= 0
         /\ way > 0 <=> Place(w) - Place(b) > 0
         /\ way <= 0 <=> Place(w) - Place(b) <= 0
         /\ way < 0 <=> Place(w) - Place(b) < 0
         /\ way = 0 <=> Place(w) - Place(b) = 0
  BY <1>6
<1> QED
  BY <1>7, <1>8 DEF t, u


RangeClause == [op : Operators, version : Writing]

(* What the upper bounds of a caret and of a tilde leave in.                *)
LEMMA BelowTheNext ==
  ASSUME NEW w \in Writing, NEW b \in Writing, Dashed(w), w.pre = 0, Place(w) - Place(b) >= 0
  PROVE  /\ Before(ParseVersionTuple(w), <<Digit(b.digits, 1) + 1, 0, 0, 0>>) <=> Agree(w, b, 1)
         /\ Before(ParseVersionTuple(w), <<Digit(b.digits, 1), Digit(b.digits, 2) + 1, 0, 0>>) <=> Agree(w, b, 2)
<1> DEFINE t == ParseVersionTuple(w)
           u1 == <<Digit(b.digits, 1) + 1, 0, 0, 0>>
           u2 == <<Digit(b.digits, 1), Digit(b.digits, 2) + 1, 0, 0>>
<1>1. /\ t \in Tuple /\ t[4] = 0
      /\ t[1] = Digit(w.digits, 1) /\ t[2] = Digit(w.digits, 2) /\ t[3] = Digit(w.digits, 3)
  BY ReadTuple
<1>2. /\ Digit(w.digits, 1) \in 0..3 /\ Digit(w.digits, 2) \in 0..3 /\ Digit(w.digits, 3) \in 0..3
      /\ Digit(b.digits, 1) \in 0..3 /\ Digit(b.digits, 2) \in 0..3 /\ Digit(b.digits, 3) \in 0..3
  BY PlaceIs
<1>3. /\ u1 \in Tuple /\ u1[1] = Digit(b.digits, 1) + 1 /\ u1[2] = 0 /\ u1[3] = 0 /\ u1[4] = 0
      /\ u2 \in Tuple /\ u2[1] = Digit(b.digits, 1) /\ u2[2] = Digit(b.digits, 2) + 1 /\ u2[3] = 0 /\ u2[4] = 0
  BY <1>2 DEF Tuple
<1>4. /\ Agree(w, b, 1) <=> Digit(w.digits, 1) = Digit(b.digits, 1)
      /\ Agree(w, b, 2) <=> Digit(w.digits, 1) = Digit(b.digits, 1) /\ Digit(w.digits, 2) = Digit(b.digits, 2)
  <2>1. \A n \in 1..1 : n = 1
    OBVIOUS
  <2>2. \A n \in 1..2 : n = 1 \/ n = 2
    OBVIOUS
  <2>3. 1 \in 1..1 /\ 1 \in 1..2 /\ 2 \in 1..2
    OBVIOUS
  <2> QED
    BY <2>1, <2>2, <2>3 DEF Agree
<1>5. ~PreBefore(0, 0)
  BY DEF PreBefore
<1> HIDE DEF t, u1, u2
<1>6. /\ Digit(w.digits, 1) >= Digit(b.digits, 1)
      /\ Digit(w.digits, 1) = Digit(b.digits, 1) => Digit(w.digits, 2) >= Digit(b.digits, 2)
  BY PlaceIs
<1>7. Before(t, u1) <=> Digit(w.digits, 1) < Digit(b.digits, 1) + 1
  BY <1>1, <1>2, <1>3, <1>5, BeforeFromLeft
<1>8. Before(t, u2) <=> \/ Digit(w.digits, 1) < Digit(b.digits, 1)
                        \/ /\ Digit(w.digits, 1) = Digit(b.digits, 1)
                           /\ Digit(w.digits, 2) < Digit(b.digits, 2) + 1
  BY <1>1, <1>2, <1>3, <1>5, BeforeFromLeft
<1> QED
  BY <1>2, <1>4, <1>6, <1>7, <1>8 DEF t, u1, u2

LEMMA SmallerOfTwo ==
  ASSUME NEW n \in 1..3, n > 1
  PROVE  Min({n, 2}) = 2
<1>1. 2 \in {n, 2} /\ \A y \in {n, 2} : 2 <= y
  OBVIOUS
<1>2. \A x : x \in {n, 2} /\ (\A y \in {n, 2} : x <= y) => x = 2
  OBVIOUS
<1> QED
  BY <1>1, <1>2 DEF Min

(* A part of one clause, as the engine takes it.                            *)
LEMMA OneClause ==
  ASSUME NEW w \in Writing, NEW piece \in Seq(RangeClause), Len(piece) = 1, Dashed(w), Dashed(piece[1].version)
  PROVE  /\ piece[1].version \in Writing /\ piece[1].op \in Operators
         /\ ReadAsMeant(w, piece) => (InPart(w, piece) <=> Means(w, piece[1]))
         /\ piece[1].op = "^" /\ Means(w, piece[1]) => InPart(w, piece)
<1> DEFINE b == piece[1].version
           op == piece[1].op
           way == CompareVersions(ParseVersionTuple(w), ParseVersionTuple(b))
<1>0. piece[1] \in RangeClause
  BY ElementOfSeq
<1>1. b \in Writing /\ op \in Operators
  BY <1>0 DEF RangeClause
<1>2. BaseOf(piece) = ParseVersionTuple(b)
  BY DEF BaseOf
<1>3. /\ ParseVersionTuple(b)[1] = Digit(b.digits, 1) /\ ParseVersionTuple(b)[2] = Digit(b.digits, 2)
  BY <1>1, ReadTuple
<1>4. /\ way >= 0 <=> Place(w) - Place(b) >= 0
      /\ way > 0 <=> Place(w) - Place(b) > 0
      /\ way <= 0 <=> Place(w) - Place(b) <= 0
      /\ way < 0 <=> Place(w) - Place(b) < 0
      /\ way = 0 <=> Place(w) - Place(b) = 0
  BY <1>1, OrderIsMeant
<1>5. Len(b.digits) \in 1..3 /\ Digit(b.digits, 1) = b.digits[1] /\ b.pre \in 0..3
  BY <1>1, WritingFields
<1> DEFINE under1 == Before(ParseVersionTuple(w), <<Digit(b.digits, 1) + 1, 0, 0, 0>>)
           under2 == Before(ParseVersionTuple(w), <<Digit(b.digits, 1), Digit(b.digits, 2) + 1, 0, 0>>)
<1>6. w.pre = 0 /\ Place(w) - Place(b) >= 0 => (under1 <=> Agree(w, b, 1)) /\ (under2 <=> Agree(w, b, 2))
  BY <1>1, BelowTheNext
<1> HIDE DEF b, op, way, under1, under2
<1>7. /\ op = "^" => (InPart(w, piece) <=> way >= 0 /\ under1)
      /\ op \in {"~", "~="} => (InPart(w, piece) <=> way >= 0 /\ under2)
  BY <1>2, <1>3 DEF InPart, op, way, b, under1, under2
<1>8. /\ op = ">=" => (InPart(w, piece) <=> way >= 0)
      /\ op = ">" => (InPart(w, piece) <=> way > 0)
      /\ op = "<=" => (InPart(w, piece) <=> way <= 0)
      /\ op = "<" => (InPart(w, piece) <=> way < 0)
      /\ op = "==" => (InPart(w, piece) <=> way = 0)
  BY <1>2 DEF InPart, op, way, b
<1> DEFINE far == Place(w) - Place(b)
<1>9. /\ op = "^" => (Means(w, piece[1]) <=> far >= 0 /\ Agree(w, b, Leading(b)))
      /\ op = "~" => (Means(w, piece[1]) <=> far >= 0 /\ Agree(w, b, Min({Len(b.digits), 2})))
      /\ op = "~=" => (Means(w, piece[1]) <=> far >= 0 /\ Agree(w, b, Len(b.digits) - 1))
      /\ op = ">=" => (Means(w, piece[1]) <=> far >= 0)
      /\ op = ">" => (Means(w, piece[1]) <=> far > 0)
      /\ op = "<=" => (Means(w, piece[1]) <=> far <= 0)
      /\ op = "<" => (Means(w, piece[1]) <=> far < 0)
      /\ op = "==" => (Means(w, piece[1]) <=> far = 0)
  BY DEF Means, op, b
<1> HIDE DEF far
<1>10. /\ way >= 0 <=> far >= 0
       /\ way > 0 <=> far > 0
       /\ way <= 0 <=> far <= 0
       /\ way < 0 <=> far < 0
       /\ way = 0 <=> far = 0
  BY <1>4 DEF far
<1>11. ASSUME ReadAsMeant(w, piece) PROVE InPart(w, piece) <=> Means(w, piece[1])
  <2>1. /\ op = "^" => w.pre = 0 /\ b.digits[1] # 0
        /\ op = "~" => w.pre = 0 /\ Len(b.digits) > 1
        /\ op = "~=" => w.pre = 0 /\ Len(b.digits) = 3
        /\ op # "!="
    BY <1>11 DEF ReadAsMeant, op, b
  <2>2. CASE op = "^"
    <3>1. Leading(b) = 1
      BY <1>5, <2>1, <2>2 DEF Leading
    <3> QED
      BY <1>6, <1>7, <1>9, <1>10, <2>1, <2>2, <3>1 DEF far
  <2>3. CASE op = "~"
    <3>1. Min({Len(b.digits), 2}) = 2
      BY <1>5, <2>1, <2>3, SmallerOfTwo
    <3> QED
      BY <1>6, <1>7, <1>9, <1>10, <2>1, <2>3, <3>1 DEF far
  <2>4. CASE op = "~="
    <3>1. Len(b.digits) - 1 = 2 /\ w.pre = 0
      BY <2>1, <2>4
    <3> QED
      BY <1>6, <1>7, <1>9, <1>10, <2>4, <3>1 DEF far
  <2>5. CASE op \in {">=", ">", "<=", "<", "=="}
    BY <1>8, <1>9, <1>10, <2>5
  <2> QED
    BY <1>1, <2>1, <2>2, <2>3, <2>4, <2>5 DEF Operators
<1>12. ASSUME op = "^", Means(w, piece[1]) PROVE InPart(w, piece)
  <2>1. far >= 0 /\ Agree(w, b, Leading(b))
    BY <1>9, <1>12
  <2>2. Digit(w.digits, 1) = Digit(b.digits, 1)
    <3>1. 1 \in 1..Leading(b)
      BY DEF Leading
    <3> QED
      BY <2>1, <3>1 DEF Agree
  <2>3. under1
    <3>1. /\ Digit(w.digits, 1) \in 0..3 /\ Digit(b.digits, 1) \in 0..3
          /\ ParseVersionTuple(w) \in Tuple /\ ParseVersionTuple(w)[1] = Digit(w.digits, 1)
      BY <1>1, PlaceIs, ReadTuple
    <3>2. /\ <<Digit(b.digits, 1) + 1, 0, 0, 0>> \in Tuple
          /\ <<Digit(b.digits, 1) + 1, 0, 0, 0>>[1] = Digit(b.digits, 1) + 1
      BY <3>1 DEF Tuple
    <3> QED
      BY <2>2, <3>1, <3>2, BeforeFromLeft DEF under1
  <2> QED
    BY <1>7, <1>10, <1>12, <2>1, <2>3
<1> QED
  BY <1>1, <1>11, <1>12 DEF b, op

-----------------------------------------------------------------------------
(* What is asked of a range, and what is answered.                          *)
AskedOfRange(said) ==
    \/ said = Unasked
    \/ \E w \in RangeVersions : said = [what |-> "version", version |-> w, answer |-> IsVersionInRange(w)]
    \/ /\ Len(range) > 1 /\ \A n \in DOMAIN range : range[n][1].version.pre = 0
       /\ said = [what |-> "conflict",
                  answer |-> /\ \A n \in DOMAIN range : IsSpecifier(range[n])
                             /\ \A w \in SampleVersions \cup {range[n][1].version : n \in DOMAIN range} :
                                   ~MeantBy(w, range)]
RangeInv == range \in Seq(RangeParts) /\ Len(range) <= MaxParts /\ AskedOfRange(reply)

LEMMA RangeInitial == RangeInit => RangeInv
BY VersionRangesAssumption DEF RangeInit, RangeInv, AskedOfRange

LEMMA RangeKept == RangeInv /\ [RangeNext]_rangeVars => RangeInv'
<1> SUFFICES ASSUME RangeInv, [RangeNext]_rangeVars PROVE RangeInv'
  OBVIOUS
<1> USE VersionRangesAssumption
<1>1. ASSUME NEW piece \in RangeParts, AddPart(piece) PROVE RangeInv'
  <2>1. range' = Append(range, piece) /\ range \in Seq(RangeParts) /\ Len(range) < MaxParts
    BY <1>1 DEF AddPart, RangeInv
  <2>2. range' \in Seq(RangeParts) /\ Len(range') = Len(range) + 1
    BY <2>1, AppendProperties
  <2>3. Len(range) \in Nat
    BY <2>1, LenProperties
  <2> QED
    BY <1>1, <2>1, <2>2, <2>3 DEF AddPart, RangeInv, AskedOfRange
<1>2. ASSUME NEW w \in RangeVersions, AskVersion(w) PROVE RangeInv'
  BY <1>2 DEF AskVersion, RangeInv, AskedOfRange, IsVersionInRange
<1>3. CASE AskConflict
  <2>1. UNCHANGED range
    BY <1>3 DEF AskConflict
  <2>2. AskedOfRange(reply)'
    <3>1. MeantBy(1, range)' = MeantBy(1, range)
      BY <2>1
    <3> QED
      BY <1>3, <2>1 DEF AskConflict, AskedOfRange
  <2> QED
    BY <2>1, <2>2 DEF RangeInv
<1>4. CASE UNCHANGED rangeVars
  BY <1>4 DEF rangeVars, RangeInv, AskedOfRange, IsVersionInRange
<1> QED
  BY <1>1, <1>2, <1>3, <1>4 DEF RangeNext

LEMMA PartsOfRange ==
  ASSUME RangeInv, NEW n \in DOMAIN range
  PROVE  /\ range[n] \in Seq(RangeClause) /\ Len(range[n]) \in 1..2 /\ range[n][1] \in RangeClause
         /\ range[n][1].version \in Writing /\ range[n][1].op \in Operators
<1>1. range[n] \in RangeParts
  BY DEF RangeInv
<1>2. range[n] \in Seq(RangeClause) /\ Len(range[n]) \in 1..2
  BY <1>1, VersionRangesAssumption DEF RangeClause
<1>3. range[n][1] \in RangeClause
  BY <1>2, ElementOfSeq
<1> QED
  BY <1>2, <1>3 DEF RangeClause

LEMMA MeantByOneEach ==
  ASSUME NEW w, NEW parts, \A n \in DOMAIN parts : parts[n] \in Seq(RangeClause) /\ Len(parts[n]) = 1
  PROVE  MeantBy(w, parts) <=> \A n \in DOMAIN parts : Means(w, parts[n][1])
<1>1. \A n \in DOMAIN parts : \A m \in 1..2 : m \in DOMAIN parts[n] <=> m = 1
  OBVIOUS
<1> QED
  BY <1>1 DEF MeantBy

LEMMA RangesAreRight == RangeInv => RangesRight
<1> SUFFICES ASSUME RangeInv, reply.what = "version"
             PROVE  /\ (\A n \in DOMAIN range : ReadAsMeant(reply.version, range[n]))
                          => reply.answer = MeantBy(reply.version, range)
                    /\ (/\ \A n \in DOMAIN range : ReadAsMeant(reply.version, range[n])
                               \/ (range[n][1].op = "^" /\ Len(range[n]) = 1 /\ Dashed(reply.version)
                                                        /\ Dashed(range[n][1].version))
                        /\ MeantBy(reply.version, range))
                          => reply.answer
  BY DEF RangesRight
<1>1. PICK w \in RangeVersions : reply = [what |-> "version", version |-> w, answer |-> IsVersionInRange(w)]
  BY DEF RangeInv, AskedOfRange, Unasked
<1>2. w \in Writing /\ reply.version = w /\ (reply.answer <=> IsVersionInRange(w)) /\ reply.answer \in BOOLEAN
  BY <1>1, VersionRangesAssumption DEF IsVersionInRange
<1> DEFINE Caret(n) == range[n][1].op = "^" /\ Len(range[n]) = 1 /\ Dashed(w) /\ Dashed(range[n][1].version)
<1>3. ASSUME \A n \in DOMAIN range : ReadAsMeant(w, range[n]) \/ Caret(n)
      PROVE  MeantBy(w, range) <=> \A n \in DOMAIN range : Means(w, range[n][1])
  <2>1. \A n \in DOMAIN range : range[n] \in Seq(RangeClause) /\ Len(range[n]) = 1
    BY <1>3, PartsOfRange DEF ReadAsMeant
  <2> QED
    BY <2>1, MeantByOneEach
<1>4. ASSUME \A n \in DOMAIN range : ReadAsMeant(w, range[n])
      PROVE  IsVersionInRange(w) <=> MeantBy(w, range)
  <2>1. ASSUME NEW n \in DOMAIN range PROVE InPart(w, range[n]) <=> Means(w, range[n][1])
    BY <1>2, <1>4, PartsOfRange, OneClause DEF ReadAsMeant
  <2> QED
    BY <1>3, <1>4, <2>1 DEF IsVersionInRange
<1>5. ASSUME \A n \in DOMAIN range : ReadAsMeant(w, range[n]) \/ Caret(n), MeantBy(w, range)
      PROVE  IsVersionInRange(w)
  <2>1. ASSUME NEW n \in DOMAIN range PROVE InPart(w, range[n])
    BY <1>2, <1>3, <1>5, PartsOfRange, OneClause DEF ReadAsMeant
  <2> QED
    BY <2>1 DEF IsVersionInRange
<1>6. MeantBy(w, range) \in BOOLEAN
  BY DEF MeantBy
<1> QED
  BY <1>2, <1>4, <1>5, <1>6

-----------------------------------------------------------------------------
(* A version between two that agree agrees with them, as far as they do.    *)
LEMMA BetweenAgrees ==
  ASSUME NEW w \in Writing, NEW b \in Writing, NEW v \in Writing, NEW k \in 1..2,
         Agree(w, b, k), Place(b) <= Place(v), Place(v) <= Place(w)
  PROVE  Agree(v, b, k)
<1>1. /\ Place(w) = 64 * Digit(w.digits, 1) + 16 * Digit(w.digits, 2) + 4 * Digit(w.digits, 3) + Pre(w)
      /\ Digit(w.digits, 1) \in 0..3 /\ Digit(w.digits, 2) \in 0..3 /\ Digit(w.digits, 3) \in 0..3 /\ Pre(w) \in 0..3
  BY PlaceIs
<1>2. /\ Place(b) = 64 * Digit(b.digits, 1) + 16 * Digit(b.digits, 2) + 4 * Digit(b.digits, 3) + Pre(b)
      /\ Digit(b.digits, 1) \in 0..3 /\ Digit(b.digits, 2) \in 0..3 /\ Digit(b.digits, 3) \in 0..3 /\ Pre(b) \in 0..3
  BY PlaceIs
<1>3. /\ Place(v) = 64 * Digit(v.digits, 1) + 16 * Digit(v.digits, 2) + 4 * Digit(v.digits, 3) + Pre(v)
      /\ Digit(v.digits, 1) \in 0..3 /\ Digit(v.digits, 2) \in 0..3 /\ Digit(v.digits, 3) \in 0..3 /\ Pre(v) \in 0..3
  BY PlaceIs
<1>4. Digit(w.digits, 1) = Digit(b.digits, 1) => Digit(v.digits, 1) = Digit(b.digits, 1)
  BY <1>1, <1>2, <1>3
<1>5. /\ Digit(w.digits, 1) = Digit(b.digits, 1)
      /\ Digit(w.digits, 2) = Digit(b.digits, 2)
      => Digit(v.digits, 2) = Digit(b.digits, 2)
  BY <1>1, <1>2, <1>3, <1>4
<1>6. 1 \in 1..k /\ (k = 2 => 2 \in 1..k) /\ \A m \in 1..k : m = 1 \/ (m = 2 /\ k = 2)
  OBVIOUS
<1> QED
  BY <1>4, <1>5, <1>6 DEF Agree

(* What a specifier of a requirement is.                                    *)
LEMMA SpecifierIs ==
  ASSUME NEW piece \in Seq(RangeClause), IsSpecifier(piece)
  PROVE  /\ Len(piece) = 1 /\ piece[1].version \in Writing
         /\ piece[1].op \in {"~=", "==", "!=", ">=", ">", "<=", "<"}
         /\ piece[1].op = "~=" => Len(piece[1].version.digits) - 1 \in 1..2
<1>1. Len(piece) = 1
  BY DEF IsSpecifier
<1>2. piece[1] \in RangeClause
  BY <1>1, ElementOfSeq
<1>3. piece[1].version \in Writing /\ piece[1].op \in Operators
  BY <1>2 DEF RangeClause
<1>4. piece[1].op = "~=" => Len(piece[1].version.digits) \in 1..3 /\ Len(piece[1].version.digits) > 1
  BY <1>3, WritingFields DEF IsSpecifier
<1>5. \A n \in 1..3 : n > 1 => n - 1 \in 1..2
  OBVIOUS
<1> QED
  BY <1>1, <1>3, <1>4, <1>5 DEF IsSpecifier, Operators

(* What specifiers ask of a version.                                        *)
LEMMA MeansSpecifier ==
  ASSUME NEW w \in Writing, NEW piece \in Seq(RangeClause), IsSpecifier(piece)
  PROVE  LET b == piece[1].version
             op == piece[1].op
         IN /\ op = "~=" => (Means(w, piece[1]) <=> Place(b) <= Place(w) /\ Agree(w, b, Len(b.digits) - 1))
            /\ op = "==" => (Means(w, piece[1]) <=> Place(w) = Place(b))
            /\ op = ">=" => (Means(w, piece[1]) <=> Place(b) <= Place(w))
            /\ op = "<=" => (Means(w, piece[1]) <=> Place(w) <= Place(b))
            /\ op = "<" => (Means(w, piece[1]) <=> Place(w) < Place(b))
<1> DEFINE b == piece[1].version
           op == piece[1].op
           far == Place(w) - Place(b)
<1>1. Place(w) \in Nat /\ Place(b) \in Nat
  BY SpecifierIs, PlaceIs
<1>2. /\ op = "~=" => (Means(w, piece[1]) <=> far >= 0 /\ Agree(w, b, Len(b.digits) - 1))
      /\ op = "==" => (Means(w, piece[1]) <=> far = 0)
      /\ op = ">=" => (Means(w, piece[1]) <=> far >= 0)
      /\ op = "<=" => (Means(w, piece[1]) <=> far <= 0)
      /\ op = "<" => (Means(w, piece[1]) <=> far < 0)
  BY DEF Means
<1>3. /\ far >= 0 <=> Place(b) <= Place(w)
      /\ far = 0 <=> Place(w) = Place(b)
      /\ far <= 0 <=> Place(w) <= Place(b)
      /\ far < 0 <=> Place(w) < Place(b)
  BY <1>1
<1> QED
  BY <1>2, <1>3

(* If specifiers that have no strict bound leave a version, they leave one  *)
(* that is named: the greatest of the lower bounds.                         *)
LEMMA NamedIsLeft ==
  ASSUME RangeInv, \A n \in DOMAIN range : IsSpecifier(range[n]),
         \A n \in DOMAIN range : range[n][1].op \notin {">", "!="},
         \E n \in DOMAIN range : range[n][1].op \notin {"<", "<="},
         NEW w \in Writing, MeantBy(w, range)
  PROVE  \E n \in DOMAIN range : MeantBy(range[n][1].version, range)
<1> DEFINE Base(n) == range[n][1].version
           Op(n) == range[n][1].op
           Low == {n \in DOMAIN range : Op(n) \in {"~=", "==", ">="}}
<1>1. ASSUME NEW n \in DOMAIN range
      PROVE  /\ range[n] \in Seq(RangeClause) /\ Len(range[n]) = 1 /\ Base(n) \in Writing
             /\ Op(n) \in {"~=", "==", ">=", "<=", "<"}
             /\ Op(n) = "~=" => Len(Base(n).digits) - 1 \in 1..2
             /\ Means(w, range[n][1])
  <2>1. range[n] \in Seq(RangeClause) /\ Len(range[n]) = 1
    BY PartsOfRange, SpecifierIs
  <2>2. \A k \in DOMAIN range : range[k] \in Seq(RangeClause) /\ Len(range[k]) = 1
    BY PartsOfRange, SpecifierIs
  <2>3. Means(w, range[n][1])
    BY <2>2, MeantByOneEach
  <2> QED
    BY <2>1, <2>3, SpecifierIs
<1>2. PICK low \in Low : \A n \in Low : Place(Base(n)) <= Place(Base(low))
  <2> DEFINE Places == {Place(Base(n)) : n \in Low}
  <2>1. Low # {}
    BY <1>1
  <2>2. ASSUME NEW n \in DOMAIN range PROVE Place(Base(n)) \in Nat /\ Place(Base(n)) <= 255
    <3>1. Base(n) \in Writing
      BY <1>1
    <3> HIDE DEF Base
    <3> QED
      BY <3>1, PlaceIs
  <2>3. Places \subseteq Nat /\ Places # {} /\ \A p \in Places : p <= 255
    BY <2>1, <2>2
  <2> HIDE DEF Places
  <2>4. Max(Places) \in Places /\ \A p \in Places : p <= Max(Places)
    BY ONLY <2>3, GreatestExists, 255 \in Nat
  <2> QED
    BY <2>4 DEF Places
<1> DEFINE v == Base(low)
<1>3. v \in Writing /\ low \in DOMAIN range /\ Place(v) \in Nat /\ Place(w) \in Nat
  BY <1>1, <1>2, PlaceIs
<1>4. Place(v) <= Place(w)
  <2>1. range[low] \in Seq(RangeClause) /\ IsSpecifier(range[low]) /\ Means(w, range[low][1])
        /\ Op(low) \in {"~=", "==", ">="}
    BY <1>1, <1>2
  <2> QED
    BY <1>3, <2>1, MeansSpecifier
<1>5. ASSUME NEW n \in DOMAIN range PROVE Means(v, range[n][1])
  <2>1. /\ range[n] \in Seq(RangeClause) /\ IsSpecifier(range[n]) /\ Base(n) \in Writing
        /\ Op(n) \in {"~=", "==", ">=", "<=", "<"}
        /\ Op(n) = "~=" => Len(Base(n).digits) - 1 \in 1..2
        /\ Means(w, range[n][1]) /\ Place(Base(n)) \in Nat
    BY <1>1, PlaceIs
  <2>2. Op(n) \in {"~=", "==", ">="} => Place(Base(n)) <= Place(v)
    BY <1>2
  <2> DEFINE k == Len(Base(n).digits) - 1
  <2>3. /\ Op(n) = "~=" => Place(Base(n)) <= Place(w) /\ Agree(w, Base(n), k)
        /\ Op(n) = "==" => Place(w) = Place(Base(n))
        /\ Op(n) = "<=" => Place(w) <= Place(Base(n))
        /\ Op(n) = "<" => Place(w) < Place(Base(n))
    BY <2>1, MeansSpecifier
  <2>4. /\ Op(n) = "~=" => (Means(v, range[n][1]) <=> Place(Base(n)) <= Place(v) /\ Agree(v, Base(n), k))
        /\ Op(n) = "==" => (Means(v, range[n][1]) <=> Place(v) = Place(Base(n)))
        /\ Op(n) = ">=" => (Means(v, range[n][1]) <=> Place(Base(n)) <= Place(v))
        /\ Op(n) = "<=" => (Means(v, range[n][1]) <=> Place(v) <= Place(Base(n)))
        /\ Op(n) = "<" => (Means(v, range[n][1]) <=> Place(v) < Place(Base(n)))
    BY <1>3, <2>1, MeansSpecifier
  <2>5. Op(n) = "~=" => Agree(v, Base(n), k)
    BY <1>3, <1>4, <2>1, <2>2, <2>3, BetweenAgrees
  <2> HIDE DEF v, k, Base, Op
  <2> QED
    BY <1>3, <1>4, <2>1, <2>2, <2>3, <2>4, <2>5
<1>6. MeantBy(v, range)
  BY <1>1, <1>5, MeantByOneEach
<1> QED
  BY <1>3, <1>6

(* A version as a release writes it: three numbers.                         *)
Filled(v) == [digits |-> [n \in 1..3 |-> Digit(v.digits, n)], pre |-> 0, dashed |-> FALSE]
LEMMA FilledMeansTheSame ==
  ASSUME NEW v \in Writing, v.pre = 0
  PROVE  /\ Filled(v) \in Releases
         /\ \A parts : MeantBy(Filled(v), parts) <=> MeantBy(v, parts)
<1> DEFINE r == Filled(v)
<1>1. \A n \in 1..3 : Digit(v.digits, n) \in 0..3
  BY WritingFields
<1>2. r.digits = [n \in 1..3 |-> Digit(v.digits, n)] /\ r.pre = 0
  BY DEF Filled
<1>3. r \in Releases
  BY <1>1 DEF Filled, Releases, Number
<1>4. ASSUME NEW m PROVE Digit(r.digits, m) = Digit(v.digits, m)
  <2>1. CASE m \in 1..3
    BY <1>2, <2>1 DEF Digit
  <2>2. CASE m \notin 1..3
    <3>1. DOMAIN v.digits \subseteq 1..3
      BY WritingFields
    <3> QED
      BY <1>2, <2>2, <3>1 DEF Digit
  <2> QED
    BY <2>1, <2>2
<1> HIDE DEF r
<1>5. Place(r) = Place(v)
  BY <1>2, <1>4 DEF Place
<1>6. ASSUME NEW base, NEW n PROVE Agree(r, base, n) <=> Agree(v, base, n)
  BY <1>4 DEF Agree
<1>7. ASSUME NEW clause PROVE Means(r, clause) <=> Means(v, clause)
  <2> DEFINE base == clause.version
             far == Place(v) - Place(base)
  <2>1. /\ Agree(r, base, Leading(base)) <=> Agree(v, base, Leading(base))
        /\ Agree(r, base, Min({Len(base.digits), 2})) <=> Agree(v, base, Min({Len(base.digits), 2}))
        /\ Agree(r, base, Len(base.digits) - 1) <=> Agree(v, base, Len(base.digits) - 1)
    BY <1>6
  <2>2. Place(r) - Place(base) = far
    BY <1>5
  <2> QED
    BY <2>1, <2>2 DEF Means
<1>8. ASSUME NEW parts PROVE MeantBy(r, parts) <=> MeantBy(v, parts)
  BY <1>7 DEF MeantBy
<1> QED
  BY <1>3, <1>8 DEF r

LEMMA ConflictsAreRight == RangeInv => ConflictsRight
<1> SUFFICES ASSUME RangeInv, reply.what = "conflict"
             PROVE  /\ ((\E w \in Releases : MeantBy(w, range)) /\ reply.answer) =>
                           \/ \E n \in DOMAIN range : range[n][1].op \in {">", "!="}
                           \/ \A n \in DOMAIN range : range[n][1].op \in {"<", "<="}
                    /\ (\A w \in Releases : ~MeantBy(w, range)) =>
                           (reply.answer \/ \E n \in DOMAIN range : ~IsSpecifier(range[n]))
  BY DEF ConflictsRight
<1> DEFINE tried == SampleVersions \cup {range[n][1].version : n \in DOMAIN range}
<1>1. /\ \A n \in DOMAIN range : range[n][1].version.pre = 0
      /\ reply.answer <=> /\ \A n \in DOMAIN range : IsSpecifier(range[n])
                          /\ \A w \in tried : ~MeantBy(w, range)
  BY DEF RangeInv, AskedOfRange, Unasked
<1>2. Releases \subseteq Writing
  <2>1. \A d : d \in [1..3 -> Number] => d \in UNION {[1..n -> Number] : n \in 1..3}
    OBVIOUS
  <2>2. 0 \in Number
    BY DEF Number
  <2> QED
    BY <2>1, <2>2 DEF Releases, Writing
<1>3. ASSUME NEW w \in Releases, MeantBy(w, range), reply.answer,
             \A n \in DOMAIN range : range[n][1].op \notin {">", "!="},
             \E n \in DOMAIN range : range[n][1].op \notin {"<", "<="}
      PROVE  FALSE
  <2>1. \E n \in DOMAIN range : MeantBy(range[n][1].version, range)
    BY <1>1, <1>2, <1>3, NamedIsLeft
  <2> QED
    BY <1>1, <1>3, <2>1
<1>4. ASSUME \A w \in Releases : ~MeantBy(w, range), \A n \in DOMAIN range : IsSpecifier(range[n])
      PROVE  reply.answer
  <2>1. ASSUME NEW v \in tried PROVE ~MeantBy(v, range)
    <3>1. v \in Writing /\ v.pre = 0
      BY <1>1, PartsOfRange, VersionRangesAssumption
    <3> QED
      BY <1>4, <3>1, FilledMeansTheSame
  <2> QED
    BY <1>1, <1>4, <2>1
<1> QED
  BY <1>3, <1>4

-----------------------------------------------------------------------------
(* The intelligence feed.                                                   *)

LEMMA FeedTypes == /\ MaxBatch \in Nat /\ MaxIngests \in Nat
                   /\ IsFiniteSet(RawRecords) /\ \A r \in RawRecords : IsFiniteSet(r.aliases)
  BY IntelligenceFeedAssumption

LEMMA IdentifiersFinite == IsFiniteSet(AllIdentifiers)
<1>1. ASSUME NEW r \in RawRecords PROVE IsFiniteSet(Identifiers(r))
  <2>1. IsFiniteSet(r.aliases)
    BY FeedTypes
  <2> QED
    BY <2>1, FS_Singleton, FS_Union DEF Identifiers
<1> DEFINE Each == {Identifiers(r) : r \in RawRecords}
<1>2. [r \in RawRecords |-> Identifiers(r)] \in Surjection(RawRecords, Each)
  BY DEF Surjection
<1>4. IsFiniteSet(Each)
  BY <1>2, FeedTypes, FS_Surjection
<1>5. \A s \in {Identifiers(r) : r \in RawRecords} : IsFiniteSet(s)
  BY <1>1
<1> QED
  BY <1>4, <1>5, FS_UNION DEF AllIdentifiers

(* The aliases of an identifier are the least set that has it and from      *)
(* which no link leads.                                                     *)
LEMMA AliasesAreReached ==
  ASSUME NEW g \in SUBSET (AllIdentifiers \X AllIdentifiers), NEW id \in AllIdentifiers
  PROVE  /\ id \in AliasesOf(g, id) /\ AliasesOf(g, id) \in SUBSET AllIdentifiers /\ NoWayOut(g, AliasesOf(g, id))
         /\ \A c : id \in c /\ NoWayOut(g, c) => AliasesOf(g, id) \subseteq c
<1> DEFINE N == Cardinality(AllIdentifiers)
           f == CHOOSE f : Walks(g, {id}, N, f)
<1>1. IsFiniteSet(AllIdentifiers) /\ N \in Nat
  BY IdentifiersFinite, FS_CardinalityType
<1>2. AliasesOf(g, id) = f[N]
  BY DEF AliasesOf, Walks, NextTo
<1> HIDE DEF N
<1>3. Walks(g, {id}, N, f)
  BY <1>1, WalksExist
<1> HIDE DEF f
<1>4. /\ {id} \subseteq f[N] /\ f[N] \in SUBSET AllIdentifiers /\ NoWayOut(g, f[N])
      /\ \A c : {id} \subseteq c /\ NoWayOut(g, c) => f[N] \subseteq c
  <2>1. PICK s : s = {id}
    OBVIOUS
  <2>2. s \in SUBSET AllIdentifiers /\ IsFiniteSet(AllIdentifiers) /\ Walks(g, s, Cardinality(AllIdentifiers), f)
    BY <1>1, <1>3, <2>1 DEF N
  <2>3. LET w == f[Cardinality(AllIdentifiers)] IN
        /\ s \subseteq w /\ w \in SUBSET AllIdentifiers /\ NoWayOut(g, w)
        /\ \A c : s \subseteq c /\ NoWayOut(g, c) => w \subseteq c
    BY <2>2, WalkEnds
  <2> QED
    BY <2>1, <2>3 DEF N
<1> QED
  BY <1>2, <1>4

BothWays(g) == \A l \in g : <<l[2], l[1]>> \in g

(* What is reached is reached from everything that is reached.              *)
LEMMA AliasesAreOfOneGroup ==
  ASSUME NEW g \in SUBSET (AllIdentifiers \X AllIdentifiers), BothWays(g),
         NEW i \in AllIdentifiers, NEW j \in AliasesOf(g, i)
  PROVE  AliasesOf(g, j) = AliasesOf(g, i)
<1>1. j \in AllIdentifiers
  BY AliasesAreReached
<1> DEFINE a == AliasesOf(g, i)
           b == AliasesOf(g, j)
<1>2. i \in a /\ NoWayOut(g, a) /\ \A c : i \in c /\ NoWayOut(g, c) => a \subseteq c
  BY AliasesAreReached
<1>3. j \in b /\ NoWayOut(g, b) /\ \A c : j \in c /\ NoWayOut(g, c) => b \subseteq c
  BY <1>1, AliasesAreReached
<1>4. j \in a
  OBVIOUS
<1> HIDE DEF a, b
<1>5. i \in b
  <2> SUFFICES ASSUME i \notin b PROVE FALSE
    OBVIOUS
  <2>1. NoWayOut(g, a \ b)
    <3> SUFFICES ASSUME NEW l \in g, l[1] \in a, l[1] \notin b PROVE l[2] \in a /\ l[2] \notin b
      BY DEF NoWayOut
    <3>1. <<l[2], l[1]>> \in g
      BY DEF BothWays
    <3>2. l[2] \in b => l[1] \in b
      BY <3>1, <1>3 DEF NoWayOut
    <3> QED
      BY <3>2, <1>2 DEF NoWayOut
  <2> QED
    BY <2>1, <1>2, <1>3, <1>4
<1>6. a \subseteq b
  BY <1>2, <1>3, <1>5
<1>7. b \subseteq a
  BY <1>2, <1>3, <1>4
<1> QED
  BY <1>6, <1>7 DEF a, b

-----------------------------------------------------------------------------
LinkedIds == {l[1] : l \in aliasLinks}
GroupOf(i) == AliasesOf(aliasLinks, i)

LinksFit == /\ aliasLinks \in SUBSET (AllIdentifiers \X AllIdentifiers) /\ BothWays(aliasLinks)
            /\ \A l \in aliasLinks : <<l[1], l[1]>> \in aliasLinks
LastFitsFeed == \A i \in DOMAIN lastRecords : lastRecords[i] \in RawRecords /\ lastRecords[i].id = i

(* A record speaks for a group: it has just its names, and the severity of  *)
(* one that is trusted most.                                                *)
SpeaksFor(k, group, latest) ==
    /\ k.id \in group /\ k.id \notin k.aliases /\ Identifiers(k) = group
    /\ \E r \in {latest[j] : j \in group \cap DOMAIN latest} :
          k.severity = r.severity /\ \A j \in group \cap DOMAIN latest : latest[j].trust <= r.trust
KnowledgeFits ==
    /\ DOMAIN knowledge = LinkedIds
    /\ \A i \in LinkedIds :
          /\ SpeaksFor(knowledge[i], GroupOf(i), lastRecords)
          /\ \A j \in GroupOf(i) : knowledge[j] = knowledge[i]
          /\ knowledge[i].id \in DOMAIN stored /\ stored[knowledge[i].id] = knowledge[i]
StoredFits ==
    \A i \in DOMAIN stored : /\ i \in LinkedIds /\ stored[i].id = i /\ i \notin stored[i].aliases
                             /\ \A p \in PackagesOf(stored[i]) : <<i, p>> \in impact
ToldFits == /\ told \subseteq (DOMAIN stored) \X Repositories
            /\ \A t \in told : t[2] \in AffectedRepositories(t[1])
FeedInv == /\ ingests \in 0..MaxIngests
           /\ LinksFit /\ LastFitsFeed /\ KnowledgeFits /\ StoredFits /\ ToldFits

LEMMA FeedInitial == FeedInit => FeedInv
  BY FeedTypes DEF FeedInit, FeedInv, LinksFit, LastFitsFeed, KnowledgeFits, StoredFits, ToldFits, LinkedIds, BothWays

LEMMA FeedSays == FeedInv => FeedTypeOK /\ FeedTells
<1> SUFFICES ASSUME FeedInv PROVE FeedTypeOK /\ FeedTells
  OBVIOUS
<1>0. /\ LinksFit /\ LastFitsFeed /\ KnowledgeFits /\ StoredFits /\ ToldFits /\ ingests \in 0..MaxIngests
  BY DEF FeedInv
<1>1. FeedTypeOK
  BY <1>0 DEF FeedTypeOK, KnowledgeFits, StoredFits, ToldFits, LastFitsFeed
<1>2. KnowledgeAgrees
  <2> SUFFICES ASSUME NEW l \in aliasLinks
               PROVE  LET ids == Identifiers(knowledge[l[1]])
                      IN /\ {l[1], l[2]} \subseteq DOMAIN knowledge /\ knowledge[l[2]] = knowledge[l[1]] /\ l[2] \in ids
                         /\ \E r \in {lastRecords[j] : j \in ids \cap DOMAIN lastRecords} :
                               /\ knowledge[l[1]].severity = r.severity
                               /\ \A j \in ids \cap DOMAIN lastRecords : lastRecords[j].trust <= r.trust
    BY DEF KnowledgeAgrees
  <2>1. l[1] \in LinkedIds /\ l[2] \in LinkedIds /\ l[1] \in AllIdentifiers /\ aliasLinks \in SUBSET (AllIdentifiers \X AllIdentifiers)
    <3>1. <<l[2], l[1]>> \in aliasLinks
      BY <1>0 DEF LinksFit, BothWays
    <3> QED
      BY <3>1, <1>0 DEF LinksFit, LinkedIds
  <2>2. l[1] \in GroupOf(l[1]) /\ NoWayOut(aliasLinks, GroupOf(l[1]))
    BY <2>1, AliasesAreReached DEF GroupOf
  <2>3. l[2] \in GroupOf(l[1])
    BY <2>2 DEF NoWayOut
  <2> QED
    BY <1>0, <2>1, <2>3 DEF KnowledgeFits, SpeaksFor
<1>3. OvertakenByAlias
  <2> SUFFICES ASSUME NEW i \in DOMAIN stored
               PROVE  /\ stored[knowledge[i].id] = knowledge[i]
                      /\ stored[i] # knowledge[i] => i \in knowledge[i].aliases
    BY DEF OvertakenByAlias
  <2>1. i \in LinkedIds
    BY <1>0 DEF StoredFits
  <2>2. i \in AllIdentifiers /\ aliasLinks \in SUBSET (AllIdentifiers \X AllIdentifiers)
    BY <2>1, <1>0 DEF LinksFit, LinkedIds
  <2>3. i \in GroupOf(i)
    BY <2>2, AliasesAreReached DEF GroupOf
  <2>4. i \in Identifiers(knowledge[i]) /\ stored[knowledge[i].id] = knowledge[i]
    BY <1>0, <2>1, <2>3 DEF KnowledgeFits, SpeaksFor
  <2> QED
    BY <2>4 DEF Identifiers
<1>4. FoundAgain
  <2>1. ASSUME NEW i \in DOMAIN stored, NEW r \in Repositories, NEW dep \in Inventory[r],
               dep[1] \in PackagesOf(stored[i]), <<dep[1], r>> \in impact
        PROVE  r \in AffectedRepositories(i)
    <3>1. <<i, dep[1]>> \in impact
      BY <1>0, <2>1 DEF StoredFits
    <3> QED
      BY <3>1, <2>1 DEF AffectedRepositories
  <2> QED
    BY <2>1, <1>0 DEF FoundAgain, ToldFits
<1> QED
  BY <1>1, <1>2, <1>3, <1>4 DEF FeedTells

(* Edges are only added, and a match adds those by which it is found again. *)
LEMMA MatchesAreFound ==
  ASSUME FeedInv, NEW R \in SUBSET Repositories,
         impact' = impact \cup UNION {DependencyEdges(r) : r \in R},
         told' = told \cup UNION {{<<m[1], r>> : m \in Matches(r)} : r \in R},
         UNCHANGED <<aliasLinks, lastRecords, stored, knowledge, ingests>>
  PROVE  FeedInv'
<1>1. ToldFits'
  <2>1. ASSUME NEW t \in told' PROVE t \in (DOMAIN stored) \X Repositories /\ t[2] \in AffectedRepositories(t[1])'
    <3>1. CASE t \in told
      BY <3>1 DEF FeedInv, ToldFits, AffectedRepositories
    <3>2. CASE \E r \in R : \E m \in Matches(r) : t = <<m[1], r>>
      <4>1. PICK r \in R : \E m \in Matches(r) : t = <<m[1], r>>
        BY <3>2
      <4>2. PICK m \in Matches(r) : t = <<m[1], r>>
        BY <4>1
      <4>3. m[1] \in DOMAIN stored /\ m[2] \in Inventory[r]
        BY DEF Matches
      <4>4. <<m[1], m[2][1]>> \in impact' /\ <<m[2][1], r>> \in impact'
        BY <4>3 DEF DependencyEdges
      <4> QED
        BY <4>2, <4>3, <4>4 DEF AffectedRepositories
    <3> QED
      BY <3>1, <3>2
  <2> QED
    BY <2>1 DEF ToldFits
<1>2. StoredFits'
  BY DEF FeedInv, StoredFits, LinkedIds
<1>3. LinksFit' /\ LastFitsFeed' /\ ingests' \in 0..MaxIngests
  BY DEF FeedInv, LinksFit, LastFitsFeed
<1>4. KnowledgeFits'
  BY DEF FeedInv, KnowledgeFits, SpeaksFor, GroupOf, LinkedIds
<1> QED
  BY <1>1, <1>2, <1>3, <1>4 DEF FeedInv

LEMMA CorrelateKeeps ==
  ASSUME FeedInv, NEW r \in Repositories, Correlate(r)
  PROVE  FeedInv'
<1>1. /\ UNION {DependencyEdges(q) : q \in {r}} = DependencyEdges(r)
      /\ UNION {{<<m[1], q>> : m \in Matches(q)} : q \in {r}} = {<<m[1], r>> : m \in Matches(r)}
  OBVIOUS
<1>2. {r} \in SUBSET Repositories
  OBVIOUS
<1> QED
  BY <1>1, <1>2, MatchesAreFound DEF Correlate

LEMMA ReassessKeeps ==
  ASSUME FeedInv, NEW id \in DOMAIN stored, Reassess(id)
  PROVE  FeedInv'
<1>1. AffectedRepositories(id) \in SUBSET Repositories
  BY DEF AffectedRepositories
<1> QED
  BY <1>1, MatchesAreFound DEF Reassess

-----------------------------------------------------------------------------
(* A delivery.                                                              *)

LEMMA BatchHolds ==
  ASSUME NEW b \in Batches
  PROVE  ToSet(b) \in SUBSET RawRecords
  BY DEF Batches, ToSet

LEMMA LinksKept ==
  ASSUME LinksFit, NEW b \in Batches, aliasLinks' = aliasLinks \cup LinksOf(b)
  PROVE  /\ LinksFit' /\ aliasLinks \subseteq aliasLinks'
         /\ \A l \in aliasLinks' \ aliasLinks : \E r \in ToSet(b) : l[1] \in Identifiers(r) /\ l[2] \in Identifiers(r)
         /\ \A r \in ToSet(b) : \A i, j \in Identifiers(r) : <<i, j>> \in aliasLinks'
         /\ \A r \in ToSet(b) : r.id \in Identifiers(r) /\ Identifiers(r) \subseteq AllIdentifiers
<1>1. \A r \in ToSet(b) : r.id \in Identifiers(r) /\ Identifiers(r) \subseteq AllIdentifiers
  BY BatchHolds DEF Identifiers, AllIdentifiers
<1>2. \A l \in LinksOf(b) : \E r \in ToSet(b) : l \in Identifiers(r) \X Identifiers(r)
  BY DEF LinksOf
<1>3. \A r \in ToSet(b) : \A i, j \in Identifiers(r) : <<i, j>> \in LinksOf(b)
  BY DEF LinksOf
<1>4. aliasLinks' \in SUBSET (AllIdentifiers \X AllIdentifiers)
  BY <1>1, <1>2 DEF LinksFit
<1>5. ASSUME NEW l \in aliasLinks' PROVE <<l[2], l[1]>> \in aliasLinks' /\ <<l[1], l[1]>> \in aliasLinks'
  <2>1. CASE l \in aliasLinks
    BY <2>1 DEF LinksFit, BothWays
  <2>2. CASE l \in LinksOf(b)
    BY <2>2, <1>2, <1>3
  <2> QED
    BY <2>1, <2>2
<1> QED
  BY <1>1, <1>2, <1>3, <1>4, <1>5 DEF LinksFit, BothWays

(* What a delivery does not touch stays a group of its own.                 *)
LEMMA GroupsUntouched ==
  ASSUME LinksFit, NEW b \in Batches, aliasLinks' = aliasLinks \cup LinksOf(b),
         NEW i \in LinkedIds', \A r \in ToSet(b) : r.id \notin GroupOf(i)'
  PROVE  i \in LinkedIds /\ GroupOf(i) = GroupOf(i)' /\ i \in AllIdentifiers
<1>1. /\ LinksFit' /\ aliasLinks \subseteq aliasLinks'
      /\ \A l \in aliasLinks' \ aliasLinks : \E r \in ToSet(b) : l[1] \in Identifiers(r) /\ l[2] \in Identifiers(r)
      /\ \A r \in ToSet(b) : \A j, k \in Identifiers(r) : <<j, k>> \in aliasLinks'
      /\ \A r \in ToSet(b) : r.id \in Identifiers(r) /\ Identifiers(r) \subseteq AllIdentifiers
  BY LinksKept
<1>2. /\ aliasLinks \in SUBSET (AllIdentifiers \X AllIdentifiers)
      /\ aliasLinks' \in SUBSET (AllIdentifiers \X AllIdentifiers)
  BY <1>1 DEF LinksFit
<1>3. i \in AllIdentifiers
  BY <1>2 DEF LinkedIds
<1> DEFINE a == AliasesOf(aliasLinks, i)
           z == AliasesOf(aliasLinks', i)
<1>4. i \in a /\ NoWayOut(aliasLinks, a) /\ \A c : i \in c /\ NoWayOut(aliasLinks, c) => a \subseteq c
  BY <1>2, <1>3, AliasesAreReached
<1>5. i \in z /\ NoWayOut(aliasLinks', z) /\ \A c : i \in c /\ NoWayOut(aliasLinks', c) => z \subseteq c
  BY <1>2, <1>3, AliasesAreReached
<1>6. GroupOf(i) = a /\ GroupOf(i)' = z
  BY DEF GroupOf
<1> HIDE DEF a, z
<1>7. a \subseteq z
  BY <1>1, <1>4, <1>5 DEF NoWayOut
<1>8. ASSUME NEW r \in ToSet(b), NEW j \in Identifiers(r) PROVE j \notin z
  <2>1. <<j, r.id>> \in aliasLinks'
    BY <1>1
  <2> QED
    BY <2>1, <1>5, <1>6 DEF NoWayOut
<1>9. NoWayOut(aliasLinks', a)
  BY <1>1, <1>4, <1>7, <1>8 DEF NoWayOut
<1>10. i \in LinkedIds
  BY <1>1, <1>5, <1>8 DEF LinkedIds
<1> QED
  BY <1>3, <1>5, <1>4, <1>6, <1>7, <1>9, <1>10

LEMMA LastKept ==
  ASSUME LastFitsFeed, NEW b \in Batches, lastRecords' = LastOf(b)
  PROVE  /\ LastFitsFeed'
         /\ DOMAIN lastRecords' = DOMAIN lastRecords \cup {r.id : r \in ToSet(b)}
         /\ \A i \in DOMAIN lastRecords : i \notin {r.id : r \in ToSet(b)} => lastRecords'[i] = lastRecords[i]
<1> DEFINE ids == {r.id : r \in ToSet(b)}
           places(i) == {n \in DOMAIN b : b[n].id = i}
           new == [i \in ids |-> b[Max(places(i))]]
<1>1. PICK n \in 1..MaxBatch : b \in [1..n -> RawRecords]
  BY DEF Batches
<1>2. n \in Nat
  BY FeedTypes
<1>3. ASSUME NEW i \in ids PROVE new[i] \in RawRecords /\ new[i].id = i
  <2>1. places(i) # {} /\ places(i) \subseteq Nat /\ \A m \in places(i) : m <= n
    BY <1>1, <1>2 DEF ToSet
  <2>2. Max(places(i)) \in places(i)
    BY <1>2, <2>1, GreatestExists
  <2>3. Max(places(i)) \in DOMAIN b /\ b[Max(places(i))].id = i
    BY <2>2
  <2> QED
    BY <1>1, <2>3
<1>4. lastRecords' = Updated(lastRecords, new)
  BY DEF LastOf
<1> HIDE DEF new
<1>5. DOMAIN new = ids
  BY DEF new
<1>6. /\ DOMAIN lastRecords' = ids \cup DOMAIN lastRecords
      /\ \A i \in ids : lastRecords'[i] = new[i]
      /\ \A i \in DOMAIN lastRecords : i \notin ids => lastRecords'[i] = lastRecords[i]
  BY <1>4, <1>5 DEF Updated
<1> QED
  BY <1>3, <1>6 DEF LastFitsFeed

(* A canonical record has the names of its group, and speaks as a most      *)
(* trusted record of it does; so does the record with the date of a change. *)
LEMMA CanonicalSpeaks ==
  ASSUME LastFitsFeed', NEW group, NEW k \in Canonical(lastRecords', group)
  PROVE  LET d == Dated(k) IN
         /\ d.id \in group /\ d.id \notin d.aliases /\ Identifiers(d) = group
         /\ \E r \in {lastRecords'[j] : j \in group \cap DOMAIN lastRecords'} :
               d.severity = r.severity /\ \A j \in group \cap DOMAIN lastRecords' : lastRecords'[j].trust <= r.trust
<1> DEFINE cluster == {lastRecords'[i] : i \in group \cap DOMAIN lastRecords'}
           trusted == {r \in cluster : \A s \in cluster : s.trust <= r.trust}
           Joined(r, id) == [id |-> id, aliases |-> group \ {id}, severity |-> r.severity, trust |-> r.trust,
                             affects |-> UNION {s.affects : s \in cluster}, fixed |-> UNION {s.fixed : s \in cluster},
                             history |-> << >>]
<1>1. \A r \in cluster : r.id \in group
  BY DEF LastFitsFeed
<1>2. \E r \in trusted : \E id \in group : k = Joined(r, id)
  <2>1. CASE group \cap Cves # {}
    <3>1. k \in {Joined(r, id) : r \in trusted, id \in group \cap Cves}
      BY <2>1 DEF Canonical
    <3> QED
      BY <3>1
  <2>2. CASE group \cap Cves = {}
    <3>1. k \in {Joined(r, r.id) : r \in trusted}
      BY <2>2 DEF Canonical
    <3> QED
      BY <3>1, <1>1
  <2> QED
    BY <2>1, <2>2
<1>3. PICK r \in trusted : \E id \in group : k = Joined(r, id)
  BY <1>2
<1>4. PICK id \in group : k = Joined(r, id)
  BY <1>3
<1>5. Dated(k).id = id /\ Dated(k).aliases = group \ {id} /\ Dated(k).severity = r.severity
  BY <1>4 DEF Dated
<1>6. r \in cluster /\ \A j \in group \cap DOMAIN lastRecords' : lastRecords'[j].trust <= r.trust
  OBVIOUS
<1> HIDE DEF cluster, trusted
<1>7. Identifiers(Dated(k)) = group
  BY <1>5 DEF Identifiers
<1> QED
  BY <1>5, <1>6, <1>7 DEF cluster

LEMMA IngestKeeps ==
  ASSUME FeedInv, NEW b \in Batches, Ingest(b)
  PROVE  FeedInv'
<1> DEFINE groups == {AliasesOf(aliasLinks', r.id) : r \in ToSet(b)}
           All == UNION {Canonical(lastRecords', g) : g \in groups}
<1>0. /\ LinksFit /\ LastFitsFeed /\ KnowledgeFits /\ StoredFits /\ ToldFits /\ ingests \in 0..MaxIngests
      /\ aliasLinks' = aliasLinks \cup LinksOf(b) /\ lastRecords' = LastOf(b) /\ ingests' \in 0..MaxIngests
      /\ UNCHANGED told
  BY FeedTypes DEF FeedInv, Ingest
<1> DEFINE sought == {AliasesOf(aliasLinks \cup LinksOf(b), r.id) : r \in ToSet(b)}
           AnyOfThese == UNION {Canonical(LastOf(b), g) : g \in sought}
<1>a. PICK canonical \in [sought -> AnyOfThese] :
         LET dated == {Dated(canonical[g]) : g \in sought} IN
         /\ \A g \in sought : canonical[g] \in Canonical(LastOf(b), g)
         /\ stored' = Updated(stored, [i \in {r.id : r \in dated} |-> CHOOSE r \in dated : r.id = i])
         /\ knowledge' = Updated(knowledge, Registered(dated))
         /\ impact' = impact \cup UNION {{r.id} \X PackagesOf(r) : r \in dated}
  BY DEF Ingest
<1>b. sought = groups
  BY <1>0
<1>c. AnyOfThese = All
  BY <1>0, <1>b
<1> HIDE DEF sought, AnyOfThese
<1>1. /\ canonical \in [groups -> All]
      /\ LET dated == {Dated(canonical[g]) : g \in groups} IN
         /\ \A g \in groups : canonical[g] \in Canonical(lastRecords', g)
         /\ stored' = Updated(stored, [i \in {r.id : r \in dated} |-> CHOOSE r \in dated : r.id = i])
         /\ knowledge' = Updated(knowledge, Registered(dated))
         /\ impact' = impact \cup UNION {{r.id} \X PackagesOf(r) : r \in dated}
  <2> HIDE DEF groups, All
  <2>1. canonical \in [groups -> All]
    BY <1>a, <1>b, <1>c
  <2>2. \A g \in groups : canonical[g] \in Canonical(lastRecords', g)
    BY <1>a, <1>b, <1>0
  <2> QED
    BY <2>1, <2>2, <1>a, <1>b
<1> DEFINE new == [g \in groups |-> Dated(canonical[g])]
           dated == {Dated(canonical[g]) : g \in groups}
           st == [i \in {r.id : r \in dated} |-> CHOOSE r \in dated : r.id = i]
<1>2. dated = {new[g] : g \in groups}
  OBVIOUS
<1>3. LastFitsFeed'
  BY <1>0, LastKept
<1>4. ASSUME NEW g \in groups PROVE SpeaksFor(new[g], g, lastRecords')
  <2>1. canonical[g] \in Canonical(lastRecords', g)
    BY <1>1
  <2> QED
    BY <2>1, <1>3, CanonicalSpeaks DEF SpeaksFor
<1>5. /\ stored' = Updated(stored, st) /\ knowledge' = Updated(knowledge, Registered(dated))
      /\ impact' = impact \cup UNION {{r.id} \X PackagesOf(r) : r \in dated}
  BY <1>1
<1> HIDE DEF new, dated
<1>6. /\ LinksFit' /\ aliasLinks \subseteq aliasLinks'
      /\ \A l \in aliasLinks' \ aliasLinks : \E r \in ToSet(b) : l[1] \in Identifiers(r) /\ l[2] \in Identifiers(r)
      /\ \A r \in ToSet(b) : \A j, k \in Identifiers(r) : <<j, k>> \in aliasLinks'
      /\ \A r \in ToSet(b) : r.id \in Identifiers(r) /\ Identifiers(r) \subseteq AllIdentifiers
  BY <1>0, LinksKept
<1>7. aliasLinks' \in SUBSET (AllIdentifiers \X AllIdentifiers) /\ BothWays(aliasLinks')
  BY <1>6 DEF LinksFit
<1>8. ASSUME NEW g \in groups, NEW i \in g
      PROVE  GroupOf(i)' = g /\ i \in LinkedIds' /\ i \in AllIdentifiers
  <2>1. PICK r \in ToSet(b) : g = AliasesOf(aliasLinks', r.id)
    OBVIOUS
  <2>2. r.id \in AllIdentifiers
    BY <1>6
  <2>3. AliasesOf(aliasLinks', i) = g /\ i \in AllIdentifiers
    BY <2>1, <2>2, <1>7, AliasesAreOfOneGroup, AliasesAreReached
  <2>4. i \in LinkedIds'
    <3> DEFINE c == g \cap LinkedIds'
    <3>0. /\ r.id \in g /\ NoWayOut(aliasLinks', g)
          /\ \A d : r.id \in d /\ NoWayOut(aliasLinks', d) => g \subseteq d
      BY <2>1, <2>2, <1>7, AliasesAreReached
    <3>1. r.id \in c
      <4>1. <<r.id, r.id>> \in aliasLinks'
        BY <1>6
      <4> QED
        BY <4>1, <3>0 DEF LinkedIds
    <3>2. NoWayOut(aliasLinks', g)
      BY <3>0
    <3>3. ASSUME NEW l \in aliasLinks' PROVE l[2] \in LinkedIds'
      <4>1. <<l[2], l[1]>> \in aliasLinks'
        BY <1>7 DEF BothWays
      <4> QED
        BY <4>1 DEF LinkedIds
    <3>4. NoWayOut(aliasLinks', c)
      BY <3>2, <3>3 DEF NoWayOut
    <3>5. g \subseteq c
      BY <3>0, <3>1, <3>4
    <3> QED
      BY <3>5
  <2> QED
    BY <2>3, <2>4 DEF GroupOf
<1>9. ASSUME NEW i \in LinkedIds', GroupOf(i)' \notin groups
      PROVE  /\ i \in LinkedIds /\ GroupOf(i) = GroupOf(i)' /\ i \in AllIdentifiers
             /\ \A g \in groups : GroupOf(i) \cap g = {}
  <2>1. i \in AllIdentifiers
    BY <1>7 DEF LinkedIds
  <2>2. ASSUME NEW j \in GroupOf(i)', NEW g \in groups PROVE j \notin g
    <3>1. GroupOf(j)' = GroupOf(i)'
      BY <2>1, <1>7, AliasesAreOfOneGroup DEF GroupOf
    <3> QED
      BY <3>1, <1>8, <1>9
  <2>3. ASSUME NEW r \in ToSet(b) PROVE r.id \notin GroupOf(i)'
    <3>1. AliasesOf(aliasLinks', r.id) \in groups /\ r.id \in AllIdentifiers
      BY <1>6
    <3>2. r.id \in AliasesOf(aliasLinks', r.id)
      BY <3>1, <1>7, AliasesAreReached
    <3> QED
      BY <3>1, <3>2, <2>2
  <2>4. i \in LinkedIds /\ GroupOf(i) = GroupOf(i)' /\ i \in AllIdentifiers
    BY <1>0, <2>3, GroupsUntouched
  <2> QED
    BY <2>2, <2>4
<1> DEFINE touched == UNION groups
<1>10. /\ DOMAIN Registered(dated) = touched
       /\ \A g \in groups : \A i \in g : Registered(dated)[i] = new[g]
  <2>1. UNION {Identifiers(r) : r \in dated} = touched
    BY <1>2, <1>4 DEF SpeaksFor
  <2>2. ASSUME NEW g \in groups, NEW i \in g PROVE (CHOOSE r \in dated : i \in Identifiers(r)) = new[g]
    <3>1. new[g] \in dated /\ i \in Identifiers(new[g])
      BY <1>2, <1>4 DEF SpeaksFor
    <3>2. ASSUME NEW r \in dated, i \in Identifiers(r) PROVE r = new[g]
      <4>1. PICK h \in groups : r = new[h]
        BY <1>2
      <4>2. i \in h
        BY <4>1, <3>2, <1>4 DEF SpeaksFor
      <4> QED
        BY <4>1, <4>2, <1>8
    <3> QED
      BY <3>1, <3>2
  <2> QED
    BY <2>1, <2>2 DEF Registered
<1>11. /\ \A g \in groups : new[g].id \in DOMAIN st /\ st[new[g].id] = new[g]
       /\ \A i \in DOMAIN st : \E g \in groups : i = new[g].id
  <2>1. ASSUME NEW g \in groups PROVE (CHOOSE r \in dated : r.id = new[g].id) = new[g]
    <3>1. ASSUME NEW r \in dated, r.id = new[g].id PROVE r = new[g]
      <4>1. PICK h \in groups : r = new[h]
        BY <1>2
      <4>2. r.id \in h /\ new[g].id \in g
        BY <4>1, <1>4 DEF SpeaksFor
      <4> QED
        BY <4>1, <4>2, <3>1, <1>8
    <3>2. new[g] \in dated
      BY <1>2
    <3> QED
      BY <3>1, <3>2
  <2>2. DOMAIN st = {r.id : r \in dated}
    OBVIOUS
  <2>3. \A d \in dated : \E g \in groups : d = new[g]
    BY <1>2
  <2>4. \A g \in groups : new[g] \in dated
    BY <1>2
  <2>5. \A i \in DOMAIN st : st[i] = CHOOSE r \in dated : r.id = i
    OBVIOUS
  <2> HIDE DEF st, groups
  <2> QED
    <3>1. ASSUME NEW g \in groups PROVE new[g].id \in DOMAIN st /\ st[new[g].id] = new[g]
      <4>1. new[g].id \in DOMAIN st
        BY <2>2, <2>4
      <4> QED
        BY <4>1, <2>1, <2>5
    <3>2. ASSUME NEW i \in DOMAIN st PROVE \E g \in groups : i = new[g].id
      <4>1. PICK d \in dated : i = d.id
        BY <2>2, <3>2
      <4> QED
        BY <4>1, <2>3
    <3> QED
      BY ONLY <3>1, <3>2
<1> HIDE DEF st
<1>12. /\ DOMAIN knowledge' = LinkedIds \cup touched
       /\ \A g \in groups : \A i \in g : knowledge'[i] = new[g]
       /\ \A i \in LinkedIds : i \notin touched => knowledge'[i] = knowledge[i]
  <2>1. DOMAIN knowledge = LinkedIds
    BY <1>0 DEF KnowledgeFits
  <2> QED
    BY <1>5, <1>10, <2>1 DEF Updated
<1>13. /\ DOMAIN stored' = DOMAIN stored \cup DOMAIN st
       /\ \A g \in groups : new[g].id \in DOMAIN stored' /\ stored'[new[g].id] = new[g]
       /\ \A i \in DOMAIN stored : i \notin touched => stored'[i] = stored[i]
  <2>1. \A g \in groups : new[g].id \in g
    BY <1>4 DEF SpeaksFor
  <2>2. DOMAIN st \subseteq touched
    BY <1>11, <2>1
  <2> QED
    BY <1>5, <1>11, <2>2 DEF Updated
<1> HIDE DEF groups
<1>14. LinkedIds' = LinkedIds \cup touched
  <2>1. LinkedIds \subseteq LinkedIds'
    BY <1>6 DEF LinkedIds
  <2>2. touched \subseteq LinkedIds'
    BY <1>8
  <2>3. ASSUME NEW i \in LinkedIds', i \notin touched PROVE i \in LinkedIds
    <3>1. i \in GroupOf(i)'
      BY <1>7, AliasesAreReached DEF LinkedIds, GroupOf
    <3>2. GroupOf(i)' \notin groups
      BY <3>1, <2>3
    <3> QED
      BY <3>2, <1>9
  <2> QED
    BY <2>1, <2>2, <2>3
<1>15. ASSUME NEW i \in LinkedIds'
       PROVE  /\ SpeaksFor(knowledge'[i], GroupOf(i)', lastRecords')
              /\ \A j \in GroupOf(i)' : knowledge'[j] = knowledge'[i]
              /\ knowledge'[i].id \in DOMAIN stored' /\ stored'[knowledge'[i].id] = knowledge'[i]
  <2>0. i \in GroupOf(i)'
    BY <1>7, AliasesAreReached DEF LinkedIds, GroupOf
  <2>1. CASE GroupOf(i)' \in groups
    <3>0. PICK g \in groups : g = GroupOf(i)'
      BY <2>1
    <3>1. \A j \in g : knowledge'[j] = new[g]
      BY <3>0, <1>12
    <3>2. SpeaksFor(new[g], g, lastRecords')
      BY <3>0, <1>4
    <3>3. new[g].id \in DOMAIN stored' /\ stored'[new[g].id] = new[g]
      BY <3>0, <1>13
    <3> QED
      BY <2>0, <3>0, <3>1, <3>2, <3>3 DEF SpeaksFor
  <2>2. CASE GroupOf(i)' \notin groups
    <3>0. PICK g : g = GroupOf(i)
      OBVIOUS
    <3>1. i \in LinkedIds /\ g = GroupOf(i)' /\ \A j \in g : j \notin touched
      BY <3>0, <2>2, <1>9
    <3>2. /\ SpeaksFor(knowledge[i], g, lastRecords) /\ \A j \in g : knowledge[j] = knowledge[i]
          /\ knowledge[i].id \in DOMAIN stored /\ stored[knowledge[i].id] = knowledge[i]
      <4>1. KnowledgeFits /\ i \in LinkedIds
        BY <1>0, <3>1
      <4> QED
        BY ONLY <4>1, <3>0 DEF KnowledgeFits
    <3>3. ASSUME NEW j \in g PROVE j \in LinkedIds
      <4>1. GroupOf(j)' = GroupOf(i)'
        BY <1>7, <1>9, <2>2, <3>1, AliasesAreOfOneGroup DEF GroupOf
      <4>2. j \in LinkedIds'
        <5>0. g = AliasesOf(aliasLinks', i) /\ i \in AllIdentifiers
          BY <1>9, <2>2, <3>1 DEF GroupOf
        <5>1. NoWayOut(aliasLinks', g) /\ \A c : i \in c /\ NoWayOut(aliasLinks', c) => g \subseteq c
          BY <1>7, <5>0, AliasesAreReached
        <5>2. NoWayOut(aliasLinks', LinkedIds')
          <6>1. ASSUME NEW l \in aliasLinks' PROVE l[2] \in LinkedIds'
            <7>1. <<l[2], l[1]>> \in aliasLinks'
              BY <1>7 DEF BothWays
            <7> QED
              BY <7>1 DEF LinkedIds
          <6> QED
            BY <6>1 DEF NoWayOut
        <5> QED
          BY <5>1, <5>2
      <4> QED
        BY <4>2, <3>1, <1>14
    <3>4. \A j \in g : knowledge'[j] = knowledge[j]
      BY <3>1, <3>3, <1>12
    <3>5. knowledge'[i] = knowledge[i] /\ \A j \in g : knowledge'[j] = knowledge'[i]
      BY <2>0, <3>1, <3>2, <3>4
    <3>6. knowledge[i].id \in g
      BY <3>2 DEF SpeaksFor
    <3>7. stored'[knowledge[i].id] = stored[knowledge[i].id] /\ knowledge[i].id \in DOMAIN stored'
      BY <3>1, <3>2, <3>6, <1>13
    <3>8. ASSUME NEW r \in ToSet(b) PROVE r.id \in touched
      <4>1. r.id \in AllIdentifiers
        BY <1>6
      <4>2. r.id \in AliasesOf(aliasLinks', r.id)
        BY <4>1, <1>7, AliasesAreReached
      <4> QED
        BY <4>2 DEF groups
    <3>9. /\ g \cap DOMAIN lastRecords' = g \cap DOMAIN lastRecords
          /\ \A j \in g \cap DOMAIN lastRecords : lastRecords'[j] = lastRecords[j]
      <4>1. /\ DOMAIN lastRecords' = DOMAIN lastRecords \cup {r.id : r \in ToSet(b)}
            /\ \A j \in DOMAIN lastRecords : j \notin {r.id : r \in ToSet(b)} => lastRecords'[j] = lastRecords[j]
        BY <1>0, LastKept
      <4>2. \A j \in g : j \notin {r.id : r \in ToSet(b)}
        BY <3>1, <3>8
      <4> HIDE DEF groups
      <4> QED
        BY ONLY <4>1, <4>2
    <3>10. SpeaksFor(knowledge[i], g, lastRecords')
      BY <3>1, <3>2, <3>5, <3>9 DEF SpeaksFor
    <3> QED
      BY <3>1, <3>2, <3>5, <3>7, <3>10
  <2> QED
    BY <2>1, <2>2
<1>16. KnowledgeFits'
  BY <1>12, <1>14, <1>15 DEF KnowledgeFits
<1>17. StoredFits'
  <2> SUFFICES ASSUME NEW i \in DOMAIN stored'
               PROVE  /\ i \in LinkedIds' /\ stored'[i].id = i /\ i \notin stored'[i].aliases
                      /\ \A p \in PackagesOf(stored'[i]) : <<i, p>> \in impact'
    BY DEF StoredFits
  <2>1. CASE i \in DOMAIN st
    <3>1. PICK g \in groups : i = new[g].id
      BY <2>1, <1>11
    <3>2. stored'[i] = new[g] /\ new[g] \in dated
      BY <3>1, <1>13, <1>2
    <3>3. i \in g /\ i \notin new[g].aliases
      BY <3>1, <1>4 DEF SpeaksFor
    <3>4. \A p \in PackagesOf(new[g]) : <<new[g].id, p>> \in impact'
      BY <3>2, <1>5
    <3> QED
      BY <3>1, <3>2, <3>3, <3>4, <1>8
  <2>2. CASE i \notin DOMAIN st
    <3>1. i \in DOMAIN stored /\ stored'[i] = stored[i]
      BY <2>2, <1>5 DEF Updated
    <3> QED
      BY <3>1, <1>0, <1>5, <1>14 DEF StoredFits
  <2> QED
    BY <2>1, <2>2
<1>18. ToldFits'
  <2>1. DOMAIN stored \subseteq DOMAIN stored' /\ impact \subseteq impact'
    BY <1>13, <1>5
  <2> QED
    BY <1>0, <2>1 DEF ToldFits, AffectedRepositories
<1> QED
  BY <1>0, <1>3, <1>6, <1>16, <1>17, <1>18 DEF FeedInv

(* Whatever the sources deliver, in whatever order and under whatever names,*)
(* and whatever is asked of it: what the feed says of a vulnerability it    *)
(* says under all of its names and to all it concerns, as FeedTells states. *)
THEOREM FeedAlwaysTells == FeedSpec => [](FeedTypeOK /\ FeedTells)
<1>1. ASSUME FeedInv, [FeedNext]_feedVars PROVE FeedInv'
  <2>1. CASE UNCHANGED feedVars
    BY <1>1, <2>1 DEF feedVars, FeedInv, LinksFit, LastFitsFeed, KnowledgeFits, SpeaksFor, GroupOf, LinkedIds,
                      StoredFits, ToldFits, AffectedRepositories
  <2> QED
    BY <1>1, <2>1, IngestKeeps, CorrelateKeeps, ReassessKeeps DEF FeedNext
<1> QED
  BY FeedInitial, FeedSays, <1>1, PTL DEF FeedSpec

-----------------------------------------------------------------------------
(* What the invariants do not say of the types of the variables.            *)

LEMMA SomeBound ==
  ASSUME NEW N \in Nat, NEW h \in [1..N -> Nat]
  PROVE  \E b \in Nat : \A n \in 1..N : h[n] <= b
<1> DEFINE G == {k \in 0..N : \E b \in Nat : \A n \in 1..k : h[n] <= b}
<1>1. 0 \in G
  OBVIOUS
<1>2. ASSUME NEW k \in 1..N, k - 1 \in G PROVE k \in G
  <2>1. PICK b \in Nat : \A n \in 1..(k - 1) : h[n] <= b
    BY <1>2
  <2>2. h[k] \in Nat /\ b + h[k] \in Nat /\ h[k] <= b + h[k] /\ b <= b + h[k]
    OBVIOUS
  <2>3. ASSUME NEW n \in 1..k PROVE h[n] <= b + h[k]
    <3>1. n = k \/ n \in 1..(k - 1)
      OBVIOUS
    <3>2. CASE n = k
      BY <2>2, <3>2
    <3>3. CASE n \in 1..(k - 1)
      <4>1. h[n] <= b /\ h[n] \in Nat
        BY <2>1, <3>3
      <4> QED
        BY <4>1, <2>2
    <3> QED
      BY <3>1, <3>2, <3>3
  <2> QED
    BY <2>2, <2>3
<1> HIDE DEF G
<1>3. N \in G
  BY <1>1, <1>2, CountTo
<1> QED
  BY <1>3 DEF G

\* The loop of _build_intervals keeps versions and None apart from what it cannot read.
IntervalsTyped ==
    /\ introduced \in MatchVersions \cup {NoVersion}
    /\ intervals \subseteq [from : MatchVersions \cup {NoVersion}, to : MatchVersions \cup {NoVersion}]

LEMMA IntervalsKeepType == MatchSpec => []IntervalsTyped
<1>1. MatchInit => IntervalsTyped
  BY DEF MatchInit, IntervalsTyped
<1>2. ASSUME IntervalsTyped, [MatchNext]_matchVars PROVE IntervalsTyped'
  <2>1. ASSUME NEW e \in Event, ReadEvent(e) PROVE IntervalsTyped'
    <3>1. Parsed(e.at) \in MatchVersions \cup {NoVersion}
      BY DEF Event, Parsed
    <3> QED
      BY <1>2, <2>1, <3>1 DEF ReadEvent, IntervalsTyped
  <2>2. ASSUME UNCHANGED <<introduced, intervals>> PROVE IntervalsTyped'
    BY <1>2, <2>2 DEF IntervalsTyped
  <2> QED
    BY <1>2, <2>1, <2>2 DEF MatchNext, Judge, matchVars
<1> QED
  BY <1>1, <1>2, PTL DEF MatchSpec

\* Whatever order the events stand in, the fix that is told of is one of theirs.
LEMMA FixesAreOfEvents ==
  ASSUME events \in Seq(Event)
  PROVE  /\ \A v \in MatchVersions : Remediation(v) \in MatchVersions \cup {NoVersion}
         /\ FixedPlaces # {} => events[Min(FixedPlaces)].at \in MatchVersions \cup {Invalid}
<1> DEFINE N == Len(events)
           h == [n \in 1..N |-> IF events[n].at = Invalid THEN 0 ELSE events[n].at]
<1>1. N \in Nat /\ DOMAIN events = 1..N /\ \A n \in 1..N : events[n] \in Event
  BY LenProperties, ElementOfSeq
<1>2. \A n \in 1..N : events[n].at \in MatchVersions \cup {Invalid}
  BY <1>1 DEF Event
<1>3. MatchVersions \subseteq Nat
  BY VersionMatchAssumption
<1>4. ParsedFixes \subseteq MatchVersions /\ FixedPlaces \subseteq 1..N
  BY <1>1, <1>2 DEF ParsedFixes, FixedPlaces
<1> HIDE DEF N
<1>5. \E b \in Nat : \A f \in ParsedFixes : f <= b
  <2>1. h \in [1..N -> Nat]
    BY <1>2, <1>3
  <2>2. \A n \in 1..N : events[n].at # Invalid => h[n] = events[n].at
    OBVIOUS
  <2> HIDE DEF h
  <2>3. PICK b \in Nat : \A n \in 1..N : h[n] <= b
    BY <1>1, <2>1, SomeBound
  <2>4. ASSUME NEW f \in ParsedFixes PROVE f <= b
    <3>1. PICK n \in 1..N : f = events[n].at /\ f # Invalid
      BY <1>1 DEF ParsedFixes, FixedPlaces
    <3> QED
      BY <2>2, <2>3, <3>1
  <2> QED
    BY <2>4
<1>6. ASSUME NEW v \in MatchVersions PROVE Remediation(v) \in MatchVersions \cup {NoVersion}
  <2> SUFFICES ASSUME ParsedFixes # {} PROVE Remediation(v) \in ParsedFixes
    BY <1>4 DEF Remediation
  <2> DEFINE later == {f \in ParsedFixes : f > v}
  <2>1. Max(ParsedFixes) \in ParsedFixes
    BY <1>3, <1>4, <1>5, GreatestExists
  <2>2. later # {} => Min(later) \in later
    <3>1. later \subseteq Nat
      BY <1>3, <1>4
    <3> QED
      BY <3>1, LeastIsIn
  <2> QED
    BY <2>1, <2>2 DEF Remediation
<1>7. FixedPlaces # {} => events[Min(FixedPlaces)].at \in MatchVersions \cup {Invalid}
  <2>1. FixedPlaces \subseteq Nat
    BY <1>1, <1>4
  <2>2. FixedPlaces # {} => Min(FixedPlaces) \in FixedPlaces
    BY <2>1, LeastIsIn
  <2> QED
    BY <1>2, <1>4, <2>2
<1> QED
  BY <1>6, <1>7

LEMMA VerdictTyped ==
  ASSUME events \in Seq(Event), NEW dep \in MatchedDep, NEW withdrawn \in BOOLEAN
  PROVE  LET e == Evaluate(dep, withdrawn) IN
         /\ e.dep \in MatchedDep /\ e.compatible \in BOOLEAN
         /\ e.status \in {"WITHDRAWN", "AFFECTED", "NOT_AFFECTED", "POTENTIALLY_AFFECTED", "UNKNOWN"}
         /\ e.fix \in MatchVersions \cup {NoVersion, Invalid}
<1> DEFINE e == Evaluate(dep, withdrawn)
<1>1. CASE withdrawn \/ (dep.version \notin MatchVersions /\ dep.constraint = NoVersion)
  BY <1>1 DEF Evaluate, Match
<1>2. CASE ~withdrawn /\ dep.version \in MatchVersions
  <2>1. Remediation(dep.version) \in MatchVersions \cup {NoVersion}
    BY <1>2, FixesAreOfEvents
  <2>2. PICK fix : fix = Remediation(dep.version)
    OBVIOUS
  <2>3. e = Match(dep, IF IsVersionAffected(dep.version) THEN "AFFECTED" ELSE "NOT_AFFECTED", fix,
                  fix = NoVersion \/ dep.constraint \in {NoVersion, Invalid} \/ fix \in dep.constraint)
    BY <1>2, <2>2 DEF Evaluate
  <2>4. /\ e.dep = dep /\ e.fix = fix
        /\ e.status = IF IsVersionAffected(dep.version) THEN "AFFECTED" ELSE "NOT_AFFECTED"
        /\ e.compatible = (fix = NoVersion \/ dep.constraint \in {NoVersion, Invalid} \/ fix \in dep.constraint)
    BY <2>3 DEF Match
  <2> QED
    BY <2>1, <2>2, <2>4
<1>3. CASE ~withdrawn /\ dep.version \notin MatchVersions /\ dep.constraint # NoVersion
  <2>1. PICK fix : fix = IF FixedPlaces = {} THEN NoVersion ELSE events[Min(FixedPlaces)].at
    OBVIOUS
  <2>2. fix \in MatchVersions \cup {NoVersion, Invalid}
    BY <2>1, FixesAreOfEvents
  <2>3. e = Match(dep, IF OverlapsAffected(dep.constraint) THEN "POTENTIALLY_AFFECTED" ELSE "NOT_AFFECTED", fix, TRUE)
    BY <1>3, <2>1 DEF Evaluate
  <2>4. /\ e.dep = dep /\ e.fix = fix /\ e.compatible
        /\ e.status = IF OverlapsAffected(dep.constraint) THEN "POTENTIALLY_AFFECTED" ELSE "NOT_AFFECTED"
    BY <2>3 DEF Match
  <2> QED
    BY <2>2, <2>4
<1> QED
  BY <1>1, <1>2, <1>3

LEMMA MatchTyped == MatchSpec => []MatchTypeOK
<1>1. MatchSpec => []MatchInv
  BY MatchInitial, MatchKept, PTL DEF MatchSpec
<1>2. MatchInv /\ IntervalsTyped => MatchTypeOK
  BY VerdictTyped DEF MatchInv, IntervalsTyped, MatchTypeOK
<1> QED
  BY <1>1, <1>2, IntervalsKeepType, PTL

\* A range has no more parts than are given, each of one clause or two.
LEMMA RangeTyped == RangeSpec => []RangeTypeOK
<1>1. RangeSpec => []RangeInv
  BY RangeInitial, RangeKept, PTL DEF RangeSpec
<1>2. ASSUME RangeInv PROVE RangeTypeOK
  <2>1. \A n \in DOMAIN range : range[n] \in RangeParts
    BY <1>2, LenProperties, ElementOfSeq DEF RangeInv
  <2>2. \A n \in DOMAIN range : Len(range[n]) \in 1..2
    BY <2>1, VersionRangesAssumption
  <2>3. reply = Unasked \/ reply.answer \in BOOLEAN
    <3>1. ASSUME NEW w, reply = [what |-> "version", version |-> w, answer |-> IsVersionInRange(w)]
          PROVE  reply.answer \in BOOLEAN
      <4>1. IsVersionInRange(w) \in BOOLEAN
        BY DEF IsVersionInRange
      <4> QED
        BY <3>1, <4>1
    <3>2. ASSUME NEW none \in BOOLEAN, reply = [what |-> "conflict", answer |-> none] PROVE reply.answer \in BOOLEAN
      BY <3>2
    <3> QED
      BY <1>2, <3>1, <3>2 DEF RangeInv, AskedOfRange
  <2> QED
    BY <1>2, <2>2, <2>3 DEF RangeInv, RangeTypeOK
<1> QED
  BY <1>1, <1>2, PTL

\* What a command keeps of a scan is about dependencies of its inventory.
LEMMA VulnerabilityKeepsType == VulnerabilitySpec => []VulnerabilityTypeOK
<1>1. VulnerabilitySpec => []VulnerabilityInv
  BY VulnerabilityInitial, VulnerabilityKept, PTL DEF VulnerabilitySpec
<1>2. ASSUME VulnerabilityInv PROVE VulnerabilityTypeOK
  <2>1. VulnerabilityTyped
    BY <1>2 DEF VulnerabilityInv
  <2>2. ASSUME NEW c \in Commands
        PROVE  /\ scan[c].at \in {"idle", "asking", "saving", "done"}
               /\ scan[c].inventory \in Inventories \cup {<< >>}
               /\ scan[c].next \in 1..(Len(scan[c].inventory) + 1)
               /\ scan[c].answers \in [Packages -> Answers] /\ scan[c].known \subseteq Packages
               /\ scan[c].skipped \cup scan[c].reported \subseteq Deps
    <3>1. scan[c] \in ScanRecord /\ scan[c].next \in 1..(Len(scan[c].inventory) + 1)
      BY <2>1 DEF VulnerabilityTyped
    <3> QED
      BY <3>1 DEF ScanRecord
  <2> QED
    BY <2>1, <2>2 DEF VulnerabilityTyped, VulnerabilityTypeOK, ProviderRecord
<1> QED
  BY <1>1, <1>2, PTL

LEMMA FixKeepsType == FixSpec => []FixTypeOK
<1>1. FixInv => FixTypeOK
  BY DEF FixInv
<1> QED
  BY <1>1, FixInvariant, PTL

LEMMA CleanKeepsType == CleanSpec => []CleanTypeOK
<1>1. CleanInv => CleanTypeOK
  BY DEF CleanInv
<1> QED
  BY <1>1, CleanInvariant, PTL

\* What a scan saw stand all along it saw stand, and it was begun of a directory there is.
RunFits(u, n) == u.target \in Targets /\ u.created \in 0..n /\ u.steady \subseteq u.ever
HistoryBounded ==
    /\ runs \in 0..MaxRuns /\ treeEdits \in 0..MaxTreeEdits
    /\ \A r \in Runners : RunFits(run[r], runs)


\* One scan after another keeps its directory and its place in time.
GoesOnFrom(v, u) == v.target = u.target /\ v.created = u.created /\ (u.steady \subseteq u.ever => v.steady \subseteq v.ever)

LEMMA ChangedRuns ==
  ASSUME NEW u \in RunRecord
  PROVE  /\ \A sites : GoesOnFrom([u EXCEPT !.steady = @ \cap sites], u)
         /\ \A sites, k : GoesOnFrom([[u EXCEPT !.steady = @ \cap sites] EXCEPT !.stage = k], u)
BY DEF RunRecord, GoesOnFrom

LEMMA OneRunGoesOn ==
  ASSUME HistoryInv, HistoryBounded, NEW r \in Runners, NEW v, GoesOnFrom(v, run[r]),
         run' = [run EXCEPT ![r] = v], UNCHANGED <<runs, treeEdits>>
  PROVE  HistoryBounded'
<1>1. \A q \in Runners : run'[q] = IF q = r THEN v ELSE run[q]
  BY RunFields
<1>2. \A q \in Runners : RunFits(run'[q], runs)
  BY <1>1 DEF HistoryBounded, RunFits, GoesOnFrom
<1> QED
  BY <1>2 DEF HistoryBounded

LEMMA AllRunsGoOn ==
  ASSUME HistoryInv, HistoryBounded, \A q \in Runners : GoesOnFrom(run'[q], run[q]), UNCHANGED runs,
         treeEdits' \in 0..MaxTreeEdits
  PROVE  HistoryBounded'
<1>1. \A q \in Runners : RunFits(run'[q], runs)
  BY DEF HistoryBounded, RunFits, GoesOnFrom
<1> QED
  BY <1>1 DEF HistoryBounded

LEMMA EditIsSeen ==
  ASSUME NEW t, NEW sites, EditTree(t, sites)
  PROVE  run' = [r \in Runners |-> SeesChange(r, t, sites)]
BY Zenon DEF EditTree, SetTree, SeesChange

LEMMA HistoryStaysBounded ==
  ASSUME HistoryInv, HistoryBounded, [HistoryNext]_historyVars
  PROVE  HistoryBounded'
<1>1. \A q \in Runners : run[q] \in RunRecord
  BY RunFields
<1>2. CASE UNCHANGED historyVars
  BY <1>2 DEF historyVars, HistoryBounded, RunFits
<1>3. ASSUME NEW t \in Targets, NEW sites \in SUBSET Sites, EditTree(t, sites) PROVE HistoryBounded'
  <2>1. run' = [r \in Runners |-> SeesChange(r, t, sites)]
    BY <1>3, EditIsSeen
  <2>2. runs' = runs /\ treeEdits < MaxTreeEdits /\ treeEdits' = treeEdits + 1
    BY <1>3 DEF EditTree
  <2>3. ASSUME NEW q \in Runners PROVE GoesOnFrom(run'[q], run[q])
    <3>1. run'[q] = SeesChange(q, t, sites)
      BY <2>1
    <3>2. GoesOnFrom(run[q], run[q])
      BY DEF GoesOnFrom
    <3>3. PICK steady, ever : steady = run[q].steady \cap sites /\ ever = run[q].ever \cup sites
      OBVIOUS
    <3>4. GoesOnFrom([run[q] EXCEPT !.steady = steady, !.ever = ever], run[q])
      BY <1>1, <3>3 DEF RunRecord, GoesOnFrom
    <3> QED
      BY <3>1, <3>2, <3>3, <3>4 DEF SeesChange
  <2>4. treeEdits' \in 0..MaxTreeEdits
    <3>1. treeEdits \in 0..MaxTreeEdits /\ MaxTreeEdits \in Nat
      BY HistoryAssumption DEF HistoryBounded
    <3> QED
      BY <2>2, <3>1
  <2> QED
    BY <2>2, <2>3, <2>4, AllRunsGoOn
<1>4. ASSUME NEW r \in Runners, NEW t \in Targets, NEW options \in DOMAIN SkippedBy,
             NEW clean \in BOOLEAN, NEW failOn \in Thresholds, BeginRun(r, t, options, clean, failOn)
      PROVE  HistoryBounded'
  <2> DEFINE next == [NoRun EXCEPT !.stage = 1, !.target = t, !.created = runs + 1, !.clean = clean,
                                   !.skip = SkippedBy[options] \cap Telling, !.failOn = failOn,
                                   !.steady = tree[t], !.ever = tree[t]]
  <2>1. run' = [run EXCEPT ![r] = next] /\ runs < MaxRuns /\ runs' = runs + 1 /\ treeEdits' = treeEdits
    BY <1>4 DEF BeginRun
  <2>2. next.target = t /\ next.created = runs + 1 /\ next.steady = tree[t] /\ next.ever = tree[t]
    BY DEF NoRun
  <2> HIDE DEF next
  <2>3. runs \in 0..MaxRuns /\ MaxRuns \in Nat /\ runs' \in 0..MaxRuns /\ \A k \in 0..runs : k \in 0..(runs + 1)
    BY <2>1, HistoryAssumption DEF HistoryBounded
  <2>4. \A q \in Runners : run'[q] = IF q = r THEN next ELSE run[q]
    BY <2>1, RunFields
  <2>5. RunFits(next, runs + 1)
    BY <2>2, <2>3 DEF RunFits
  <2>6. \A q \in Runners : RunFits(run'[q], runs + 1)
    BY <2>3, <2>4, <2>5 DEF HistoryBounded, RunFits
  <2> QED
    BY <2>1, <2>3, <2>6 DEF HistoryBounded
<1>5. ASSUME NEW r \in Runners, RunStage(r) PROVE HistoryBounded'
  <2>1. PICK v : run' = [run EXCEPT ![r] = v] /\ GoesOnFrom(v, run[r])
    <3> DEFINE u == run[r]
               observed == {s \in tree[u.target] \ u.found : AnalyzerOf[s] = Stage(r) /\ Stage(r) \notin u.skip}
               next == [u EXCEPT !.stage = u.stage + 1, !.found = u.found \cup observed]
    <3>1. run[r] \in RunRecord /\ run \in [Runners -> RunRecord]
      BY RunFields
    <3>2. run' = [run EXCEPT ![r] = next]
      BY <1>5, <3>1 DEF RunStage, RunRecord
    <3>3. GoesOnFrom(next, run[r])
      BY <3>1 DEF RunRecord, GoesOnFrom
    <3> HIDE DEF next
    <3> QED
      BY <3>2, <3>3
  <2>2. UNCHANGED <<runs, treeEdits>>
    BY <1>5 DEF RunStage
  <2> QED
    BY <2>1, <2>2, OneRunGoesOn
<1>6. ASSUME NEW r \in Runners, StageRaises(r) PROVE HistoryBounded'
  <2>1. PICK v : run' = [run EXCEPT ![r] = v] /\ GoesOnFrom(v, run[r])
    <3> DEFINE u == run[r]
               next == [u EXCEPT !.stage = u.stage + 1, !.skip = u.skip \cup ({Stage(r)} \cap Telling)]
    <3>1. run[r] \in RunRecord /\ run \in [Runners -> RunRecord]
      BY RunFields
    <3>2. run' = [run EXCEPT ![r] = next]
      BY <1>6, <3>1 DEF StageRaises, RunRecord
    <3>3. GoesOnFrom(next, run[r])
      BY <3>1 DEF RunRecord, GoesOnFrom
    <3> QED
      BY <3>2, <3>3
  <2>2. UNCHANGED <<runs, treeEdits>>
    BY <1>6 DEF StageRaises
  <2> QED
    BY <2>1, <2>2, OneRunGoesOn
<1>7. ASSUME NEW r \in Runners, RunFails(r) PROVE HistoryBounded'
  <2>1. PICK v : run' = [run EXCEPT ![r] = v] /\ GoesOnFrom(v, run[r])
    <3> DEFINE next == [run[r] EXCEPT !.stage = 0, !.exit = "error"]
    <3>1. run[r] \in RunRecord /\ run \in [Runners -> RunRecord]
      BY RunFields
    <3>2. run' = [run EXCEPT ![r] = next]
      BY <1>7, <3>1 DEF RunFails, RunRecord
    <3>3. GoesOnFrom(next, run[r])
      BY <3>1 DEF RunRecord, GoesOnFrom
    <3> QED
      BY <3>2, <3>3
  <2>2. UNCHANGED <<runs, treeEdits>>
    BY <1>7 DEF RunFails
  <2> QED
    BY <2>1, <2>2, OneRunGoesOn
<1>9. ASSUME NEW r \in Runners, NEW own \in OwnRisks, NEW saved \in BOOLEAN, EndRun(r, own, saved)
      PROVE  HistoryBounded'
  <2>1. PICK v : run' = [run EXCEPT ![r] = v] /\ GoesOnFrom(v, run[r])
    <3> DEFINE next == [run[r] EXCEPT !.stage = 0, !.exit = ExitOf(r)]
    <3>1. run[r] \in RunRecord /\ run \in [Runners -> RunRecord]
      BY RunFields
    <3>2. run' = [run EXCEPT ![r] = next]
      BY <1>9, <3>1 DEF EndRun, RunRecord
    <3>3. GoesOnFrom(next, run[r])
      BY <3>1 DEF RunRecord, GoesOnFrom
    <3> QED
      BY <3>2, <3>3
  <2>2. UNCHANGED <<runs, treeEdits>>
    BY <1>9 DEF EndRun
  <2> QED
    BY <2>1, <2>2, OneRunGoesOn
<1>8. ASSUME NEW r \in Runners, NEW left \in SUBSET Sites, CleanStage(r, left) PROVE HistoryBounded'
  <2> DEFINE t == run[r].target
             dirt == {s \in tree[t] : AnalyzerOf[s] = "malware"}
             sites == IF run[r].clean THEN (tree[t] \ dirt) \cup left ELSE tree[t]
             After(q) == IF Running(q) /\ run[q].target = t THEN [run[q] EXCEPT !.steady = @ \cap sites] ELSE run[q]
  <2>1. /\ run' = [q \in Runners |-> IF q = r THEN [After(q) EXCEPT !.stage = @ + 1] ELSE After(q)]
        /\ UNCHANGED <<runs, treeEdits>>
    BY <1>8 DEF CleanStage
  <2> HIDE DEF sites
  <2>2. ASSUME NEW q \in Runners PROVE GoesOnFrom(run'[q], run[q])
    <3>1. PICK k : [After(q) EXCEPT !.stage = @ + 1] = [After(q) EXCEPT !.stage = k]
      OBVIOUS
    <3>2. GoesOnFrom(After(q), run[q]) /\ GoesOnFrom([After(q) EXCEPT !.stage = k], run[q])
      BY <1>1, ChangedRuns DEF GoesOnFrom
    <3> QED
      BY <2>1, <3>1, <3>2
  <2> QED
    BY <2>1, <2>2, AllRunsGoOn DEF HistoryBounded
<1> QED
  BY <1>2, <1>3, <1>4, <1>5, <1>6, <1>7, <1>8, <1>9 DEF HistoryNext

LEMMA HistoryKeepsType == HistorySpec => []HistoryTypeOK
<1>1. HistorySpec => []HistoryInv
  BY HistoryInitial, HistoryKept, PTL DEF HistorySpec
<1>2. HistoryInit => HistoryBounded
  <2> SUFFICES ASSUME HistoryInit PROVE HistoryBounded
    OBVIOUS
  <2>1. NoRun.target \in Targets /\ NoRun.created = 0 /\ NoRun.steady = {} /\ NoRun.ever = {}
    BY HistoryAssumption DEF NoRun
  <2>2. \A r \in Runners : run[r] = NoRun
    BY DEF HistoryInit
  <2>3. runs = 0 /\ treeEdits = 0 /\ MaxRuns \in Nat /\ MaxTreeEdits \in Nat
    BY HistoryAssumption DEF HistoryInit
  <2> QED
    BY <2>1, <2>2, <2>3 DEF HistoryBounded, RunFits
<1>3. HistoryInv /\ HistoryBounded /\ [HistoryNext]_historyVars => HistoryBounded'
  BY HistoryStaysBounded
<1>4. ASSUME HistoryInv, HistoryBounded PROVE HistoryTypeOK
  <2>1. ASSUME NEW r \in Runners
        PROVE  /\ run[r].stage \in 0..Len(Stages) /\ run[r].target \in Targets
               /\ run[r].created \in 0..runs /\ run[r].skip \subseteq Analyzers
               /\ run[r].steady \subseteq run[r].ever /\ run[r].ever \cup run[r].found \subseteq Sites
               /\ run[r].exit \in {"none", "success", "violation", "error"}
    BY <1>4, RunFields, RunTyped, StageFields DEF HistoryBounded, RunFits, ExitCodes
  <2> QED
    BY <1>4, <2>1 DEF HistoryTypeOK, HistoryInv, HistoryTyped, BegunApart, HistoryBounded
<1> QED
  BY <1>1, <1>2, <1>3, <1>4, PTL DEF HistorySpec

LEMMA ComparisonKeepsType == ComparisonSpec => []ComparisonTypeOK
<1>1. ComparisonSpec => []ComparisonInv
  BY ComparisonInitial, ComparisonKept, PTL DEF ComparisonSpec
<1> QED
  BY <1>1, SaidIsTold, PTL

-----------------------------------------------------------------------------
(* The analyses as the run puts them together.                              *)

(* Whichever analysis is at work, the behaviour is one of each of them: the *)
(* others stay as they began.                                               *)
LEMMA EachAnalysisBehaves ==
  AnalysesSpec => /\ Spec /\ HistorySpec /\ FixSpec /\ CleanSpec /\ VulnerabilitySpec
                  /\ ComparisonSpec /\ MatchSpec /\ RangeSpec /\ FeedSpec /\ PathsSpec
                  /\ DataflowSpec /\ GraphSpec /\ FlowSpec
<1> DEFINE Proved == {"taint", "history", "fix", "cleaning", "vulnerabilities", "comparisons", "versions", "ranges",
                      "feed", "paths", "values", "calls", "flows"}
<1>1. AnalysesInit => /\ Init /\ HistoryInit /\ FixInit /\ CleanInit /\ VulnerabilityInit
                      /\ ComparisonInit /\ MatchInit /\ RangeInit /\ FeedInit /\ PathsInit
                      /\ DataflowInit /\ GraphInit /\ FlowInit
  BY DEF AnalysesInit
<1>2. ASSUME [AnalysesNext]_analysisVars
      PROVE  /\ [Next]_vars /\ [HistoryNext]_historyVars /\ [FixNext]_fixVars /\ [CleanNext]_cleanVars
             /\ [VulnerabilityNext]_vulnerabilityVars /\ [ComparisonNext]_comparisonVars
             /\ [MatchNext]_matchVars /\ [RangeNext]_rangeVars /\ [FeedNext]_feedVars
             /\ [PathsNext]_pathVars /\ [DataflowNext]_dataflowVars
             /\ [GraphNext]_graphVars /\ [FlowNext]_flowVars
  <2>1. CASE UNCHANGED analysisVars
    BY <2>1 DEF analysisVars
  <2>2. ASSUME NEW p \in Parts, OnlyIn(p), p \notin Proved
        PROVE  /\ UNCHANGED vars /\ UNCHANGED historyVars /\ UNCHANGED fixVars /\ UNCHANGED cleanVars
               /\ UNCHANGED vulnerabilityVars /\ UNCHANGED comparisonVars /\ UNCHANGED matchVars
               /\ UNCHANGED rangeVars /\ UNCHANGED feedVars /\ UNCHANGED pathVars
               /\ UNCHANGED dataflowVars /\ UNCHANGED graphVars /\ UNCHANGED flowVars
    BY <2>2 DEF OnlyIn
  <2>3. CASE \E p \in Parts : OnlyIn(p) /\ p \notin Proved
    BY <2>2, <2>3
  <2>4. CASE OnlyIn("taint") /\ Next
    BY <2>4 DEF OnlyIn
  <2>5. CASE OnlyIn("history") /\ HistoryNext
    BY <2>5 DEF OnlyIn
  <2>6. CASE OnlyIn("fix") /\ FixNext
    BY <2>6 DEF OnlyIn
  <2>7. CASE OnlyIn("cleaning") /\ CleanNext
    BY <2>7 DEF OnlyIn
  <2>8. CASE OnlyIn("vulnerabilities") /\ VulnerabilityNext
    BY <2>8 DEF OnlyIn
  <2>9. CASE OnlyIn("comparisons") /\ ComparisonNext
    BY <2>9 DEF OnlyIn
  <2>10. CASE OnlyIn("versions") /\ MatchNext
    BY <2>10 DEF OnlyIn
  <2>11. CASE OnlyIn("ranges") /\ RangeNext
    BY <2>11 DEF OnlyIn
  <2>12. CASE OnlyIn("feed") /\ FeedNext
    BY <2>12 DEF OnlyIn
  <2>13. CASE OnlyIn("paths") /\ PathsNext
    BY <2>13 DEF OnlyIn
  <2>14. CASE OnlyIn("values") /\ DataflowNext
    BY <2>14 DEF OnlyIn
  <2>15. CASE OnlyIn("calls") /\ GraphNext
    BY <2>15 DEF OnlyIn
  <2>16. CASE OnlyIn("flows") /\ FlowNext
    BY <2>16 DEF OnlyIn
  <2>17. AnalysesNext => \/ \E p \in Parts : OnlyIn(p) /\ p \notin Proved
                         \/ OnlyIn("taint") /\ Next
                         \/ OnlyIn("history") /\ HistoryNext
                         \/ OnlyIn("fix") /\ FixNext
                         \/ OnlyIn("cleaning") /\ CleanNext
                         \/ OnlyIn("vulnerabilities") /\ VulnerabilityNext
                         \/ OnlyIn("comparisons") /\ ComparisonNext
                         \/ OnlyIn("versions") /\ MatchNext
                         \/ OnlyIn("ranges") /\ RangeNext
                         \/ OnlyIn("feed") /\ FeedNext
                         \/ OnlyIn("paths") /\ PathsNext
                         \/ OnlyIn("values") /\ DataflowNext
                         \/ OnlyIn("calls") /\ GraphNext
                         \/ OnlyIn("flows") /\ FlowNext
    BY DEF AnalysesNext, Parts
  <2> QED
    BY <1>2, <2>1, <2>3, <2>4, <2>5, <2>6, <2>7, <2>8, <2>9, <2>10, <2>11, <2>12, <2>13, <2>14, <2>17, <2>15,
       <2>16
<1> QED
  BY <1>1, <1>2, PTL DEF AnalysesSpec, Spec, HistorySpec, FixSpec, CleanSpec, VulnerabilitySpec,
                         ComparisonSpec, MatchSpec, RangeSpec, FeedSpec, PathsSpec, DataflowSpec,
                         GraphSpec, FlowSpec

(* Whatever an advisory is made of, whatever dependency is weighed against  *)
(* it, and whatever ranges and requirements are asked of: what is said of a *)
(* version is so, as VersionsRight states it.                               *)
THEOREM VersionsAlwaysRight == MatchSpec /\ RangeSpec => []VersionsRight
<1>1. MatchSpec => []MatchInv
  BY MatchInitial, MatchKept, PTL DEF MatchSpec
<1>2. RangeSpec => []RangeInv
  BY RangeInitial, RangeKept, PTL DEF RangeSpec
<1>3. MatchInv /\ RangeInv => VersionsRight
  BY VerdictsAreRight, RangesAreRight, ConflictsAreRight DEF VersionsRight
<1> QED
  BY <1>1, <1>2, <1>3, PTL

(* Whichever analysis a command makes, what the taint pass, the scan, the   *)
(* repair, the disinfection, the vulnerability scan, the comparison, the    *)
(* match of versions, the intelligence feed, the attack paths, the graph of *)
(* values and the two engines that follow calls promise is so.              *)
THEOREM AnalysesKeepTheirPromises ==
  AnalysesSpec => [](/\ TypeOK /\ NoSilentMiss /\ NoFalseAlarm /\ HistoryTells
                     /\ FixTells /\ CleaningTells /\ MissExplained
                     /\ ComparisonsTell /\ VersionsRight /\ FeedTells /\ PathsTell
                     /\ DataflowTells /\ CallsTell)
<1>1. AnalysesSpec => [](TypeOK /\ NoSilentMiss /\ NoFalseAlarm)
  BY EachAnalysisBehaves, TypeCorrect, NothingMissedSilently, NothingInvented, PTL
<1>2. AnalysesSpec => [](HistoryTells /\ FixTells /\ CleaningTells /\ MissExplained)
  BY EachAnalysisBehaves, HistoryAlwaysTells, FixAlwaysTells, CleaningAlwaysTells, MissesExplained, PTL
<1>3. AnalysesSpec => [](ComparisonsTell /\ VersionsRight /\ FeedTells /\ PathsTell /\ DataflowTells)
  BY EachAnalysisBehaves, ComparisonsAlwaysTell, VersionsAlwaysRight, FeedAlwaysTells, PathsAlwaysTell,
     DataflowAlwaysTells, PTL
<1>4. CallsTell <=> CyclesRight /\ ReachExplained /\ FlowsTell
  BY DEF CallsTell
<1>5. AnalysesSpec => []CallsTell
  BY <1>4, EachAnalysisBehaves, CallGraphAlwaysRight, FlowsAlwaysTold, PTL
<1> QED
  BY <1>1, <1>2, <1>3, <1>5, PTL

KnownPart == part \in Parts

(* Whichever analysis a command makes, every variable of it keeps its type. *)
THEOREM AnalysesTyped == AnalysesSpec => []AnalysesTypeOK
<1>1. AnalysesSpec => []KnownPart
  <2>1. AnalysesInit => KnownPart
    BY DEF AnalysesInit, KnownPart
  <2>2. KnownPart /\ [AnalysesNext]_analysisVars => KnownPart'
    BY DEF AnalysesNext, analysisVars, OnlyIn, KnownPart
  <2> QED
    BY <2>1, <2>2, PTL DEF AnalysesSpec
<1>2. AnalysesSpec => [](MatchTypeOK /\ HistoryTypeOK /\ FixTypeOK /\ CleanTypeOK /\ VulnerabilityTypeOK)
  BY EachAnalysisBehaves, MatchTyped, HistoryKeepsType, FixKeepsType, CleanKeepsType, VulnerabilityKeepsType, PTL
<1>3. AnalysesSpec => [](GraphTypeOK /\ FlowTypeOK /\ DataflowTypeOK /\ PathsTypeOK /\ FeedTypeOK)
  BY EachAnalysisBehaves, CallGraphAlwaysRight, FlowsAlwaysTold, DataflowAlwaysTells, PathsAlwaysTell,
     FeedAlwaysTells, PTL
<1>4. AnalysesSpec => [](ComparisonTypeOK /\ RangeTypeOK)
  BY EachAnalysisBehaves, ComparisonKeepsType, RangeTyped, PTL
<1>5. /\ KnownPart
      /\ MatchTypeOK /\ HistoryTypeOK /\ FixTypeOK /\ CleanTypeOK /\ VulnerabilityTypeOK
      /\ GraphTypeOK /\ FlowTypeOK /\ DataflowTypeOK /\ PathsTypeOK /\ FeedTypeOK
      /\ ComparisonTypeOK /\ RangeTypeOK
      => AnalysesTypeOK
  BY Zenon DEF AnalysesTypeOK, Parts, KnownPart
<1> QED
  BY <1>1, <1>2, <1>3, <1>4, <1>5, PTL
=============================================================================
