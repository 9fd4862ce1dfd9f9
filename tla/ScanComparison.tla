--------------------------- MODULE ScanComparison ---------------------------
(***************************************************************************)
(* What is new and what is fixed between two scans: the baseline and the   *)
(* diff command (domain/baseline/engine.py), the comparison of snapshots   *)
(* (domain/history/history_engine.py), the delta of a pull request         *)
(* (domain/github/pr_security_engine.py), and the comparison of two lists  *)
(* of dependencies (domain/dependencies/pr_dependency_diff.py).  Each has  *)
(* an idea of its own of when two findings are the same one: by where they *)
(* stand, by what they show, or by the id they were given.  Beside them is *)
(* what really stands in the code: an issue that moves stays that issue.   *)
(***************************************************************************)
EXTENDS Integers, Sequences, FiniteSets, FiniteSetsExt

CONSTANTS Issues,        \* what may be wrong in the code
          SiteKindOf,    \* rule, file, title, source and sink of its finding
          EvidenceOf,    \* its evidence
          IssueRankOf,   \* 4 critical, 3 high, 2 medium, 1 low
          IssueRiskOf,   \* the risk score of its finding
          SecretIssues,  \* those whose rule or title speaks of a secret
          Lines,         \* where an issue may stand
          DepLists,      \* what the manifests of a branch may list, in order
          AdvisoriesOf   \* of a package and a version, the advisories that match

ASSUME ComparisonAssumption ==
    /\ IssueRankOf \in [Issues -> 1..4] /\ IssueRiskOf \in [Issues -> Nat]
    /\ IsFiniteSet(Issues) /\ SecretIssues \subseteq Issues /\ Lines \subseteq Nat \ {0}
    /\ \A list \in DepLists : /\ list \in Seq({list[n] : n \in DOMAIN list})
                              /\ \A n \in DOMAIN list : list[n].version \in Nat

VARIABLES code,   \* the line of each issue, 0 where there is none
          keptScan,  \* the code of the scan that was kept: baseline, snapshot, base branch
          compared    \* what the last comparison said

comparisonVars == <<code, keptScan, compared>>

Nowhere == [i \in Issues |-> 0]
Untold == [how |-> "none"]
Standing(c) == {i \in Issues : c[i] # 0}

ComparisonInit == code = Nowhere /\ keptScan = Nowhere /\ compared = Untold

EditCode(i, line) ==
    /\ line # code[i] /\ code' = [code EXCEPT ![i] = line] /\ compared' = Untold
    /\ UNCHANGED keptScan

(* create_baseline, save_snapshot, the file of a scan: all of its findings. *)
KeepScan == keptScan # code /\ keptScan' = code /\ compared' = Untold /\ UNCHANGED code

(* generate_fingerprint.  Mutant: findings that are made without a location *)
(* all stand on line 0.                                                     *)
FingerprintWithoutLine(i, line) == <<SiteKindOf[i], 0>>
Fingerprint(i, line) == <<SiteKindOf[i], line>>

(* What a comparison knows a finding by.  An id is made with the finding,   *)
(* so that two scans share none, unless their caller has given them ids.    *)
Key(how, side, i, line) ==
    CASE how = "diff" -> Fingerprint(i, line)
      [] how = "snapshots" -> <<SiteKindOf[i], EvidenceOf[i]>>
      [] how = "pull_request" -> <<i, side>>
      [] how = "pull_request_with_ids" -> <<i, "given">>
Keys(how, side, c) == {Key(how, side, i, c[i]) : i \in Standing(c)}

(* Findings of one key are one.  apply_baseline calls a finding NEW or      *)
(* EXISTING as diff_scans does; a baseline has no list of resolved          *)
(* findings, so none is ever REOPENED.                                      *)
Delta(how) ==
    LET base == Keys(how, "base", keptScan)
        head == Keys(how, "head", code) IN
    [how |-> how, new |-> head \ base, fixed |-> base \ head]

CompareScans(how) == compared' = Delta(how) /\ UNCHANGED <<code, keptScan>>

Penalty == <<1, 3, 8, 15>>
PenaltyOf == [i \in Issues |-> Penalty[IssueRankOf[i]]]
Score(c) ==
    LET lost == MapThenSumSet(LAMBDA i : PenaltyOf[i], Standing(c)) IN
    IF lost > 100 THEN 0 ELSE 100 - lost
TotalRisk(c) == MapThenSumSet(LAMBDA i : IssueRiskOf[i], Standing(c))

(* The risk of what is new, a secret being critical; the gate is asked      *)
(* about everything in the head branch.                                     *)
NewIssues(delta) == {i \in Standing(code) : Key(delta.how, "head", i, code[i]) \in delta.new}
Classified(new) ==
    IF new \cap SecretIssues # {} THEN 4 ELSE Max({1} \cup {IssueRankOf[i] : i \in new})
PolicyResult == IF (\E i \in Standing(code) : IssueRankOf[i] = 4) \/ TotalRisk(code) >= 8 THEN "FAIL" ELSE "PASS"

AnalyzePullRequest(how) ==
    /\ compared' = [how |-> how, new |-> Delta(how).new, fixed |-> Delta(how).fixed,
                    risk |-> Classified(NewIssues(Delta(how))), delta |-> Score(code) - Score(keptScan),
                    gate |-> PolicyResult]
    /\ UNCHANGED <<code, keptScan>>

-----------------------------------------------------------------------------
(* Two lists of dependencies.  Of two entries of one package the last one   *)
(* counts.                                                                  *)
PackagesIn(list) == {list[n].package : n \in DOMAIN list}
VersionIn(list, p) == list[Max({n \in DOMAIN list : list[n].package = p})].version

(* An adviser that raises is passed over: nothing is known then.            *)
Matching(side, list, p, silent) ==
    IF <<side, p>> \in silent THEN {} ELSE AdvisoriesOf[<<p, VersionIn(list, p)>>]

Dependencies(base, head, silent) ==
    LET both == PackagesIn(base) \cap PackagesIn(head)
        of(side, p) == Matching(side, IF side = "base" THEN base ELSE head, p, silent)
        brought ==
            {p \in PackagesIn(head) \ both : of("head", p) # {}}
            \cup {p \in both : VersionIn(head, p) # VersionIn(base, p) /\ of("head", p) # {} /\ of("base", p) = {}}
        fixed ==
            {p \in PackagesIn(base) \ both : of("base", p) # {}}
            \cup {p \in both : VersionIn(head, p) > VersionIn(base, p) /\ of("base", p) # {} /\ of("head", p) = {}}
        downgraded == {p \in both : VersionIn(head, p) < VersionIn(base, p)} IN
    [how |-> "dependencies", base |-> base, head |-> head, silent |-> silent,
     new |-> brought, fixed |-> fixed, regression |-> brought # {} \/ downgraded # {}]

(* It looks at nothing else: once, where no code is, is enough.             *)
CompareDependencies ==
    /\ compared = Untold /\ code = Nowhere /\ keptScan = Nowhere
    /\ \E base, head \in DepLists :
          \E silent \in SUBSET ({"base", "head"} \X (PackagesIn(base) \cup PackagesIn(head))) :
             compared' = Dependencies(base, head, silent)
    /\ UNCHANGED <<code, keptScan>>

ComparisonNext ==
    \/ \E i \in Issues, line \in Lines \cup {0} : EditCode(i, line)
    \/ KeepScan
    \/ CompareScans("diff") \/ CompareScans("snapshots")
    \/ AnalyzePullRequest("pull_request") \/ AnalyzePullRequest("pull_request_with_ids")
    \/ CompareDependencies
ComparisonSpec == ComparisonInit /\ [][ComparisonNext]_comparisonVars

-----------------------------------------------------------------------------
ComparisonTypeOK ==
    /\ code \in [Issues -> Lines \cup {0}] /\ keptScan \in [Issues -> Lines \cup {0}]
    /\ compared.how \in {"none", "diff", "snapshots", "pull_request", "pull_request_with_ids", "dependencies"}
    /\ "gate" \in DOMAIN compared => compared.risk \in 1..4 /\ compared.gate \in {"PASS", "FAIL"} /\ compared.delta \in -100..100

Introduced == Standing(code) \ Standing(keptScan)
Gone == Standing(keptScan) \ Standing(code)

(* By the line: what is called new was not there or stood on another line,  *)
(* and something that is new is passed over only where one of its kind      *)
(* stood on its line before; what is gone likewise.                         *)
DiffTells ==
    compared.how = "diff" =>
       /\ \A i \in Standing(code) : <<SiteKindOf[i], code[i]>> \in compared.new => code[i] # keptScan[i]
       /\ \A i \in Introduced : \/ <<SiteKindOf[i], code[i]>> \in compared.new
                                \/ \E j \in Standing(keptScan) : SiteKindOf[j] = SiteKindOf[i] /\ keptScan[j] = code[i]
       /\ \A i \in Gone : \/ <<SiteKindOf[i], keptScan[i]>> \in compared.fixed
                          \/ \E j \in Standing(code) : SiteKindOf[j] = SiteKindOf[i] /\ code[j] = keptScan[i]

(* By the evidence: an issue that only moved is neither new nor fixed, and  *)
(* what is new or gone is passed over only beside one that looks like it.   *)
SnapshotsTell ==
    compared.how = "snapshots" =>
       LET look(i) == <<SiteKindOf[i], EvidenceOf[i]>> IN
       /\ \A i \in Standing(code) \cap Standing(keptScan) : look(i) \notin compared.new \cup compared.fixed
       /\ \A i \in Introduced : look(i) \in compared.new \/ \E j \in Standing(keptScan) : look(j) = look(i)
       /\ \A i \in Gone : look(i) \in compared.fixed \/ \E j \in Standing(code) : look(j) = look(i)

(* By the id: a pull request is never called safer than what it introduces, *)
(* and with ids that both branches share it is judged by just that; the     *)
(* score falls only if something was introduced; but the gate may fail one  *)
(* that introduces nothing.                                                 *)
PullRequestsTell ==
    compared.how \in {"pull_request", "pull_request_with_ids"} =>
       /\ \A i \in Introduced : compared.risk >= IssueRankOf[i] /\ (i \in SecretIssues => compared.risk = 4)
       /\ compared.how = "pull_request_with_ids" /\ compared.risk > 1 =>
             \E i \in Introduced : compared.risk = IssueRankOf[i] \/ i \in SecretIssues
       /\ compared.delta < 0 => Introduced # {}
       /\ compared.gate = "PASS" => \A i \in Standing(code) : IssueRankOf[i] < 4 /\ IssueRiskOf[i] < 8

(* A package that brings an advisory no listed version of it had in the     *)
(* base is reported, unless the adviser raised, a later entry of it is      *)
(* another version, or it had other advisories before.  What is reported is *)
(* vulnerable in the head, and was not in the base as far as the adviser    *)
(* told.  And a comparison without regressions has no package, listed once, *)
(* that went back.                                                          *)
DependenciesTell ==
    compared.how = "dependencies" =>
       LET versions(list, p) == {list[n].version : n \in {m \in DOMAIN list : list[m].package = p}}
           known(list, p) == UNION {AdvisoriesOf[<<p, v>>] : v \in versions(list, p)} IN
       /\ \A p \in PackagesIn(compared.head) :
             ~(known(compared.head, p) \subseteq known(compared.base, p)) =>
                \/ p \in compared.new
                \/ <<"head", p>> \in compared.silent
                \/ Cardinality(versions(compared.head, p)) > 1
                \/ known(compared.base, p) # {}
       /\ \A p \in compared.new :
             /\ known(compared.head, p) # {}
             /\ \/ p \notin PackagesIn(compared.base) \/ <<"base", p>> \in compared.silent
                \/ \E v \in versions(compared.base, p) : AdvisoriesOf[<<p, v>>] = {}
       /\ ~compared.regression =>
             \A p \in PackagesIn(compared.base) \cap PackagesIn(compared.head) :
                \E v \in versions(compared.base, p), w \in versions(compared.head, p) : v <= w

(* What is called new, fixed or a regression, by any of the comparisons,    *)
(* is told of the code as it is, or for a reason that can be named.         *)
ComparisonsTell == DiffTells /\ SnapshotsTell /\ PullRequestsTell /\ DependenciesTell
=============================================================================
