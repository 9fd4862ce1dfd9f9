---------------------------- MODULE DependencyFix ----------------------------
(***************************************************************************)
(* python-hunter fix (fix_dependencies.py): it analyses the dependencies   *)
(* and their vulnerabilities, chooses at most one new version for every    *)
(* package name (fixer.py) and then rewrites the manifests one by one,     *)
(* every entry of a chosen name.  What it reports is collected before the  *)
(* write, and a write that fails is passed over; somebody may edit the     *)
(* manifests meanwhile.                                                    *)
(*                                                                         *)
(* An entry is one requirement of one manifest.  The text of a manifest,   *)
(* the reasons and the branch and pull request that git and GitHub make of *)
(* the result (every step of which may fail unseen) are left out.          *)
(***************************************************************************)
EXTENDS Naturals, Sequences

CONSTANTS
    FixEntries,         \* the requirements in the manifests of a project
    FoundInOrder,              \* them, in the order the analysis finds them
    PackageNameOf,      \* the normalised name of an entry's package
    ManifestOf,         \* the manifest an entry stands in
    OutOfReach,         \* entries that are read but cannot be rewritten: in a
                        \* lock file, in a directory whose path holds ".git" or
                        \* "venv", or in a form the pattern misses (extras)
    DefaultVersion,     \* name -> the version of DEFAULT_PINNED_VERSIONS, or 0
    VulnerableVersions, \* name -> versions the vulnerability scan reports
    FixVersions,        \* versions, numbers from 1
    FirstRequirements,  \* bound: what the manifests may ask for at first
    MaxFixRuns,         \* bound: how often the command runs
    MaxManifestEdits    \* bound: entries edited by hand

PackageNames == {PackageNameOf[e] : e \in FixEntries}
Manifests == {ManifestOf[e] : e \in FixEntries}

Exact(v) == [pin |-> "exact", at |-> v]
AtLeast(v) == [pin |-> "range", at |-> v]
Unpinned == [pin |-> "none", at |-> 0]
Erased == [pin |-> "erased", at |-> 0]  \* the manifest was emptied and not written

Requirements == {Unpinned} \cup {Exact(v) : v \in FixVersions}
                           \cup {AtLeast(v) : v \in FixVersions}

ASSUME DependencyFixAssumption ==
    /\ FoundInOrder \in Seq(FixEntries)
    /\ \A e \in FixEntries : \E k \in DOMAIN FoundInOrder : FoundInOrder[k] = e
    /\ DOMAIN PackageNameOf = FixEntries /\ DOMAIN ManifestOf = FixEntries
    /\ OutOfReach \subseteq FixEntries
    /\ FixVersions \subseteq Nat \ {0}
    /\ DefaultVersion \in [PackageNames -> FixVersions \cup {0}]
    /\ VulnerableVersions \in [PackageNames -> SUBSET FixVersions]
    /\ FirstRequirements \subseteq Requirements
    /\ MaxFixRuns \in Nat /\ MaxManifestEdits \in Nat

VARIABLES
    require,    \* entry -> what the manifest asks for
    fixing,     \* the running command: its phase, options, choices and report
    asked,      \* ghost: require when the analysis read it
    broken,     \* ghost: manifests that could not be read or written in this run
    edited,     \* ghost: entries edited since the analysis
    fixRuns, manifestEdits

fixVars == <<require, fixing, asked, broken, edited, fixRuns, manifestEdits>>

Options == [dryRun : BOOLEAN, unpinned : BOOLEAN, vulnerabilities : BOOLEAN]
NoOptions == [dryRun |-> FALSE, unpinned |-> FALSE, vulnerabilities |-> FALSE]

NotFixing ==
    [phase |-> "idle", options |-> NoOptions,
     updates |-> [n \in PackageNames |-> 0], missed |-> {}, todo |-> {}, fixes |-> {}]

FixInit ==
    /\ require \in [FixEntries -> FirstRequirements]
    /\ fixing = NotFixing
    /\ asked = require
    /\ broken = {} /\ edited = {}
    /\ fixRuns = 0 /\ manifestEdits = 0

-----------------------------------------------------------------------------
(* What the command decides *)

Loose(r) == r.pin \in {"none", "range"}

\* The version an entry is to be pinned to: the table's, else the one in its
\* own constraint, else none.
RecommendedFor(e) ==
    IF DefaultVersion[PackageNameOf[e]] # 0
    THEN DefaultVersion[PackageNameOf[e]] ELSE require[e].at

IsVulnerable(e) ==
    /\ require[e].pin = "exact"
    /\ require[e].at \in VulnerableVersions[PackageNameOf[e]]

\* The advisories made of the vulnerability findings.  Advisory(...) is called
\* with package_name, vulnerable_versions and summary; the dataclass has no such
\* fields, the call raises and the handler goes on with no advisory at all.
AdvisoriesFrom(findings) == [advised |-> {}, patched |-> [n \in PackageNames |-> 0]]

\* The places of the loose entries of a name in the analysis.
LooseEntries(n, missed) ==
    {k \in DOMAIN FoundInOrder :
        LET e == FoundInOrder[k]
        IN  PackageNameOf[e] = n /\ ManifestOf[e] \notin missed /\ Loose(require[e]) /\ RecommendedFor(e) # 0}
EarliestOf(places) == FoundInOrder[CHOOSE k \in places : \A l \in places : k <= l]

\* One version for every name: the patched one of an advisory, else what the
\* first loose entry of the name is to be pinned to.
CalculateUpdates(missed, advisories, options) ==
    [n \in PackageNames |->
        CASE options.vulnerabilities /\ n \in advisories.advised -> advisories.patched[n]
          [] options.unpinned /\ n \notin advisories.advised /\ LooseEntries(n, missed) # {} ->
                RecommendedFor(EarliestOf(LooseEntries(n, missed)))
          [] OTHER -> 0]

\* The analysis passes over a manifest that it cannot read or parse.
Analyze(options, missed) ==
    /\ fixing.phase \in {"idle", "done"} /\ fixRuns < MaxFixRuns
    /\ fixing' = [phase |-> "rewriting",
                  options |-> options,
                  updates |-> CalculateUpdates(missed,
                                  AdvisoriesFrom({e \in FixEntries : IsVulnerable(e)}), options),
                  missed |-> missed,
                  todo |-> {ManifestOf[e] : e \in FixEntries \ OutOfReach},
                  fixes |-> {}]
    /\ asked' = require /\ broken' = {} /\ edited' = {}
    /\ fixRuns' = fixRuns + 1
    /\ UNCHANGED <<require, manifestEdits>>

-----------------------------------------------------------------------------
(* The manifests, one by one *)

\* The entries of a manifest that fix_requirements_txt, fix_pyproject_toml and
\* fix_package_json replace: every one of a chosen name, pinned or not.
Replaced(m) ==
    {e \in FixEntries \ OutOfReach :
        /\ ManifestOf[e] = m
        /\ require[e] # Erased
        /\ fixing.updates[PackageNameOf[e]] # 0}

Target(e) == fixing.updates[PackageNameOf[e]]

\* What the report gains: before the write, and in a dry run too.
ListedFixes(m) == {[entry |-> e, version |-> Target(e)] : e \in Replaced(m)}

\* Mutant: only what is loose is rewritten, while every entry is reported.
RewrittenLoose(m) ==
    [e \in FixEntries |->
        IF e \in Replaced(m) /\ Loose(require[e]) THEN Exact(Target(e)) ELSE require[e]]

Rewritten(m) ==
    [e \in FixEntries |-> IF e \in Replaced(m) THEN Exact(Target(e)) ELSE require[e]]

FixManifest(m) ==
    /\ fixing.phase = "rewriting" /\ m \in fixing.todo
    /\ fixing' = [fixing EXCEPT !.todo = @ \ {m}, !.fixes = @ \cup ListedFixes(m)]
    /\ require' = IF fixing.options.dryRun THEN require ELSE Rewritten(m)
    /\ UNCHANGED <<asked, broken, edited, fixRuns, manifestEdits>>

\* The manifest cannot be read: it is passed over.
ManifestUnreadable(m) ==
    /\ fixing.phase = "rewriting" /\ m \in fixing.todo
    /\ fixing' = [fixing EXCEPT !.todo = @ \ {m}]
    /\ broken' = broken \cup {m}
    /\ UNCHANGED <<require, asked, edited, fixRuns, manifestEdits>>

\* The write fails, before or after open(..., "w") has emptied the manifest: the
\* fixes stay in the report.
WriteFails(m) ==
    /\ fixing.phase = "rewriting" /\ m \in fixing.todo
    /\ Replaced(m) # {} /\ ~fixing.options.dryRun
    /\ fixing' = [fixing EXCEPT !.todo = @ \ {m}, !.fixes = @ \cup ListedFixes(m)]
    /\ \/ UNCHANGED require
       \/ require' = [e \in FixEntries |-> IF ManifestOf[e] = m THEN Erased ELSE require[e]]
    /\ broken' = broken \cup {m}
    /\ UNCHANGED <<asked, edited, fixRuns, manifestEdits>>

Report ==
    /\ fixing.phase = "rewriting" /\ fixing.todo = {}
    /\ fixing' = [fixing EXCEPT !.phase = "done"]
    /\ UNCHANGED <<require, asked, broken, edited, fixRuns, manifestEdits>>

\* The environment: somebody edits an entry, or restores an erased one.
EditRequirement(e) ==
    /\ manifestEdits < MaxManifestEdits /\ fixing.phase # "done"
    /\ \E r \in Requirements \ {require[e]} : require' = [require EXCEPT ![e] = r]
    /\ edited' = edited \cup {e}
    /\ manifestEdits' = manifestEdits + 1
    /\ UNCHANGED <<fixing, asked, broken, fixRuns>>

FixNext ==
    \/ \E o \in Options, missed \in SUBSET Manifests : Analyze(o, missed)
    \/ \E m \in Manifests : FixManifest(m) \/ ManifestUnreadable(m) \/ WriteFails(m)
    \/ Report
    \/ \E e \in FixEntries : EditRequirement(e)

FixSpec == FixInit /\ [][FixNext]_fixVars

-----------------------------------------------------------------------------
(* Properties *)

\* Every variable has its type.
FixTypeOK ==
    /\ require \in [FixEntries -> Requirements \cup {Erased}]
    /\ fixing.phase \in {"idle", "rewriting", "done"}
    /\ fixing.options \in Options
    /\ fixing.updates \in [PackageNames -> FixVersions \cup {0}]
    /\ fixing.missed \subseteq Manifests /\ fixing.todo \subseteq Manifests
    /\ fixing.fixes \subseteq [entry : FixEntries \ OutOfReach, version : FixVersions]
    /\ broken \subseteq Manifests /\ edited \subseteq FixEntries
    /\ fixRuns \in 0..MaxFixRuns /\ manifestEdits \in 0..MaxManifestEdits

Undisturbed(e) == e \notin edited /\ ManifestOf[e] \notin broken

\* What a finished run reports is in the manifests, and nothing else in them has
\* changed: an entry differs from what the analysis read exactly as a fix of the
\* report says, unless it was edited or its manifest could not be written.
ReportIsTrue ==
    \A e \in FixEntries : Undisturbed(e) =>
        LET fixes == {f \in fixing.fixes : f.entry = e}
        IN  /\ \A f \in fixes : fixing.options.dryRun \/ require[e] = Exact(f.version)
            /\ require[e] # asked[e] => fixes # {} /\ ~fixing.options.dryRun

\* After a whole run no entry that it read and can rewrite is loose if a version for
\* its name is known: a second run has something to do only for what the first cannot rewrite.
RunsSettle ==
    fixing.options.unpinned /\ ~fixing.options.dryRun =>
        \A e \in FixEntries \ OutOfReach :
            /\ Undisturbed(e) /\ ManifestOf[e] \notin fixing.missed
            /\ Loose(require[e])
            => RecommendedFor(e) = 0

\* A finished `fix` tells the truth about the manifests and leaves nothing that it
\* could have pinned, whatever was edited and whichever write failed meanwhile.
FixTells ==
    fixing.phase = "done" => ReportIsTrue /\ RunsSettle

\* What the command says when it has no fix to report, "All dependencies are clean,
\* pinned, and up-to-date": no entry that it could rewrite, and that was analysed
\* with vulnerabilities on, asks for exactly a version with a known vulnerability.
NothingLeftToFix ==
    fixing.phase = "done" /\ fixing.fixes = {} /\ fixing.options.vulnerabilities =>
        \A e \in FixEntries \ OutOfReach :
            Undisturbed(e) /\ ManifestOf[e] \notin fixing.missed => ~IsVulnerable(e)
=============================================================================
