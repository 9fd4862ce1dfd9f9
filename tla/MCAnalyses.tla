------------------------------ MODULE MCAnalyses ------------------------------
(***************************************************************************)
(* The analyses that one command makes of a workspace: the taint pass, the *)
(* match of versions with advisories, a scan with its verdict and what is  *)
(* told of its history, the repair of dependencies, the disinfection, the  *)
(* vulnerability scan, the call graph, the flows across files, the graph   *)
(* of values, the attack paths, the intelligence feed, the comparison of   *)
(* scans and the ranges of versions.  No two share state, so each          *)
(* behaviour is one of a single part, chosen in the initial state, while   *)
(* the others stay as they began.                                          *)
(***************************************************************************)
EXTENDS MCTaintVisitor, VersionMatch, ScanHistory, DependencyFix, Disinfection,
        VulnerabilityScan, CallGraphs, ProgramFlows, DataflowGraph, AttackPaths,
        IntelligenceFeed, ScanComparison, VersionRanges

VARIABLE part

Parts == {"taint", "versions", "history", "fix", "cleaning", "vulnerabilities",
          "calls", "flows", "values", "paths", "feed", "comparisons",
          "ranges"}

analysisVars == <<part, vars, matchVars, historyVars, fixVars, cleanVars, vulnerabilityVars,
                  graphVars, flowVars, dataflowVars, pathVars, feedVars,
                  comparisonVars, rangeVars>>

\* Where there is nothing to analyse.
NothingWritten ==
    [f \in ToSet(CallFiles) |->
        [module |-> <<f>>, defines |-> {}, entries |-> {}, imports |-> << >>, calls |-> {}]]
EmptyFiles == [f \in SourceFiles |-> << >>]

\* A part that is not at work has one state, one that it may begin in.
AnalysesInit ==
    /\ part \in Parts
    /\ part # "taint" => program = << >>
    /\ part # "fix" => require = [e \in FixEntries |-> Unpinned]
    /\ part # "cleaning" => present = {}
    /\ part # "calls" => project = NothingWritten
    /\ part # "flows" => texts = EmptyFiles
    /\ part # "paths" => links = {}
    /\ Init /\ MatchInit /\ HistoryInit /\ FixInit /\ CleanInit /\ VulnerabilityInit
    /\ GraphInit /\ FlowInit /\ DataflowInit /\ PathsInit /\ FeedInit
    /\ ComparisonInit /\ RangeInit

\* All parts but p stay as they are.
OnlyIn(p) ==
    /\ part = p /\ UNCHANGED part
    /\ p # "taint" => UNCHANGED vars
    /\ p # "versions" => UNCHANGED matchVars
    /\ p # "history" => UNCHANGED historyVars
    /\ p # "fix" => UNCHANGED fixVars
    /\ p # "cleaning" => UNCHANGED cleanVars
    /\ p # "vulnerabilities" => UNCHANGED vulnerabilityVars
    /\ p # "calls" => UNCHANGED graphVars
    /\ p # "flows" => UNCHANGED flowVars
    /\ p # "values" => UNCHANGED dataflowVars
    /\ p # "paths" => UNCHANGED pathVars
    /\ p # "feed" => UNCHANGED feedVars
    /\ p # "comparisons" => UNCHANGED comparisonVars
    /\ p # "ranges" => UNCHANGED rangeVars

AnalysesNext ==
    \/ OnlyIn("taint") /\ Next
    \/ OnlyIn("versions") /\ MatchNext
    \/ OnlyIn("history") /\ HistoryNext
    \/ OnlyIn("fix") /\ FixNext
    \/ OnlyIn("cleaning") /\ CleanNext
    \/ OnlyIn("vulnerabilities") /\ VulnerabilityNext
    \/ OnlyIn("calls") /\ GraphNext
    \/ OnlyIn("flows") /\ FlowNext
    \/ OnlyIn("values") /\ DataflowNext
    \/ OnlyIn("paths") /\ PathsNext
    \/ OnlyIn("feed") /\ FeedNext
    \/ OnlyIn("comparisons") /\ ComparisonNext
    \/ OnlyIn("ranges") /\ RangeNext

AnalysesSpec == AnalysesInit /\ [][AnalysesNext]_analysisVars

\* Every variable of the analysis that is at work has its type; the taint pass has its own.
AnalysesTypeOK ==
    CASE part = "taint" -> TRUE
      [] part = "versions" -> MatchTypeOK
      [] part = "history" -> HistoryTypeOK
      [] part = "fix" -> FixTypeOK
      [] part = "cleaning" -> CleanTypeOK
      [] part = "vulnerabilities" -> VulnerabilityTypeOK
      [] part = "calls" -> GraphTypeOK
      [] part = "flows" -> FlowTypeOK
      [] part = "values" -> DataflowTypeOK
      [] part = "paths" -> PathsTypeOK
      [] part = "feed" -> FeedTypeOK
      [] part = "comparisons" -> ComparisonTypeOK
      [] part = "ranges" -> RangeTypeOK

\* What is said of a version is so: that an advisory affects it, that a range holds it,
\* that two requirements leave none.
VersionsRight == VerdictRight /\ RangesRight /\ ConflictsRight

\* What scans say of themselves and of each other: the exit code tells whether there
\* is something at or above the threshold, and a report of new findings names just
\* what the scan it is compared with did not have.
HistoryTells == ExitTells /\ RegressionTells

\* What the two engines that follow calls across files report is what the calls they
\* resolved really give: the cycles, the sinks that are reached, and the flows.
CallsTell == CyclesRight /\ ReachExplained /\ FlowsTell

-----------------------------------------------------------------------------
(* Constants for the run                                                    *)

Scales == 0..2
PackagesAlike == [d \in Deps |-> "p"]
MalwareOrSecret == [s \in Sites |-> IF s = "m" THEN "malware" ELSE "secrets"]
MalwareWorse == [s \in Sites |-> IF s = "m" THEN 4 ELSE 3]
Itself == [s \in Sites |-> s]
OneTwoThree == <<"e1", "e2", "e3">>
OnePackage == [e \in FixEntries |-> "p"]
TwoManifests == [e \in FixEntries |-> IF e = "e1" THEN "requirements.txt" ELSE "package.json"]
NoDefault == [n \in {"p"} |-> 0]
SecondVulnerable == [n \in {"p"} |-> {2}]
KindByName == [i \in Infections |->
    CASE i = "t1" -> "task" [] i \in {"f1", "f2"} -> "font" [] i = "c1" -> "config" [] OTHER -> "dropper"]
FontsAtOnePath == [i \in Infections |-> IF i \in {"f1", "f2"} THEN "font.ttf" ELSE i]
OneOrBoth == {<<"p1">>, <<"p2">>, <<"p1", "p2">>}
LooseOrVulnerable == {Unpinned, Exact(2), AtLeast(1)}

\* Three files, and modules that import and call each other.
FileOrder == <<"f1", "f2", "f3">>
Import(to, name, alias) == [target |-> to, name |-> name, alias |-> alias]
Call(within, raw) == [within |-> within, raw |-> raw]
Document(module, imports, calls) ==
    [module |-> module, defines |-> {"open_it", "run"}, entries |-> {"open_it", "run"},
     imports |-> imports, calls |-> calls]
\* Modules that import and call each other as one calls a function.
ModuleOf == [f1 |-> <<"a">>, f2 |-> <<"b">>, f3 |-> <<"c">>]
EachOther == << Import(<<"a">>, "", ""), Import(<<"b">>, "", ""), Import(<<"c">>, "", "") >>
Cyclic == {[f \in ToSet(FileOrder) |-> Document(ModuleOf[f], EachOther, {Call("run", m) : m \in called[f]})] :
             called \in [ToSet(FileOrder) -> SUBSET {<<"a">>, <<"b">>, <<"c">>}]}
\* Two modules of one name, a function with the name of a module, and ways to import and to call.
Named ==
    {[f1 |-> Document(<<"a">>, imports, {Call("run", raw), Call("open_it", <<"run">>)}),
      f2 |-> Document(second, << >>, {Call("run", <<"open">>)}),
      f3 |-> Document(<<"c">>, << Import(<<"b">>, "run", "go") >>, {Call("run", <<"go">>)})] :
        imports \in {<< >>, << Import(<<"b">>, "", "") >>, << Import(<<"b">>, "run", ""), Import(<<"c">>, "run", "b") >>},
        raw \in {<<"run">>, <<"b">>, <<"b", "run">>, <<"open">>},
        second \in {<<"a">>, <<"b">>, <<"a", "run">>}}
ProjectsUsed == Cyclic \cup Named \cup {NothingWritten}
DynamicTargets == {<<"f1", <<"open">>>>}
TheSinks == {<<"open">>, <<"os", "system">>}
HoldsOpen == {<<"open_it", "open">>}

\* Three files, two with one base name, that call each other's functions.
Bases == [f \in SourceFiles |-> IF f = "other/a" THEN "a" ELSE f]
Def(name) == [def |-> name, endpoint |-> name = "get"]
Makes(name) == [call |-> name]
AcrossFiles ==
    {EmptyFiles} \cup
    {[f \in SourceFiles |->
        CASE f = "a" -> <<Makes(<<"source">>), Def("get"), Makes(<<"run">>), Makes(first), Def("run"), Makes(second)>>
          [] f = "b" -> <<Def("run"), Makes(third), Makes(<<"clean">>), Def("last"), Makes(<<"sink">>), Makes(fourth)>>
          [] OTHER -> fifth] :
      first \in {<<"last">>, <<"clean">>, <<"b", "run">>}, second \in {<<"sink">>, <<"source">>, <<"last">>},
      third \in {<<"sink">>, <<"last">>, <<"get">>}, fourth \in {<<"get">>, <<"clean">>, <<"source">>},
      fifth \in {<< >>, <<Def("get"), Makes(<<"run">>), Def("run"), Makes(<<"last">>), Def("run"), Makes(<<"sink">>)>>}}
OneSource == {<<"source">>}
OneSink == [c \in {<<"sink">>} |-> "sql"]
OneSanitizer == [c \in {<<"clean">>} |-> {"sql"}]

\* Assignments of every operand, of two at once and of what was cleaned, sinks with one
\* and two arguments, and the heads of functions with and without a parameter.
FromValue(how, operands) == [how |-> how, of |-> operands]
LinesToRead ==
    {[op |-> "assign", to |-> v, from |-> e] : v \in Variables,
        e \in {FromValue("join", <<o>>) : o \in Operands}
                 \cup {FromValue("join", <<"x", "y">>), FromValue("join", <<"y", "source">>), FromValue("clean", <<"x">>)}}
    \cup {[op |-> "sink", args |-> a] :
              a \in {<<FromValue("join", <<"x">>)>>, <<FromValue("clean", <<"x">>), FromValue("join", <<"y">>)>>}}
    \cup {[op |-> "def", params |-> p] : p \in {{}, {"x"}}}

InThisOrder == <<"in", "a", "b", "net", "db">>
SomeLinks ==
    SUBSET {<<"in", "a">>, <<"in", "b">>, <<"a", "b">>, <<"b", "a">>, <<"a", "db">>, <<"b", "db">>,
            <<"net", "a">>, <<"net", "db">>, <<"a", "net">>, <<"b", "net">>}
Weights == [n \in ToSet(InThisOrder) |-> IF n = "b" THEN 90 ELSE 40]

\* Records of two packages that name each other in a chain: O1 - G1 - C1 - C2.
Delivered(id, known, severity, trust, affects, fixed) ==
    [id |-> id, aliases |-> known, severity |-> severity, trust |-> trust, affects |-> affects, fixed |-> fixed]
Deliveries ==
    {Delivered("G1", {}, "low", 1, {<<"p", 1>>}, {}), Delivered("G1", {"C1"}, "high", 2, {<<"p", 1>>}, {2}),
     Delivered("C1", {}, "high", 1, {<<"p", 2>>}, {}), Delivered("C2", {"C1"}, "low", 3, {<<"q", 1>>}, {3}),
     Delivered("O1", {"G1"}, "low", 2, {<<"q", 2>>}, {})}
TwoDeps == [r \in Repositories |-> IF r = "r1" THEN {<<"p", 1>>} ELSE {<<"q", 2>>, <<"p", 2>>}]

\* Three findings of one rule, two of which look alike, and a secret; two packages.
OneKind == [i \in Issues |-> IF i = "key" THEN "secret" ELSE "eval"]
Shown == [i \in Issues |-> IF i = "e3" THEN "eval(y)" ELSE "eval(x)"]
IssueRanks == [i \in Issues |-> CASE i = "key" -> 2 [] i = "e3" -> 4 [] OTHER -> 3]
IssueRisks == [i \in Issues |-> CASE i = "key" -> 3 [] i = "e3" -> 9 [] OTHER -> 5]
OnManifest == [package : {"p"}, version : 1..3] \cup {[package |-> "q", version |-> 1]}
ShortLists == UNION {[1..n -> OnManifest] : n \in 0..2}
KnownAdvisories == [q \in {"p", "q"} \X (1..3) |->
    CASE q = <<"p", 1>> -> {"a1"} [] q = <<"p", 3>> -> {"a2"} [] q = <<"q", 1>> -> {"a3"} [] OTHER -> {}]

\* Versions with one to three numbers, releases of them and before them, and every
\* operator with each; two parts with a blank in them.
Writes(digits, pre, dashed) == [digits |-> digits, pre |-> pre, dashed |-> dashed]
Release(digits) == Writes(digits, 0, FALSE)
FewVersions ==
    {Release(d) : d \in {<<0, 1>>, <<0, 2, 1>>, <<1>>, <<1, 1, 0>>, <<1, 2>>, <<2, 0, 0>>}}
    \cup {Writes(<<2, 0, 0>>, 1, TRUE), Writes(<<1, 1, 0>>, 2, TRUE), Writes(<<1, 1>>, 1, FALSE)}
Clause(op, w) == [op |-> op, version |-> w]
EveryPart ==
    {<<Clause(op, w)>> : op \in {"^", "~", "~=", "==", "!=", ">=", ">", "<=", "<"}, w \in FewVersions}
    \cup {<<Clause(">=", Release(<<1, 0>>)), Clause("<", w)>> : w \in {Release(<<2>>), Release(<<1, 1>>)}}
AlwaysTried == {Release(<<0, 0, 1>>), Release(<<1, 0, 0>>), Release(<<2, 0, 0>>), Release(<<3, 0, 0>>)}
=============================================================================
