----------------------------- MODULE ProgramFlows -----------------------------
(***************************************************************************)
(* execute_interprocedural_scan (application/services/workspace_scans.py): *)
(* build_program_model reads the files of a workspace line by line, in the *)
(* order of os.walk, CallGraph2 and NameResolver (domain/semantics) link   *)
(* the calls, InterproceduralEngine follows them from every function with  *)
(* a source, and RuleEngine2 weighs what it finds.  A called name is the   *)
(* sequence of its parts; which texts hold the pattern of a source, a sink *)
(* or a sanitizer is a constant.  Classes and imports are never filled in  *)
(* by build_program_model, so nothing is resolved through them.            *)
(***************************************************************************)
EXTENDS Naturals, FiniteSets, Sequences, SequencesExt

CONSTANTS SourceFiles,   \* the files of the workspace
          BaseNameOf,    \* SourceFiles -> the name without directory and extension
          SourceTexts,   \* what the files may hold: lines [def, endpoint] or [call]
          SourceCalls,   \* called names that hold a source's pattern
          SinkCategory,  \* called names that hold a sink's pattern -> category
          CleanedBy,     \* called names that hold a sanitizer's pattern -> categories
          MaxCallDepth   \* max_depth

ASSUME ProgramFlowsAssumption ==
    /\ MaxCallDepth \in Nat
    /\ \A t \in SourceTexts : \A f \in SourceFiles : t[f] \in Seq(Range(t[f]))

VARIABLES texts,      \* file -> sequence of lines
          walked,     \* files in the order in which they were read
          functions,  \* <<module, function>> -> [endpoint, calls]
          pending,    \* calls of _propagate_taint that have not begun: source and path
          evidence,   \* what reached a sink
          flowStage

flowVars == <<texts, walked, functions, pending, evidence, flowStage>>

FlowInit ==
    /\ texts \in SourceTexts /\ walked = << >> /\ functions = << >>
    /\ pending = {} /\ evidence = {} /\ flowStage = "read"

IsDef(line) == "def" \in DOMAIN line

(* A line with a definition begins a function anew; a call belongs to the last one. *)
Having(found, name, function) == [q \in DOMAIN found \cup {name} |-> IF q = name THEN function ELSE found[q]]
ReadLine(module, read, line) ==
    IF IsDef(line)
    THEN LET name == <<module, line.def>>
         IN [found |-> Having(read.found, name, [endpoint |-> line.endpoint, calls |-> {}]), current |-> name]
    ELSE IF read.current = << >> THEN read
    ELSE LET function == read.found[read.current]
         IN [read EXCEPT !.found = Having(@, read.current, [function EXCEPT !.calls = @ \cup {line.call}])]

FunctionsOf(file) ==
    LET read[n \in 0..Len(texts[file])] ==
            IF n = 0 THEN [found |-> << >>, current |-> << >>]
            ELSE ReadLine(BaseNameOf[file], read[n - 1], texts[file][n])
    IN read[Len(texts[file])].found

(* add_module: a module takes the place of another of its name.             *)
Added(old, module, new) ==
    [q \in DOMAIN new \cup {p \in DOMAIN old : p[1] # module} |-> IF q \in DOMAIN new THEN new[q] ELSE old[q]]

(* One turn of os.walk.                                                     *)
ReadSource(file) ==
    /\ flowStage = "read" /\ file \notin ToSet(walked)
    /\ walked' = Append(walked, file)
    /\ functions' = Added(functions, BaseNameOf[file], FunctionsOf(file))
    /\ UNCHANGED <<texts, pending, evidence, flowStage>>

(* resolve_call, and get_function of what it leaves unresolved.             *)
Resolved(known, caller, name) ==
    IF Len(name) > 1 THEN {name} \cap known
    ELSE LET local == <<caller[1], name[1]>>
         IN IF local \in known THEN {local} ELSE {q \in known : q[2] = name[1]}
CalleesOf(q) == UNION {Resolved(DOMAIN functions, q, c) : c \in functions[q].calls}

SourcesOf(q) ==
    {c \in functions[q].calls : c \in SourceCalls} \cup (IF functions[q].endpoint THEN {<<"endpoint">>} ELSE {})

(* analyze_workspace begins a search at every source of every function.     *)
BeginSearch ==
    /\ flowStage = "read" /\ ToSet(walked) = SourceFiles
    /\ flowStage' = "propagate"
    /\ pending' = UNION {{[source |-> s, path |-> <<q>>] : s \in SourcesOf(q)} : q \in DOMAIN functions}
    /\ UNCHANGED <<texts, walked, functions, evidence>>

(* The sanitizers of the function with the sink, in whatever order they are called: those of its
   callers are not handed on.                                               *)
Sanitizing(path) == UNION {CleanedBy[c] : c \in functions[Last(path)].calls \cap DOMAIN CleanedBy}

(* evaluate_composite_findings.                                             *)
Weighed(p, sink) ==
    LET sanitized == SinkCategory[sink] \in Sanitizing(p.path)
    IN [source |-> p.source, path |-> p.path, sink |-> sink, sanitized |-> sanitized,
        critical |-> ~sanitized /\ \E q \in ToSet(p.path) : functions[q].endpoint]

(* _propagate_taint: the path is what was visited, so it is left at once where it closes a cycle. *)
Propagate(p) ==
    /\ flowStage = "propagate" /\ p \in pending
    /\ LET q == Last(p.path) IN
       /\ evidence' = evidence \cup {Weighed(p, s) : s \in functions[q].calls \cap DOMAIN SinkCategory}
       /\ pending' = (pending \ {p}) \cup
                     {[p EXCEPT !.path = Append(@, r)] :
                         r \in {r \in CalleesOf(q) : Len(p.path) <= MaxCallDepth /\ r \notin ToSet(p.path)}}
    /\ UNCHANGED <<texts, walked, functions, flowStage>>

FlowNext == BeginSearch \/ (\E f \in SourceFiles : ReadSource(f)) \/ (\E p \in pending : Propagate(p))

FlowSpec == FlowInit /\ [][FlowNext]_flowVars

-----------------------------------------------------------------------------
(* Properties                                                               *)

FlowTypeOK ==
    /\ texts \in SourceTexts /\ flowStage \in {"read", "propagate"}
    /\ IsInjective(walked) /\ ToSet(walked) \subseteq SourceFiles
    /\ \A p \in pending \cup evidence : IsInjective(p.path) /\ Len(p.path) \in 1..(MaxCallDepth + 1)

\* The definitions that a reader of the workspace finds: file, and line of the def.
Definitions == UNION {{<<f, n>> : n \in {n \in DOMAIN texts[f] : IsDef(texts[f][n])}} : f \in SourceFiles}
QualifiedName(d) == <<BaseNameOf[d[1]], texts[d[1]][d[2]].def>>
BodyOf(d) ==
    {texts[d[1]][n].call : n \in {n \in DOMAIN texts[d[1]] : /\ n > d[2] /\ ~IsDef(texts[d[1]][n])
                                                            /\ \A k \in (d[2] + 1)..n : ~IsDef(texts[d[1]][k])}}
\* Those that the model keeps: of files with one base name the last that was walked, and of
\* functions with one name in it the last.
Kept(d) ==
    /\ \E n \in DOMAIN walked : /\ walked[n] = d[1]
                               /\ \A m \in DOMAIN walked : BaseNameOf[walked[m]] = BaseNameOf[d[1]] => m <= n
    /\ \A e \in Definitions : e[1] = d[1] /\ QualifiedName(e) = QualifiedName(d) => e[2] <= d[2]
KeptDefinitions == {d \in Definitions : Kept(d)}
CallLinks ==
    LET known == {QualifiedName(e) : e \in KeptDefinitions}
    IN {l \in KeptDefinitions \X KeptDefinitions :
           \E c \in BodyOf(l[1]) : QualifiedName(l[2]) \in Resolved(known, QualifiedName(l[1]), c)}
CalledWithin(d) ==
    LET within[n \in 0..MaxCallDepth] ==
            IF n = 0 THEN {d} ELSE LET s == within[n - 1] IN s \cup {l[2] : l \in {l \in CallLinks : l[1] \in s}}
    IN within[MaxCallDepth]

\* When the search ends, a flow is reported from a definition to a sink exactly if the
\* definition is kept, is an endpoint or calls a source, and calls its way down to a kept
\* definition with the sink in no more steps than the depth allows, however many paths lead
\* there and whatever cycles they close.  It counts as sanitized exactly if the definition
\* with the sink calls a sanitizer of its category itself, before or after.
FlowsTell ==
    flowStage = "propagate" /\ pending = {} =>
        {<<v.path[1], Last(v.path), v.sink, v.sanitized>> : v \in evidence} =
        UNION {UNION {{<<QualifiedName(d), QualifiedName(e), s,
                         \E c \in BodyOf(e) \cap DOMAIN CleanedBy : SinkCategory[s] \in CleanedBy[c]>> :
                           s \in BodyOf(e) \cap DOMAIN SinkCategory} : e \in CalledWithin(d)} :
                  d \in {d \in KeptDefinitions : texts[d[1]][d[2]].endpoint \/ BodyOf(d) \cap SourceCalls # {}}}
=============================================================================
