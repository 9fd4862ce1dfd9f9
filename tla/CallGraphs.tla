------------------------------ MODULE CallGraphs ------------------------------
(***************************************************************************)
(* CallGraphEngine (domain/callgraph/engine.py) as AnalyzeCallGraphUseCase *)
(* and AnalyzeSecurityUseCase use it: documents are indexed, imports and   *)
(* calls are resolved, Tarjan's algorithm looks for cycles, and a breadth- *)
(* first search asks whether an entry point reaches a sink.  A qualified   *)
(* name is the sequence of its parts.  Sets are walked in any order, as    *)
(* Python's are.  Control-flow graphs and the Graphviz text are left out.  *)
(***************************************************************************)
EXTENDS Naturals, FiniteSets, Sequences, SequencesExt

CONSTANTS CallFiles,   \* the documents, in the order of analysis
          Projects,    \* what the files may hold
          Dynamic,     \* <<file, target>>: what the analysis of dynamic behaviour resolved
          Builtins,    \* names that are taken for builtins
          Sinks,       \* the sinks that are asked for, as sequences of parts
          PartHolds    \* <<part, piece>>: the text of the part contains the piece

QualifiedNames == Seq(STRING) \ {<< >>}
Imports == [target : QualifiedNames, name : STRING, alias : STRING]

(* A document that has a path for its name is one that could not be parsed: it calls nothing. *)
ASSUME CallGraphsAssumption ==
    /\ CallFiles \in Seq(Range(CallFiles)) /\ IsInjective(CallFiles)
    /\ \A d \in Dynamic : d[2] \in QualifiedNames
    /\ \A p \in Projects : \A f \in Range(CallFiles) :
          /\ p[f].module \in QualifiedNames /\ p[f].imports \in Seq(Imports)
          /\ IsFiniteSet(p[f].defines) /\ p[f].defines \subseteq STRING /\ p[f].entries \subseteq p[f].defines
          /\ IsFiniteSet(p[f].calls) /\ \A c \in p[f].calls : c.raw \in QualifiedNames
          /\ \A d \in Dynamic : p[f].module = <<d[1]>> => p[f].calls = {}

VARIABLES project,   \* the documents: module, defines, entries, imports and calls of each
          callStage, \* what analyze_documents does next
          symbols,   \* the qualified names that are defined
          aliases,   \* alias_map, <<module, local name>> to qualified name
          callEdges, \* call_edges, as a set of pairs
          search,    \* Tarjan's indices, lowlink, stack, the calls that are open, and what each has left to meet
          sccs       \* the cycles found

graphVars == <<project, callStage, symbols, aliases, callEdges, search, sccs>>

DocumentsInOrder == [n \in DOMAIN CallFiles |-> project[CallFiles[n]]]
NoSearch == [indices |-> << >>, low |-> << >>, stack |-> << >>, open |-> << >>, left |-> << >>]

GraphInit ==
    /\ project \in Projects /\ callStage = "dynamic"
    /\ symbols = {} /\ aliases = << >> /\ callEdges = {} /\ search = NoSearch /\ sccs = {}

(* add_dynamic_behaviors: the caller of a dynamic edge is a file.           *)
AddDynamic ==
    /\ callStage = "dynamic" /\ callStage' = "index"
    /\ callEdges' = callEdges \cup {<<<<d[1]>>, d[2]>> : d \in Dynamic}
    /\ UNCHANGED <<project, symbols, aliases, search, sccs>>

(* _reset, and the symbols of every document: a name that is defined twice is one symbol. *)
IndexSymbols ==
    /\ callStage = "index" /\ callStage' = "resolve"
    /\ symbols' = UNION {{d.module} \cup {Append(d.module, f) : f \in d.defines} : d \in ToSet(DocumentsInOrder)}
    /\ aliases' = << >> /\ callEdges' = {} /\ search' = NoSearch /\ sccs' = {}
    /\ UNCHANGED project

LocalName(i) == IF i.alias # "" THEN i.alias ELSE IF i.name # "" THEN i.name ELSE Last(i.target)
Imported(i) == IF i.name # "" THEN Append(i.target, i.name) ELSE i.target

(* The imports of a document that give a module's local name.               *)
Giving(n, key) ==
    {m \in DOMAIN DocumentsInOrder[n].imports :
        key = <<DocumentsInOrder[n].module, LocalName(DocumentsInOrder[n].imports[m])>>}
LastGiving(key) ==
    LET n == Max({k \in DOMAIN CallFiles : Giving(k, key) # {}}) IN DocumentsInOrder[n].imports[Max(Giving(n, key))]

(* _resolve_imports: the last import of a local name decides, of all files of that module. *)
ResolveImports ==
    /\ callStage = "resolve" /\ callStage' = "extract"
    /\ aliases' = [key \in UNION {{<<d.module, LocalName(i)>> : i \in ToSet(d.imports)} : d \in ToSet(DocumentsInOrder)} |->
                      Imported(LastGiving(key))]
    /\ UNCHANGED <<project, symbols, callEdges, search, sccs>>

EndsWith(q, raw) == Len(q) > Len(raw) /\ SubSeq(q, Len(q) - Len(raw) + 1, Len(q)) = raw

(* _resolve_callee_candidates.                                              *)
Candidates(module, raw) ==
    LET local == module \o raw
        key == <<module, Head(raw)>>
        full == aliases[key] \o Tail(raw)
    IN IF raw \in {<<b>> : b \in Builtins} THEN {<<"builtins">> \o raw}
       ELSE IF local \in symbols THEN {local}
       ELSE IF key \in DOMAIN aliases /\ (full \in symbols \/ Len(raw) = 1) THEN {full}
       ELSE {q \in symbols : EndsWith(q, raw)}

(* _extract_call_sites: the caller is the module, whichever function calls.  *)
CallerOf(d, call) == d.module
ExtractCalls ==
    /\ callStage = "extract" /\ callStage' = "sccs"
    /\ callEdges' = UNION {UNION {{<<CallerOf(d, c), q>> : q \in Candidates(d.module, c.raw)} : c \in d.calls} :
                              d \in ToSet(DocumentsInOrder)}
    /\ UNCHANGED <<project, symbols, aliases, search, sccs>>

-----------------------------------------------------------------------------
(* _find_strongly_connected_components                                      *)

CallNodes == {e[1] : e \in callEdges} \cup {e[2] : e \in callEdges}
Callees(q) == {e[2] : e \in {c \in callEdges : c[1] = q}}
Least(a, b) == IF a < b THEN a ELSE b

(* A function with one value changed or added.                              *)
With(f, node, value) == [q \in DOMAIN f \cup {node} |-> IF q = node THEN value ELSE f[q]]

Opened(s, node) ==
    LET index == Cardinality(DOMAIN s.indices)
    IN [indices |-> With(s.indices, node, index), low |-> With(s.low, node, index), left |-> With(s.left, node, Callees(node)),
        stack |-> Append(s.stack, node), open |-> Append(s.open, node)]
Passed(s, neighbour) == [s EXCEPT !.left[Last(s.open)] = @ \ {neighbour}]

(* The loop over all nodes calls strongconnect.                             *)
OpenRoot(node) ==
    /\ callStage = "sccs" /\ search.open = << >> /\ node \in CallNodes \ DOMAIN search.indices
    /\ search' = Opened(search, node)
    /\ UNCHANGED <<project, callStage, symbols, aliases, callEdges, sccs>>

(* What a neighbour that was seen makes of the lowlink.  Mutant: also one that is off the stack. *)
LowWithAnySeen(s, node, neighbour) == Least(s.low[node], s.indices[neighbour])
LowWith(s, node, neighbour) ==
    IF neighbour \in ToSet(s.stack) THEN Least(s.low[node], s.indices[neighbour]) ELSE s.low[node]

(* One turn of the loop over the neighbours of the node that is open.       *)
MeetNeighbour(neighbour) ==
    /\ callStage = "sccs" /\ search.open # << >>
    /\ LET node == Last(search.open) IN
       /\ neighbour \in search.left[node]
       /\ search' = IF neighbour \notin DOMAIN search.indices THEN Opened(Passed(search, neighbour), neighbour)
                    ELSE [Passed(search, neighbour) EXCEPT !.low[node] = LowWith(search, node, neighbour)]
    /\ UNCHANGED <<project, callStage, symbols, aliases, callEdges, sccs>>

(* strongconnect returns, its caller takes over the lowlink.                *)
CloseNode ==
    /\ callStage = "sccs" /\ search.open # << >> /\ search.left[Last(search.open)] = {}
    /\ LET node == Last(search.open)
           outer == Front(search.open)
           depth == CHOOSE i \in DOMAIN search.stack : search.stack[i] = node
           root == search.low[node] = search.indices[node]
           scc == ToSet(SubSeq(search.stack, depth, Len(search.stack)))
       IN /\ search' = [search EXCEPT !.open = outer,
                                      !.stack = IF root THEN SubSeq(@, 1, depth - 1) ELSE @,
                                      !.low = IF outer = << >> THEN @
                                              ELSE [search.low EXCEPT ![Last(outer)] = Least(@, search.low[node])]]
          /\ sccs' = IF root /\ (Cardinality(scc) > 1 \/ node \in Callees(node)) THEN sccs \cup {scc} ELSE sccs
    /\ UNCHANGED <<project, callStage, symbols, aliases, callEdges>>

Searched ==
    /\ callStage = "sccs" /\ search.open = << >> /\ CallNodes \subseteq DOMAIN search.indices
    /\ callStage' = "done"
    /\ UNCHANGED <<project, symbols, aliases, callEdges, search, sccs>>

GraphNext ==
    \/ AddDynamic \/ IndexSymbols \/ ResolveImports \/ ExtractCalls \/ CloseNode \/ Searched
    \/ \E q \in CallNodes : OpenRoot(q) \/ MeetNeighbour(q)

GraphSpec == GraphInit /\ [][GraphNext]_graphVars

-----------------------------------------------------------------------------
(* compute_reachability, asked of the graph that is done                    *)

EntryNames == UNION {{Append(d.module, f) : f \in d.entries} : d \in ToSet(DocumentsInOrder)}

(* What the text of a qualified name holds of a sink's.                     *)
Names(q, sink) ==
    \E i \in 0..(Len(q) - Len(sink)) : \A k \in DOMAIN sink : q[i + k] = sink[k] \/ <<q[i + k], sink[k]>> \in PartHolds

(* Everything that a search from a set of names comes to.                   *)
Closure(names) ==
    LET grown[n \in 0..Cardinality(CallNodes)] ==
            IF n = 0 THEN names ELSE LET s == grown[n - 1] IN s \cup {e[2] : e \in {e \in callEdges : e[1] \in s}}
    IN grown[Cardinality(CallNodes)]
Reaches(entry, sink) == \E q \in Closure({entry}) : Names(q, sink)

-----------------------------------------------------------------------------
(* Properties                                                               *)

GraphTypeOK ==
    /\ project \in Projects
    /\ callStage \in {"dynamic", "index", "resolve", "extract", "sccs", "done"}
    /\ \A e \in callEdges : Len(e[1]) > 0 /\ Len(e[2]) > 0
    /\ DOMAIN search.low = DOMAIN search.indices /\ DOMAIN search.left = DOMAIN search.indices
    /\ ToSet(search.stack) \subseteq DOMAIN search.indices /\ IsInjective(search.stack)

\* Whatever the order in which the sets are walked, the cycles that are reported are the
\* strongly connected components of the call edges that have a cycle.
CyclesRight ==
    callStage = "done" =>
        sccs = {c \in {{r \in Closure(Callees(q)) : q \in Closure(Callees(r))} : q \in CallNodes} : c # {}}

\* An entry point that is reported to reach a sink has the sink in its own name, or its
\* name is also that of a module: no path from a function to what it calls is ever found,
\* because every edge begins at a module.  The dynamic targets are not found either: the
\* edges are cleared when the documents are analyzed.
ReachExplained ==
    callStage = "done" =>
        /\ \A e \in EntryNames, s \in Sinks :
              Reaches(e, s) => Names(e, s) \/ e \in {d.module : d \in ToSet(DocumentsInOrder)}
        /\ \A d \in Dynamic : <<<<d[1]>>, d[2]>> \notin callEdges
=============================================================================
