----------------------------- MODULE DataflowGraph -----------------------------
(***************************************************************************)
(* AdvancedDataflowEngine (domain/taint/advanced_engine.py): a second pass *)
(* over a document, which builds a graph of values, statement by           *)
(* statement in the order of the text, and looks for the shortest path     *)
(* from every source to every sink.  Beside it runs what the statements    *)
(* really do: `origins' holds the sources of which a variable holds raw    *)
(* input.  The variables are local to the functions; branches, which the   *)
(* engine reads like the rest, and calls of the document's own functions,  *)
(* whose arguments it links to nodes that nothing leaves, are left out.    *)
(***************************************************************************)
EXTENDS Naturals, FiniteSets, Sequences, SequencesExt

CONSTANTS Variables,      \* of the analysed functions
          Statements,     \* what a line may hold
          MaxStatements   \* bound: lines of the document

(* An expression joins its operands (a name, a concatenation, an f-string, a call) or
   cleans them (a call of a sanitizer).                                     *)
Operands == Variables \cup {"source", "const"}
Expressions == [how : {"join", "clean"}, of : Seq(Operands)]
StatementShapes == [op : {"assign"}, to : Variables, from : Expressions]
                   \cup [op : {"sink"}, args : Seq(Expressions)]
                   \cup [op : {"def"}, params : SUBSET Variables]

ASSUME DataflowGraphAssumption ==
    MaxStatements \in Nat /\ Statements \subseteq StatementShapes /\ Variables \cap {"source", "const"} = {}

VARIABLES linesRead, \* the lines read so far
          nodeOf,    \* var_node_map
          flowGraph, \* the edges
          ends,      \* the source and sink nodes
          flows,     \* what _evaluate_flows returned
          evaluated,
          origins,   \* variable -> lines of the sources that it may hold, raw
          truly,     \* <<source, sink>> that raw input really connects
          dropped,   \* sources that were in an operand the engine passed over
          stale,     \* variables whose node tells of a value they no longer hold
          misled     \* sinks that took such a variable

dataflowVars == <<linesRead, nodeOf, flowGraph, ends, flows, evaluated, origins, truly, dropped, stale, misled>>

NoNode == << >>
Here == linesRead + 1

DataflowInit ==
    /\ linesRead = 0 /\ nodeOf = [v \in Variables |-> NoNode] /\ flowGraph = {} /\ ends = {}
    /\ flows = {} /\ evaluated = FALSE
    /\ origins = [v \in Variables |-> {}] /\ truly = {} /\ dropped = {} /\ stale = {} /\ misled = {}

-----------------------------------------------------------------------------
(* _process_expr                                                            *)

NodeOf(operand) ==
    CASE operand = "source" -> <<"source", Here>>
      [] operand = "const" -> NoNode
      [] OTHER -> nodeOf[operand]
KnownOperands(e) == {n \in DOMAIN e.of : NodeOf(e.of[n]) # NoNode}
FirstKnown(e) == e.of[Min(KnownOperands(e))]

(* What is joined is its first operand with a node.                         *)
ExprNode(e) ==
    IF e.how = "clean" THEN <<"sanitizer", Here>>
    ELSE IF KnownOperands(e) = {} THEN NoNode ELSE NodeOf(FirstKnown(e))
ExprEdges(e) ==
    IF e.how = "join" THEN {} ELSE {<<NodeOf(e.of[n]), <<"sanitizer", Here>>>> : n \in KnownOperands(e)}
SourcesIn(e) == IF "source" \in ToSet(e.of) THEN {<<"source", Here>>} ELSE {}

(* What it really holds, what of that the engine passes over, and what stale nodes it takes. *)
OriginsOf(o) == IF o = "source" THEN {Here} ELSE IF o = "const" THEN {} ELSE origins[o]
Holds(e) == IF e.how = "clean" THEN {} ELSE UNION {OriginsOf(o) : o \in ToSet(e.of)}
PassedOver(e) == IF e.how = "clean" \/ KnownOperands(e) = {} THEN {}
                 ELSE UNION {OriginsOf(e.of[n]) : n \in KnownOperands(e) \ {Min(KnownOperands(e))}}

-----------------------------------------------------------------------------
(* visit_Assign: what has no node leaves the variable with the one it had.  *)
MapAfter(v, node) == IF node = NoNode THEN nodeOf ELSE [nodeOf EXCEPT ![v] = <<"line", Here, v>>]

(* generic_visit comes to a sanitizer in the expression when the variable has its new node: what
   it cleans in place is linked to it once more.                            *)
EdgesAgain(s, node) ==
    IF s.from.how = "join" \/ s.to \notin ToSet(s.from.of) THEN {}
    ELSE {<<MapAfter(s.to, node)[s.to], <<"sanitizer", Here>>>>}

VisitAssign(s) ==
    LET node == ExprNode(s.from)
        fromStale == \E o \in ToSet(s.from.of) \cap stale : NodeOf(o) = node \/ s.from.how = "clean"
    IN /\ s.op = "assign"
       /\ flowGraph' = flowGraph \cup ExprEdges(s.from) \cup EdgesAgain(s, node)
                       \cup (IF node = NoNode THEN {} ELSE {<<node, <<"line", Here, s.to>>>>})
       /\ nodeOf' = MapAfter(s.to, node)
       /\ ends' = ends \cup SourcesIn(s.from)
       /\ origins' = [origins EXCEPT ![s.to] = Holds(s.from)]
       /\ dropped' = dropped \cup PassedOver(s.from)
       /\ stale' = IF fromStale \/ (node = NoNode /\ nodeOf[s.to] # NoNode) THEN stale \cup {s.to} ELSE stale \ {s.to}
       /\ UNCHANGED <<truly, misled>>

(* visit_Call of a sink: every argument is linked to it.                    *)
VisitSink(s) ==
    LET sink == <<"sink", Here>>
        nodes == {ExprNode(e) : e \in ToSet(s.args)} \ {NoNode}
    IN /\ s.op = "sink"
       /\ flowGraph' = flowGraph \cup {<<n, sink>> : n \in nodes} \cup UNION {ExprEdges(e) : e \in ToSet(s.args)}
       /\ ends' = ends \cup {sink} \cup UNION {SourcesIn(e) : e \in ToSet(s.args)}
       /\ truly' = truly \cup {<<o, Here>> : o \in UNION {Holds(e) : e \in ToSet(s.args)}}
       /\ dropped' = dropped \cup UNION {PassedOver(e) : e \in ToSet(s.args)}
       /\ misled' = IF \E e \in ToSet(s.args) : ToSet(e.of) \cap stale # {} THEN misled \cup {Here} ELSE misled
       /\ UNCHANGED <<nodeOf, origins, stale>>

(* visit_FunctionDef: the parameters get nodes; the variables of other functions keep theirs. *)
VisitDef(s) ==
    /\ s.op = "def"
    /\ nodeOf' = [v \in Variables |-> IF v \in s.params THEN <<"param", Here, v>> ELSE nodeOf[v]]
    /\ origins' = [v \in Variables |-> {}]
    /\ stale' = {v \in Variables \ s.params : nodeOf[v] # NoNode}
    /\ UNCHANGED <<flowGraph, ends, truly, dropped, misled>>

Visit(s) ==
    /\ linesRead < MaxStatements /\ ~evaluated
    /\ linesRead' = Here /\ UNCHANGED <<flows, evaluated>>
    /\ VisitAssign(s) \/ VisitSink(s) \/ VisitDef(s)

-----------------------------------------------------------------------------
(* _evaluate_flows                                                          *)

(* The paths from a node, by their length.                                  *)
Routes(start) ==
    LET routes[n \in 0..Cardinality(flowGraph)] ==
            IF n = 0 THEN {<<start>>}
            ELSE LET shorter == routes[n - 1]
                 IN {Append(p[1], p[2][2]) : p \in {q \in shorter \X flowGraph : Last(q[1]) = q[2][1]}}
    IN routes
Ways(source, sink) == UNION {{r \in Routes(source)[n] : Last(r) = sink} : n \in 0..Cardinality(flowGraph)}

(* _find_path: of several shortest paths the one whose edges came first; here any.
   Mutant: any path.                                                        *)
AnyPaths(source, sink) == Ways(source, sink)
ShortestPaths(source, sink) == {r \in Ways(source, sink) : \A w \in Ways(source, sink) : Len(r) <= Len(w)}

(* _build_taint_flow: a sanitizer on the path, of whatever category, makes the flow NOT_EXPLOITABLE. *)
PassesSanitizer(path) == \E i \in DOMAIN path : path[i][1] = "sanitizer"
Pairs == {p \in ends \X ends : p[1][1] = "source" /\ p[2][1] = "sink" /\ ShortestPaths(p[1], p[2]) # {}}

EvaluateFlows ==
    /\ ~evaluated /\ evaluated' = TRUE
    /\ \E path \in [Pairs -> UNION {ShortestPaths(p[1], p[2]) : p \in Pairs}] :
          /\ \A p \in Pairs : path[p] \in ShortestPaths(p[1], p[2])
          /\ flows' = {[from |-> p[1][2], to |-> p[2][2], exploitable |-> ~PassesSanitizer(path[p])] : p \in Pairs}
    /\ UNCHANGED <<linesRead, nodeOf, flowGraph, ends, origins, truly, dropped, stale, misled>>

DataflowNext == EvaluateFlows \/ \E s \in Statements : Visit(s)

DataflowSpec == DataflowInit /\ [][DataflowNext]_dataflowVars

-----------------------------------------------------------------------------
(* Properties                                                               *)

DataflowTypeOK ==
    /\ linesRead \in 0..MaxStatements
    /\ \A v \in Variables : nodeOf[v] = NoNode => v \notin stale /\ origins[v] = {}
    /\ \A e \in flowGraph : NoNode \notin {e[1], e[2]} /\ e[1][1] # "sink"
    /\ \A n \in ends : n[1] \in {"source", "sink"} /\ n[2] \in 1..linesRead

\* Raw input that really reaches a sink is reported, unless the engine passed over an operand
\* that held it; and it is reported as exploitable, unless a way through a sanitizer is as
\* short as every raw one.  What is reported as exploitable really is, unless the sink took a
\* variable that had lost that value to a constant, or had it in another function.
DataflowTells ==
    evaluated =>
        /\ \A t \in truly : t[1] \in dropped \/ \E f \in flows :
              /\ f.from = t[1] /\ f.to = t[2]
              /\ LET ways == Ways(<<"source", t[1]>>, <<"sink", t[2]>>) IN
                 f.exploitable \/ \E w \in ways : PassesSanitizer(w) /\ \A r \in ways : Len(r) < Len(w) => PassesSanitizer(r)
        /\ \A f \in flows : f.exploitable => <<f.from, f.to>> \in truly \/ f.to \in misled
=============================================================================
