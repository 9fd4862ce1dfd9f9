--------------------------- MODULE MCTaintVisitor ---------------------------
EXTENDS TaintVisitor

Name(a)      == [how |-> "concat", of |-> <<a>>]
Concat(a, b) == [how |-> "concat", of |-> <<a, b>>]
Build(a, b)  == [how |-> "build", of |-> <<a, b>>]

AssignTo(v, e)   == [op |-> "assign", to |-> v, from |-> e]
AugmentBy(v, e)  == [op |-> "augment", to |-> v, from |-> e]
Sanitized(v, w, c) == [op |-> "sanitize", to |-> v, of |-> w, context |-> c]
SinkOf(v)        == [op |-> "sink", arg |-> Name(v)]
ForIn(v, e)      == [op |-> "for", to |-> v, from |-> e]
Word(w)          == [op |-> w]

Function(f, body) == [name |-> f, body |-> body]

(* The simple statements on two variables.                                  *)
Copies  == {AssignTo(v, Name(a)) : v \in Vars, a \in Vars \union {"source", "const"}}
Joins   == {AssignTo("y", Concat("x", "source")), AssignTo("x", Concat("x", "y")),
            AssignTo("y", Build("x", "y")), AssignTo("x", Build("y", "x"))}
Changes == {AugmentBy("y", Name(a)) : a \in {"x", "source", "const"}}
           \union {Sanitized("x", "x", c) : c \in Contexts}
           \union {Sanitized("y", "x", c) : c \in Contexts}
Simple  == Copies \union Joins \union Changes
Some    == Copies \union {AssignTo("y", Build("x", "y")), Sanitized("y", "x", "right")}
Few     == {AssignTo("x", Name("source")), AssignTo("y", Name("source")), AssignTo("y", Name("x")),
            AssignTo("y", Name("const"))}

(* Three statements; branches, one in the other, one statement after them;  *)
(* a loop; a branch in one.                                                 *)
StraightBodies == {<<a, b, c, SinkOf("y")>> : a, b \in Simple, c \in Few}
BranchBodies   == {<<a, Word("if"), b, Word("else"), c, SinkOf("x"), Word("end"), SinkOf("y")>> :
                      a \in Few, b, c \in Simple}
NestedBodies   == {<<a, Word("if"), Word("if"), b, Word("else"), c, Word("end"), Word("else"), d,
                     Word("end"), SinkOf("y")>> : a, b \in Some, c, d \in Few}
JoinedBodies   == {<<a, Word("if"), b, Word("else"), c, Word("end"), d, SinkOf("y")>> :
                      a, b, c \in Few, d \in Simple}
LoopBodies     == {<<a, ForIn("x", Name(u)), b, c, SinkOf("y"), Word("end"), SinkOf("x")>> :
                      a \in Some, b \in Few, c \in Simple, u \in Vars \union {"source"}}
LoopedBranches == {<<a, ForIn("x", Name("y")), Word("if"), b, Word("else"), c, Word("end"),
                     SinkOf("x"), Word("end"), SinkOf("y")>> : a, b \in Some, c \in Few}

(* What may be tainted after a branch, and a sanitizer in one of another.   *)
MarkedBodies   == {<<AssignTo("x", Name("source")), AssignTo("x", Name("const")), Word("if"), b, Word("else"), c,
                     Word("end"), Word("if"), d, Word("else"), e, Word("end"), SinkOf("x")>> :
                      b, c \in Copies, d, e \in {Sanitized("x", "x", k) : k \in Contexts}
                                            \union {AssignTo("y", Name("x")), AssignTo("x", Name("const"))}}

OneFunction == {<<Function("f", body)>> : body \in StraightBodies \union BranchBodies
                           \union NestedBodies \union MarkedBodies \union JoinedBodies \union LoopBodies \union LoopedBranches}

(* Two files with a function each, of the same name or not.                 *)
Short == {<<a, b, SinkOf("y")>> : a, b \in Few}
TwoFiles == {<<Function("f", a), Function(g, b)>> : a, b \in Short, g \in {"f", "g"}}

(* As a domain, which TLC keeps in order and need not walk to find a member.  *)
AllInOrder  == DOMAIN [p \in {<<>>} \union OneFunction \union TwoFiles |-> TRUE]
AllPrograms == AllInOrder
=============================================================================
