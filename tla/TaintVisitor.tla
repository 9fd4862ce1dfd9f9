---------------------------- MODULE TaintVisitor ----------------------------
(***************************************************************************)
(* ModuleTaintVisitor (domain/taint/engine.py): the pass over a function    *)
(* that reports the calls of dangerous functions, the sinks, which          *)
(* untrusted input reaches.  Beside what the visitor knows of the           *)
(* variables runs what the analysed code may really do: `reals' holds every *)
(* set of variables that may be raw, that is hold unsanitized input, when   *)
(* an execution is where the visitor is.  An execution may stop a loop      *)
(* after any round; it is followed for the two rounds the visitor makes.    *)
(*                                                                         *)
(* A program is a sequence of functions, each in a document of its own; a   *)
(* body is a sequence of instructions in which "if", "else" and "for" are   *)
(* closed by "end".  An expression is a concatenation (one operand: a name) *)
(* or it builds a value from parts: an f-string, a container, the arguments *)
(* of a call.  The sinks are of one category, one that the second engine of *)
(* analyze_document does not know; that engine only adds flows.             *)
(***************************************************************************)
EXTENDS Naturals, Sequences, SequencesExt

CONSTANTS Vars,      \* the variables of the analysed functions
          Programs   \* the programs that may be analysed

VARIABLES program,   \* the functions, document by document
          doc, pc,   \* where the visitor is
          seen,      \* visited_functions: the names of the functions met so far
          watching,  \* the visitor is inside this function; if not it skipped it
          varMap,    \* var_map
          stack,     \* the branches and loops around the instruction
          reported,  \* discovered_flows: the sinks
          reals,     \* what the variables may really hold
          reached,   \* the sinks that raw input really reaches
          shortcuts  \* what the visitor did that lets it lose track

vars == <<program, doc, pc, seen, watching, varMap, stack, reported, reals, reached, shortcuts>>

-----------------------------------------------------------------------------
(* VariableTaintRecord, without the path that leads to it.                  *)
States   == {"NONE", "CLEAN", "TAINTED", "SANITIZED", "MAYBE_TAINTED"}
Contexts == {"right", "other"}     \* what the sinks require, and anything else
Rec      == [state : States, sanitizers : SUBSET Contexts]
None     == [state |-> "NONE", sanitizers |-> {}]
Clean    == [state |-> "CLEAN", sanitizers |-> {}]
Source   == [state |-> "TAINTED", sanitizers |-> {}]
LiveStates == {"TAINTED", "MAYBE_TAINTED"}
Live(rec)  == rec.state \in LiveStates
StatesOf(m) == [v \in Vars |-> m[v].state]

Atoms == Vars \union {"source", "const"}
Exprs == [how : {"concat", "build"}, of : Seq(Atoms)]

Instructions ==
    [op : {"assign", "augment"}, to : Vars, from : Exprs]
    \union [op : {"sanitize"}, to : Vars, of : Vars, context : Contexts]
    \union [op : {"sink"}, arg : Exprs]
    \union [op : {"for"}, to : Vars, from : Exprs]
    \union [op : {"if", "else", "end"}]

Documents == [name : STRING, body : Seq(Instructions)]

ASSUME ProgramsAssumption ==
    /\ Programs \subseteq Seq(Documents)
    /\ Vars \intersect {"source", "const"} = {}

-----------------------------------------------------------------------------
(* _evaluate_expression_taint: a concatenation is its first operand with a  *)
(* record, whatever it says; what is built of parts is its first live part. *)
Known(m, a) == IF a = "source" THEN Source ELSE IF a = "const" THEN None ELSE m[a]

(* Mutant: of what is built only the first part is looked at.               *)
ValueFirst(m, e) ==
    IF e.of = <<>> THEN None
    ELSE LET val == Known(m, e.of[1])
         IN  IF e.how = "concat" \/ Live(val) THEN val ELSE None

Value(m, e) ==
    LET Counts(i) == IF e.how = "concat" THEN Known(m, e.of[i]) # None ELSE Live(Known(m, e.of[i]))
        hits      == {i \in DOMAIN e.of : Counts(i)}
    IN  IF hits = {} THEN None
        ELSE Known(m, e.of[CHOOSE i \in hits : \A j \in hits : i <= j])

(* What it really is.                                                       *)
Raw(r, e) == \E i \in DOMAIN e.of : e.of[i] = "source" \/ e.of[i] \in r

SetRaw(r, v, isRaw) == IF isRaw THEN r \union {v} ELSE r \ {v}

(* A concatenation with a live operand that does not come out live.         *)
Masked(m, e) == /\ e.how = "concat"
                /\ \E i \in DOMAIN e.of : Live(Known(m, e.of[i]))
                /\ ~Live(Value(m, e))

(* Mutants: what may be tainted is taken for clean; a clean value changes    *)
(* nothing.                                                                 *)
AssignedSurely(m, x, val) ==
    [m EXCEPT ![x] = IF val.state \in {"TAINTED", "SANITIZED"} THEN val
                     ELSE IF m[x] = None THEN None ELSE Clean]

AssignedGrows(m, x, val) ==
    IF Live(val) \/ val.state = "SANITIZED" THEN [m EXCEPT ![x] = val] ELSE m

Assigned(m, x, val) ==
    [m EXCEPT ![x] = IF Live(val) \/ val.state = "SANITIZED" THEN val
                     ELSE IF m[x] = None THEN None ELSE Clean]

Augmented(m, x, val) ==
    IF val.state = "TAINTED" THEN [m EXCEPT ![x] = val]
    ELSE m

(* Mutant: an argument without a record is marked as well.                  *)
MarkedAny(m, y, context) ==
    [m EXCEPT ![y] = [state |-> IF @.state = "TAINTED" THEN "SANITIZED" ELSE @.state,
                      sanitizers |-> @.sanitizers \union {context}]]

(* The call of a sanitizer marks its argument, not what it returns.         *)
Marked(m, y, context) ==
    [m EXCEPT ![y] = IF m[y] = None THEN None
                     ELSE [state |-> IF @.state = "TAINTED" THEN "SANITIZED" ELSE @.state,
                           sanitizers |-> @.sanitizers \union {context}]]

-----------------------------------------------------------------------------
Body  == program[doc].body
At(op) == doc <= Len(program) /\ pc \in DOMAIN Body /\ Body[pc].op = op

Init == /\ program \in Programs
        /\ doc = 1 /\ pc = 0
        /\ seen = {} /\ watching = TRUE
        /\ varMap = [v \in Vars |-> None]
        /\ stack = <<>>
        /\ reported = {} /\ reached = {}
        /\ reals = {{}}
        /\ shortcuts = {}

Advance      == pc' = pc + 1 /\ UNCHANGED <<program, doc, seen, watching>>
Learn(m)     == varMap' = IF watching THEN m ELSE varMap
TakeIf(c, s) == shortcuts' = shortcuts \union (IF c THEN {s} ELSE {})

(* visit_FunctionDef: a name that was met before is not looked into.        *)
Enter == /\ doc <= Len(program) /\ pc = 0
         /\ pc' = 1
         /\ seen' = seen \union {program[doc].name}
         /\ watching' = (program[doc].name \notin seen)
         /\ varMap' = [v \in Vars |-> None]
         /\ stack' = <<>>
         /\ reals' = {{}}
         /\ TakeIf(program[doc].name \in seen, "name")
         /\ UNCHANGED <<program, doc, reported, reached>>

Leave == /\ doc <= Len(program) /\ pc > Len(Body)
         /\ doc' = doc + 1 /\ pc' = 0
         /\ UNCHANGED <<program, seen, watching, varMap, stack, reported, reals, reached, shortcuts>>

Assign == /\ At("assign")
          /\ LET i == Body[pc] IN
             /\ Learn(Assigned(varMap, i.to, Value(varMap, i.from)))
             /\ reals' = {SetRaw(r, i.to, Raw(r, i.from)) : r \in reals}
             /\ TakeIf(Masked(varMap, i.from), "concat")
          /\ Advance
          /\ UNCHANGED <<stack, reported, reached>>

Augment == /\ At("augment")
           /\ LET i == Body[pc]
                  val == Value(varMap, i.from)
              IN
              /\ Learn(Augmented(varMap, i.to, val))
              /\ reals' = {SetRaw(r, i.to, i.to \in r \/ Raw(r, i.from)) : r \in reals}
              /\ TakeIf(\/ Masked(varMap, i.from)
                        \/ Live(val) /\ ~Live(Augmented(varMap, i.to, val)[i.to]), "augment")
           /\ Advance
           /\ UNCHANGED <<stack, reported, reached>>

(* x = f(y), where f is a sanitizer.                                        *)
Sanitize == /\ At("sanitize")
            /\ LET i == Body[pc]
                   marked == Marked(varMap, i.of, i.context)
                   m == Assigned(marked, i.to, Value(marked, [how |-> "build", of |-> <<i.of>>]))
               IN
               /\ Learn(m)
               /\ reals' = {SetRaw(r, i.to, i.of \in r /\ i.context = "other") : r \in reals}
               /\ TakeIf(/\ varMap[i.of] # None
                         /\ i.context = "other" \/ m[i.of].sanitizers # {}, "sanitizer")
            /\ Advance
            /\ UNCHANGED <<stack, reported, reached>>

(* _check_sink_call; is_sanitized of the flow.                              *)
Sink == /\ At("sink")
        /\ LET val == Value(varMap, Body[pc].arg) IN
           /\ reported' = IF watching /\ Live(val) /\ "right" \notin val.sanitizers
                          THEN reported \union {<<doc, pc>>} ELSE reported
           /\ TakeIf(Masked(varMap, Body[pc].arg), "concat")
        /\ reached' = IF \E r \in reals : Raw(r, Body[pc].arg)
                      THEN reached \union {<<doc, pc>>} ELSE reached
        /\ Advance
        /\ UNCHANGED <<varMap, stack, reals>>

-----------------------------------------------------------------------------
(* visit_If.  What a variable was before the branches is restored for the   *)
(* second one, its state only.                                              *)
Restored(m, before) ==
    [v \in Vars |-> IF before[v] = "NONE" THEN m[v] ELSE [m[v] EXCEPT !.state = before[v]]]

Merged(m, then) ==
    LET Differs(v) == /\ then[v] # m[v].state
                      /\ "TAINTED" \in {then[v], m[v].state}
    IN  [v \in Vars |-> IF Differs(v) THEN [m[v] EXCEPT !.state = "MAYBE_TAINTED"] ELSE m[v]]

Top  == Last(stack)
Loses(before, m) == \E v \in Vars : before[v] \in LiveStates /\ ~Live(m[v])

If == /\ At("if")
      /\ stack' = Append(stack, [kind |-> "then", states |-> StatesOf(varMap), others |-> reals])
      /\ Advance
      /\ UNCHANGED <<varMap, reported, reals, reached, shortcuts>>

Else == /\ At("else") /\ stack # <<>> /\ Top.kind = "then"
        /\ stack' = Append(Front(stack),
                           [kind |-> "else", states |-> StatesOf(varMap), others |-> reals])
        /\ Learn(Restored(varMap, Top.states))
        /\ reals' = Top.others
        /\ Advance
        /\ UNCHANGED <<reported, reached, shortcuts>>

EndIf == /\ At("end") /\ stack # <<>> /\ Top.kind = "else"
         /\ LET m == Merged(varMap, Top.states) IN
            /\ Learn(m)
            /\ TakeIf(Loses(Top.states, m), "branch")
         /\ reals' = Top.others \union reals
         /\ stack' = Front(stack)
         /\ Advance
         /\ UNCHANGED <<reported, reached>>

(* visit_For: the loop variable is bound once and the body visited twice.   *)
(* A real loop binds it every time and may stop after any of the rounds.    *)
For == /\ At("for")
       /\ LET i   == Body[pc]
              val == Value(varMap, i.from)
              m   == IF Live(val) THEN [varMap EXCEPT ![i.to] = val] ELSE varMap
              raw == \E r \in reals : Raw(r, i.from)
          IN
          /\ Learn(m)
          /\ stack' = Append(stack, [kind |-> "first", states |-> StatesOf(m), others |-> reals,
                                     body |-> pc, to |-> i.to, raw |-> raw])
          /\ reals' = {SetRaw(r, i.to, Raw(r, i.from)) : r \in reals}
          /\ TakeIf(Masked(varMap, i.from), "concat")
       /\ Advance
       /\ UNCHANGED <<reported, reached>>

(* Mutant: the body is visited until it teaches nothing new, which it never  *)
(* checks.                                                                  *)
AgainAndAgain == /\ At("end") /\ stack # <<>> /\ Top.kind = "first"
                 /\ pc' = Top.body + 1
                 /\ UNCHANGED <<program, doc, seen, watching, varMap, stack, reported, reals,
                                reached, shortcuts>>

Again == /\ At("end") /\ stack # <<>> /\ Top.kind = "first"
         /\ TakeIf(Loses(Top.states, varMap), "loop")
         /\ stack' = Append(Front(stack), [Top EXCEPT !.kind = "second", !.states = StatesOf(varMap),
                                                      !.others = @ \union reals])
         /\ reals' = {SetRaw(r, Top.to, Top.raw) : r \in reals}
                     \union {SetRaw(r, Top.to, FALSE) : r \in reals}
         /\ pc' = Top.body + 1
         /\ UNCHANGED <<program, doc, seen, watching, varMap, reported, reached>>

EndFor == /\ At("end") /\ stack # <<>> /\ Top.kind = "second"
          /\ TakeIf(Loses(Top.states, varMap), "loop")
          /\ reals' = Top.others \union reals
          /\ stack' = Front(stack)
          /\ Advance
          /\ UNCHANGED <<varMap, reported, reached>>

Finished == doc > Len(program) /\ UNCHANGED vars

Statement == Assign \/ Augment \/ Sanitize \/ Sink
Branch    == If \/ Else \/ EndIf
Loop      == For \/ Again \/ EndFor
Next == Enter \/ Leave \/ Statement \/ Branch \/ Loop \/ Finished
Spec == Init /\ [][Next]_vars
FairSpec == Spec /\ WF_vars(Next)

-----------------------------------------------------------------------------
Frames ==
    [kind : {"then", "else"}, states : [Vars -> States], others : SUBSET SUBSET Vars]
    \union [kind : {"first", "second"}, states : [Vars -> States], others : SUBSET SUBSET Vars,
            body : Nat, to : Vars, raw : BOOLEAN]

WellFormed(m) == \A v \in Vars : m[v].state = "NONE" => m[v] = None

(* A variable without a record has no sanitizers: no branch takes the record *)
(* of a variable away from it.                                              *)
TypeOK ==
    /\ program \in Programs
    /\ doc \in Nat \ {0} /\ pc \in Nat
    /\ watching \in BOOLEAN
    /\ varMap \in [Vars -> Rec] /\ WellFormed(varMap)
    /\ stack \in Seq(Frames)
    /\ reals \subseteq SUBSET Vars
    /\ reported \subseteq Nat \X Nat /\ reached \subseteq Nat \X Nat

(* Raw input that reaches a sink is reported, whatever branches it goes      *)
(* through, unless the visitor took one of these shortcuts on the way: it    *)
(* skipped a function whose name it had met ("name"), believed the left      *)
(* operand of a concatenation ("concat"), added what may be tainted to a     *)
(* variable ("augment"), believed another context's sanitizer or left its    *)
(* mark on the argument ("sanitizer"), forgot a branch ("branch") or took    *)
(* what the last round of a loop clears for clean after it ("loop").         *)
NoSilentMiss == shortcuts = {} => reached \subseteq reported

(* The same without the exception, which is what the documentation promises. *)
NoMissedFlow == reached \subseteq reported

(* Without branches and loops the visitor raises no false alarm.            *)
Straight == \A d \in DOMAIN program : \A i \in DOMAIN program[d].body :
                program[d].body[i].op \notin {"if", "for"}
NoFalseAlarm == Straight => reported \subseteq reached

(* The pass ends: no loop is visited for ever.                              *)
EveryAnalysisEnds == <>(doc > Len(program))
=============================================================================
