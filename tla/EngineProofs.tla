----------------------------- MODULE EngineProofs -----------------------------
(***************************************************************************)
(* Proofs about the engines that follow values, calls and attack paths, for *)
(* programs and graphs of any size: TaintVisitor, that type correctness     *)
(* holds, the visitor misses no flow silently and raises no false alarm in  *)
(* straight code; DataflowGraph, that its report tells of what really flows;*)
(* CallGraphs, that the components of Tarjan's search are the cycles of the *)
(* calls; ProgramFlows, that the flows that are told are those there are;   *)
(* AttackPaths, that a simulated repair tells of every pair that is left.   *)
(***************************************************************************)
EXTENDS TaintVisitor, DataflowGraph, CallGraphs, ProgramFlows, AttackPaths, QueueLemmas, SequenceTheorems,
        WellFoundedInduction, TLAPS

-----------------------------------------------------------------------------
(* The taint visitor.                                                       *)

Maps == [Vars -> Rec]

-----------------------------------------------------------------------------
(* The value of an expression is the record of one of its operands.         *)
LEMMA FirstOf ==
  ASSUME NEW hits \in SUBSET Nat, hits # {}
  PROVE  (CHOOSE i \in hits : \A j \in hits : i <= j) \in hits
<1>1. PICK m \in hits : \A k \in hits : <<k, m>> \notin OpToRel(<, Nat)
  BY WFMin, NatLessThanWellFounded, Zenon
<1>2. \A k \in hits : ~(k < m)
  BY <1>1, Zenon DEF OpToRel
<1>3. \A k \in hits : m <= k
  BY <1>2
<1> QED
  BY <1>3

Counting(m, e) ==
    {i \in DOMAIN e.of : IF e.how = "concat" THEN Known(m, e.of[i]) # None
                                             ELSE Live(Known(m, e.of[i]))}

LEMMA ValueIsKnown ==
  ASSUME NEW m, NEW e \in Exprs
  PROVE  \/ Value(m, e) = None /\ Counting(m, e) = {}
         \/ \E i \in Counting(m, e) : Value(m, e) = Known(m, e.of[i])
<1> DEFINE hits == Counting(m, e)
           first == CHOOSE i \in hits : \A j \in hits : i <= j
<1>1. Value(m, e) = IF hits = {} THEN None ELSE Known(m, e.of[first])
  BY Zenon DEF Value, Counting
<1>2. hits \in SUBSET Nat
  <2>1. e.of \in Seq(Atoms)
    BY DEF Exprs
  <2>2. DOMAIN e.of \subseteq Nat
    BY <2>1
  <2> QED
    BY <2>2 DEF Counting
<1>3. CASE hits = {}
  BY <1>1, <1>3
<1>4. CASE hits # {}
  <2>1. first \in hits
    BY <1>2, <1>4, FirstOf, Zenon
  <2> QED
    BY <1>1, <1>4, <2>1, Zenon
<1> QED
  BY <1>3, <1>4

LEMMA KnownType ==
  ASSUME NEW m \in Maps, NEW a \in Atoms
  PROVE  Known(m, a) \in Rec
BY DEF Known, Maps, Atoms, Rec, Source, None, States, Contexts

LEMMA ValueType ==
  ASSUME NEW m \in Maps, NEW e \in Exprs
  PROVE  Value(m, e) \in Rec
<1>1. \A i \in DOMAIN e.of : e.of[i] \in Atoms
  BY DEF Exprs
<1>2. None \in Rec
  BY DEF None, Rec, States
<1>3. \A i \in Counting(m, e) : i \in DOMAIN e.of
  BY DEF Counting
<1> QED
  BY <1>1, <1>2, <1>3, KnownType, ValueIsKnown

(* A live operand makes a live value, unless a concatenation masks it.      *)
LEMMA ValueLive ==
  ASSUME NEW m, NEW e \in Exprs, ~Masked(m, e),
         NEW i \in DOMAIN e.of, Live(Known(m, e.of[i]))
  PROVE  Live(Value(m, e))
<1>1. e.how \in {"concat", "build"}
  BY DEF Exprs
<1>2. CASE e.how = "concat"
  BY <1>2 DEF Masked
<1>3. CASE e.how = "build"
  <2>1. i \in Counting(m, e)
    BY <1>3 DEF Counting
  <2>2. PICK j \in Counting(m, e) : Value(m, e) = Known(m, e.of[j])
    BY <2>1, ValueIsKnown
  <2> QED
    BY <1>3, <2>2 DEF Counting
<1> QED
  BY <1>1, <1>2, <1>3

-----------------------------------------------------------------------------
(* The operators keep a map a map.                                          *)
GoodMap(m) == m \in Maps /\ WellFormed(m)

LEMMA AssignedGood ==
  ASSUME NEW m, GoodMap(m), NEW x \in Vars, NEW val \in Rec
  PROVE  GoodMap(Assigned(m, x, val))
<1> DEFINE new == IF Live(val) \/ val.state = "SANITIZED" THEN val
                  ELSE IF m[x] = None THEN None ELSE Clean
<1>1. new \in Rec
  BY DEF Rec, None, Clean, States
<1>2. new.state = "NONE" => new = None
  BY DEF Rec, None, Clean, States, Live, LiveStates
<1>3. Assigned(m, x, val) = [m EXCEPT ![x] = new]
  BY DEF Assigned
<1> QED
  BY <1>1, <1>2, <1>3 DEF GoodMap, Maps, WellFormed

LEMMA AugmentedGood ==
  ASSUME NEW m, GoodMap(m), NEW x \in Vars, NEW val \in Rec
  PROVE  GoodMap(Augmented(m, x, val))
BY DEF GoodMap, Maps, WellFormed, Augmented

LEMMA MarkedGood ==
  ASSUME NEW m, GoodMap(m), NEW y \in Vars, NEW c \in Contexts
  PROVE  GoodMap(Marked(m, y, c))
<1> DEFINE new == IF m[y] = None THEN None
                  ELSE [state |-> IF m[y].state = "TAINTED" THEN "SANITIZED" ELSE m[y].state,
                        sanitizers |-> m[y].sanitizers \union {c}]
<1>1. new \in Rec
  BY DEF GoodMap, Maps, Rec, None, States
<1>2. new.state = "NONE" => new = None
  BY DEF GoodMap, WellFormed
<1>3. Marked(m, y, c) = [m EXCEPT ![y] = new]
  BY DEF Marked
<1> QED
  BY <1>1, <1>2, <1>3 DEF GoodMap, Maps, WellFormed

LEMMA RestoredGood ==
  ASSUME NEW m, GoodMap(m), NEW before \in [Vars -> States]
  PROVE  GoodMap(Restored(m, before))
<1> DEFINE new(v) == IF before[v] = "NONE" THEN m[v] ELSE [m[v] EXCEPT !.state = before[v]]
<1>1. \A v \in Vars : new(v) \in Rec /\ (new(v).state = "NONE" => new(v) = None)
  BY DEF GoodMap, Maps, WellFormed, Rec
<1>2. Restored(m, before) = [v \in Vars |-> new(v)]
  BY DEF Restored
<1> QED
  BY <1>1, <1>2 DEF GoodMap, Maps, WellFormed

LEMMA MergedGood ==
  ASSUME NEW m, GoodMap(m), NEW then \in [Vars -> States]
  PROVE  GoodMap(Merged(m, then))
<1> DEFINE differs(v) == then[v] # m[v].state /\ "TAINTED" \in {then[v], m[v].state}
           new(v) == IF differs(v) THEN [m[v] EXCEPT !.state = "MAYBE_TAINTED"] ELSE m[v]
<1>1. \A v \in Vars : new(v) \in Rec /\ (new(v).state = "NONE" => new(v) = None)
  BY DEF GoodMap, Maps, WellFormed, Rec, States
<1>2. Merged(m, then) = [v \in Vars |-> new(v)]
  BY DEF Merged
<1> QED
  BY <1>1, <1>2 DEF GoodMap, Maps, WellFormed

LEMMA StatesOfType ==
  ASSUME NEW m \in Maps
  PROVE  StatesOf(m) \in [Vars -> States]
BY DEF StatesOf, Maps, Rec

LEMMA SetRawType ==
  ASSUME NEW r \in SUBSET Vars, NEW v \in Vars, NEW b
  PROVE  SetRaw(r, v, b) \in SUBSET Vars
BY DEF SetRaw

-----------------------------------------------------------------------------
(* The instruction that the visitor is at.                                  *)
LEMMA InstructionAt ==
  ASSUME TypeOK, NEW op, At(op)
  PROVE  Body[pc] \in Instructions /\ Body[pc].op = op
<1>1. program \in Seq(Documents)
  BY ProgramsAssumption DEF TypeOK
<1>2. doc \in 1 .. Len(program)
  BY <1>1 DEF TypeOK, At
<1>3. program[doc] \in Documents
  BY ONLY <1>1, <1>2, ElementOfSeq
<1>4. program[doc].body \in Seq(Instructions)
  BY ONLY <1>3 DEF Documents
<1> QED
  BY <1>4 DEF At, Body

LEMMA AssignmentAt ==
  ASSUME TypeOK, At("assign") \/ At("augment") \/ At("for")
  PROVE  Body[pc].to \in Vars /\ Body[pc].from \in Exprs
BY InstructionAt DEF Instructions

LEMMA SanitizerAt ==
  ASSUME TypeOK, At("sanitize")
  PROVE  Body[pc].to \in Vars /\ Body[pc].of \in Vars /\ Body[pc].context \in Contexts
BY InstructionAt DEF Instructions

LEMMA SinkAt ==
  ASSUME TypeOK, At("sink")
  PROVE  Body[pc].arg \in Exprs
BY InstructionAt DEF Instructions

LEMMA OfOneType ==
  ASSUME NEW y \in Vars
  PROVE  [how |-> "build", of |-> <<y>>] \in Exprs
BY DEF Exprs, Atoms

-----------------------------------------------------------------------------
(* Type correctness.                                                        *)
LEMMA TopFrame ==
  ASSUME TypeOK, stack # <<>>
  PROVE  Top \in Frames /\ Front(stack) \in Seq(Frames)
<1>1. stack \in Seq(Frames) /\ Len(stack) \in 1 .. Len(stack)
  BY DEF TypeOK
<1>2. Top \in Frames
  BY <1>1, ElementOfSeq DEF Top, Last
<1>3. SubSeq(stack, 1, Len(stack) - 1) \in Seq(Frames)
  BY <1>1, SubSeqProperties
<1> QED
  BY <1>2, <1>3 DEF Front

LEMMA Learned ==
  ASSUME TypeOK, NEW m, GoodMap(m), Learn(m)
  PROVE  GoodMap(varMap')
BY DEF TypeOK, Learn, GoodMap, Maps

(* What a step has to show: its own part, and that the rest moves on.       *)
LEMMA Advanced ==
  ASSUME TypeOK, Advance
  PROVE  UNCHANGED <<program, doc, seen, watching>> /\ pc' \in Nat
BY DEF TypeOK, Advance

LEMMA TypeStep ==
  ASSUME TypeOK, UNCHANGED <<program, doc, seen, watching>>, pc' \in Nat,
         GoodMap(varMap'), stack' \in Seq(Frames), reals' \subseteq SUBSET Vars,
         reported' \subseteq Nat \X Nat, reached' \subseteq Nat \X Nat
  PROVE  TypeOK'
BY DEF TypeOK, GoodMap, Maps

LEMMA Same ==
  ASSUME TypeOK
  PROVE  /\ UNCHANGED varMap => GoodMap(varMap')
         /\ UNCHANGED stack => stack' \in Seq(Frames)
         /\ UNCHANGED reals => reals' \subseteq SUBSET Vars
         /\ UNCHANGED reported => reported' \subseteq Nat \X Nat
         /\ UNCHANGED reached => reached' \subseteq Nat \X Nat
         /\ GoodMap(varMap)
BY DEF TypeOK, GoodMap, Maps

LEMMA FramePushed ==
  ASSUME TypeOK, NEW s \in Seq(Frames), NEW kind \in {"then", "else"}, NEW before \in [Vars -> States]
  PROVE  Append(s, [kind |-> kind, states |-> before, others |-> reals]) \in Seq(Frames)
<1>1. [kind |-> kind, states |-> before, others |-> reals] \in Frames
  BY DEF Frames, TypeOK
<1> QED
  BY <1>1, AppendProperties

LEMMA TypeStatement == TypeOK /\ Statement => TypeOK'
<1> SUFFICES ASSUME TypeOK, Statement PROVE TypeOK'
  OBVIOUS
<1>0. GoodMap(varMap) /\ varMap \in Maps
  BY Same DEF GoodMap
<1>1. CASE Assign
  <2>1. Body[pc].to \in Vars /\ Body[pc].from \in Exprs
    BY <1>1, AssignmentAt DEF Assign
  <2>2. GoodMap(varMap')
    BY <1>0, <1>1, <2>1, ValueType, AssignedGood, Learned DEF Assign
  <2>3. reals' \subseteq SUBSET Vars
    <3>1. \A r \in reals : SetRaw(r, Body[pc].to, Raw(r, Body[pc].from)) \in SUBSET Vars
      BY <2>1, SetRawType DEF TypeOK
    <3> QED
      BY <1>1, <3>1 DEF Assign
  <2> QED
    BY <1>1, <2>2, <2>3, Advanced, TypeStep, Same DEF Assign
<1>2. CASE Augment
  <2>1. Body[pc].to \in Vars /\ Body[pc].from \in Exprs
    BY <1>2, AssignmentAt DEF Augment
  <2>2. GoodMap(varMap')
    BY <1>0, <1>2, <2>1, ValueType, AugmentedGood, Learned DEF Augment
  <2>3. reals' \subseteq SUBSET Vars
    <3>1. \A r \in reals : SetRaw(r, Body[pc].to, Body[pc].to \in r \/ Raw(r, Body[pc].from)) \in SUBSET Vars
      BY <2>1, SetRawType DEF TypeOK
    <3> QED
      BY <1>2, <3>1 DEF Augment
  <2> QED
    BY <1>2, <2>2, <2>3, Advanced, TypeStep, Same DEF Augment
<1>3. CASE Sanitize
  <2> DEFINE i == Body[pc]
             marked == Marked(varMap, i.of, i.context)
             one == [how |-> "build", of |-> <<i.of>>]
             m == Assigned(marked, i.to, Value(marked, one))
  <2>1. i.to \in Vars /\ i.of \in Vars /\ i.context \in Contexts
    BY <1>3, SanitizerAt DEF Sanitize
  <2>2. GoodMap(marked) /\ marked \in Maps
    BY <1>0, <2>1, MarkedGood DEF GoodMap
  <2>3. Value(marked, one) \in Rec
    BY <2>1, <2>2, OfOneType, ValueType
  <2>4. GoodMap(m)
    BY <2>1, <2>2, <2>3, AssignedGood
  <2>5. GoodMap(varMap')
    <3>1. Learn(m)
      BY <1>3 DEF Sanitize
    <3> QED
      BY <2>4, <3>1, Learned
  <2>6. reals' \subseteq SUBSET Vars
    <3>1. \A r \in reals : SetRaw(r, i.to, i.of \in r /\ i.context = "other") \in SUBSET Vars
      BY <2>1, SetRawType DEF TypeOK
    <3> QED
      BY <1>3, <3>1 DEF Sanitize
  <2> QED
    BY <1>3, <2>5, <2>6, Advanced, TypeStep, Same DEF Sanitize
<1>4. CASE Sink
  <2>1. <<doc, pc>> \in Nat \X Nat
    BY DEF TypeOK
  <2>2. reported' \subseteq Nat \X Nat /\ reached' \subseteq Nat \X Nat
    BY <1>4, <2>1 DEF Sink, TypeOK
  <2> QED
    BY <1>4, <2>2, Advanced, TypeStep, Same DEF Sink
<1> QED
  BY <1>1, <1>2, <1>3, <1>4 DEF Statement

LEMMA TypeBranch == TypeOK /\ Branch => TypeOK'
<1> SUFFICES ASSUME TypeOK, Branch PROVE TypeOK'
  OBVIOUS
<1>0. GoodMap(varMap) /\ StatesOf(varMap) \in [Vars -> States]
  BY Same, StatesOfType DEF GoodMap
<1>1. CASE If
  <2>1. stack' \in Seq(Frames)
    <3>1. stack \in Seq(Frames)
      BY DEF TypeOK
    <3> QED
      BY <1>0, <1>1, <3>1, FramePushed DEF If
  <2> QED
    BY <1>1, <2>1, Advanced, TypeStep, Same DEF If
<1>2. CASE Else
  <2>1. Top \in Frames /\ Front(stack) \in Seq(Frames)
    BY <1>2, TopFrame DEF Else
  <2>2. Top.states \in [Vars -> States] /\ Top.others \subseteq SUBSET Vars
    BY <2>1 DEF Frames
  <2>3. stack' \in Seq(Frames)
    BY <1>0, <1>2, <2>1, FramePushed DEF Else
  <2>4. GoodMap(varMap')
    BY <1>0, <1>2, <2>2, RestoredGood, Learned DEF Else
  <2> QED
    BY <1>2, <2>2, <2>3, <2>4, Advanced, TypeStep, Same DEF Else
<1>3. CASE EndIf
  <2>1. Top \in Frames /\ Front(stack) \in Seq(Frames)
    BY <1>3, TopFrame DEF EndIf
  <2>2. Top.states \in [Vars -> States] /\ Top.others \subseteq SUBSET Vars
    BY <2>1 DEF Frames
  <2>3. GoodMap(varMap')
    BY <1>0, <1>3, <2>2, MergedGood, Learned DEF EndIf
  <2>4. reals' \subseteq SUBSET Vars
    BY <1>3, <2>2 DEF EndIf, TypeOK
  <2> QED
    BY <1>3, <2>1, <2>3, <2>4, Advanced, TypeStep, Same DEF EndIf
<1> QED
  BY <1>1, <1>2, <1>3 DEF Branch

LEMMA LoopFrame ==
  ASSUME TypeOK, stack # <<>>, Top.kind \in {"first", "second"}
  PROVE  /\ Top \in [kind : {"first", "second"}, states : [Vars -> States],
                      others : SUBSET SUBSET Vars, body : Nat, to : Vars, raw : BOOLEAN]
         /\ Front(stack) \in Seq(Frames)
BY TopFrame DEF Frames

LEMMA TypeLoop == TypeOK /\ Loop => TypeOK'
<1> SUFFICES ASSUME TypeOK, Loop PROVE TypeOK'
  OBVIOUS
<1>0. GoodMap(varMap) /\ StatesOf(varMap) \in [Vars -> States] /\ stack \in Seq(Frames)
  BY Same, StatesOfType DEF GoodMap, TypeOK
<1>1. CASE For
  <2> DEFINE i == Body[pc]
             val == Value(varMap, i.from)
             m == IF Live(val) THEN [varMap EXCEPT ![i.to] = val] ELSE varMap
             frame == [kind |-> "first", states |-> StatesOf(m), others |-> reals, body |-> pc,
                       to |-> i.to, raw |-> \E r \in reals : Raw(r, i.from)]
  <2>1. i.to \in Vars /\ i.from \in Exprs
    BY <1>1, AssignmentAt DEF For
  <2>2. val \in Rec
    BY <1>0, <2>1, ValueType DEF GoodMap
  <2>3. GoodMap(m)
    BY <1>0, <2>1, <2>2 DEF GoodMap, Maps, WellFormed, Live, LiveStates
  <2>4. GoodMap(varMap')
    <3>1. Learn(m)
      BY <1>1 DEF For
    <3> QED
      BY <2>3, <3>1, Learned
  <2>5. stack' \in Seq(Frames)
    <3>1. frame \in Frames
      <4>1. StatesOf(m) \in [Vars -> States]
        BY <2>3, StatesOfType DEF GoodMap
      <4>2. (\E r \in reals : Raw(r, i.from)) \in BOOLEAN
        OBVIOUS
      <4> HIDE DEF m
      <4> QED
        BY <2>1, <4>1, <4>2 DEF Frames, TypeOK
    <3>2. stack' = Append(stack, frame)
      BY <1>1 DEF For
    <3> QED
      BY <1>0, <3>1, <3>2, AppendProperties
  <2>6. reals' \subseteq SUBSET Vars
    <3>1. \A r \in reals : SetRaw(r, i.to, Raw(r, i.from)) \in SUBSET Vars
      BY <2>1, SetRawType DEF TypeOK
    <3> QED
      BY <1>1, <3>1 DEF For
  <2> QED
    BY <1>1, <2>4, <2>5, <2>6, Advanced, TypeStep, Same DEF For
<1>2. CASE Again
  <2>1. Top \in [kind : {"first", "second"}, states : [Vars -> States], others : SUBSET SUBSET Vars,
                 body : Nat, to : Vars, raw : BOOLEAN]
        /\ Front(stack) \in Seq(Frames)
    BY <1>2, LoopFrame DEF Again
  <2> DEFINE frame == [Top EXCEPT !.kind = "second", !.states = StatesOf(varMap),
                                  !.others = @ \union reals]
  <2>2. frame \in Frames
    BY <1>0, <2>1 DEF Frames, TypeOK
  <2>3. stack' \in Seq(Frames)
    <3>1. stack' = Append(Front(stack), frame)
      BY <1>2 DEF Again
    <3> QED
      BY <2>1, <2>2, <3>1, AppendProperties
  <2>4. reals' \subseteq SUBSET Vars
    <3>0. Top.to \in Vars /\ reals \in SUBSET SUBSET Vars
      BY <2>1 DEF TypeOK
    <3>1. \A r \in reals : \A b : SetRaw(r, Top.to, b) \in SUBSET Vars
      BY <3>0 DEF SetRaw
    <3>2. {SetRaw(r, Top.to, Top.raw) : r \in reals} \subseteq SUBSET Vars
      BY ONLY <3>1
    <3>3. {SetRaw(r, Top.to, FALSE) : r \in reals} \subseteq SUBSET Vars
      BY ONLY <3>1
    <3> QED
      BY <1>2, <3>2, <3>3 DEF Again
  <2>5. pc' \in Nat
    BY <1>2, <2>1 DEF Again
  <2> QED
    BY <1>2, <2>3, <2>4, <2>5, TypeStep, Same DEF Again
<1>3. CASE EndFor
  <2>1. Top \in [kind : {"first", "second"}, states : [Vars -> States], others : SUBSET SUBSET Vars,
                 body : Nat, to : Vars, raw : BOOLEAN]
        /\ Front(stack) \in Seq(Frames)
    BY <1>3, LoopFrame DEF EndFor
  <2>2. reals' \subseteq SUBSET Vars
    BY <1>3, <2>1 DEF EndFor, TypeOK
  <2> QED
    BY <1>3, <2>1, <2>2, Advanced, TypeStep, Same DEF EndFor
<1> QED
  BY <1>1, <1>2, <1>3 DEF Loop

LEMMA NoneGood == GoodMap([v \in Vars |-> None])
<1>1. None \in Rec
  BY DEF None, Rec, States
<1> QED
  BY <1>1 DEF GoodMap, Maps, WellFormed

LEMMA InitType == Init => TypeOK
BY NoneGood DEF Init, TypeOK, GoodMap, Maps

LEMMA NextType == TypeOK /\ [Next]_vars => TypeOK'
<1> SUFFICES ASSUME TypeOK, [Next]_vars PROVE TypeOK'
  OBVIOUS
<1>1. CASE Enter
  BY <1>1, NoneGood DEF Enter, TypeOK, GoodMap, Maps
<1>2. CASE Leave
  BY <1>2 DEF Leave, TypeOK
<1>3. CASE UNCHANGED vars
  BY <1>3 DEF vars, TypeOK
<1> QED
  BY <1>1, <1>2, <1>3, TypeStatement, TypeBranch, TypeLoop DEF Next, Finished

(* No branch takes the record of a variable away from it, and every frame    *)
(* of the visitor's stack stays what its branch or loop needs.               *)
THEOREM TypeCorrect == Spec => []TypeOK
BY InitType, NextType, PTL DEF Spec

-----------------------------------------------------------------------------
(* No silent miss.  As long as no shortcut is taken what may be raw is live, *)
(* here and in what every branch and loop around remembers, no variable      *)
(* keeps a sanitizer's mark, and the visitor has reported what was reached.  *)
Covered(states, R) == \A r \in R : \A v \in r : states[v] \in LiveStates

Unmarked(m) == \A v \in Vars : m[v].sanitizers = {}

FrameCovered(f) ==
    /\ Covered(f.states, f.others)
    /\ f.kind \in {"first", "second"} /\ f.raw => f.states[f.to] \in LiveStates

Watched == shortcuts = {} => /\ watching
                             /\ Covered(StatesOf(varMap), reals)
                             /\ Unmarked(varMap)
                             /\ \A i \in DOMAIN stack : FrameCovered(stack[i])
                             /\ reached \subseteq reported

(* The parts of a step that keep it.                                        *)
LEMMA RawLive ==
  ASSUME NEW m \in Maps, NEW r \in SUBSET Vars, \A v \in r : Live(m[v]),
         NEW e \in Exprs, ~Masked(m, e), Raw(r, e)
  PROVE  Live(Value(m, e))
<1>1. PICK i \in DOMAIN e.of : e.of[i] = "source" \/ e.of[i] \in r
  BY DEF Raw
<1>2. Live(Known(m, e.of[i]))
  <2>1. CASE e.of[i] = "source"
    BY <2>1 DEF Known, Source, Live, LiveStates
  <2>2. CASE e.of[i] \in r
    <3>1. e.of[i] \in Vars /\ e.of[i] \notin {"source", "const"}
      BY <2>2, ProgramsAssumption
    <3> QED
      BY <2>2, <3>1 DEF Known
  <2> QED
    BY <1>1, <2>1, <2>2
<1> QED
  BY <1>2, ValueLive

LEMMA CoveredLive ==
  ASSUME NEW m \in Maps, NEW R \in SUBSET SUBSET Vars
  PROVE  Covered(StatesOf(m), R) <=> \A r \in R : \A v \in r : Live(m[v])
BY DEF Covered, StatesOf, Live

LEMMA ValueUnmarked ==
  ASSUME NEW m \in Maps, Unmarked(m), NEW e \in Exprs
  PROVE  Value(m, e).sanitizers = {}
<1>1. \A i \in DOMAIN e.of : e.of[i] \in Atoms
  BY DEF Exprs
<1>2. \A a \in Atoms : Known(m, a).sanitizers = {}
  BY DEF Known, Unmarked, Atoms, None, Source
<1>3. \A i \in Counting(m, e) : i \in DOMAIN e.of
  BY DEF Counting
<1>4. None.sanitizers = {}
  BY DEF None
<1> QED
  BY <1>1, <1>2, <1>3, <1>4, ValueIsKnown

LEMMA StackPushed ==
  ASSUME NEW s \in Seq(Frames), NEW f \in Frames, \A i \in DOMAIN s : FrameCovered(s[i]), FrameCovered(f)
  PROVE  \A i \in DOMAIN Append(s, f) : FrameCovered(Append(s, f)[i])
BY AppendProperties

LEMMA StackPopped ==
  ASSUME TypeOK, stack # <<>>, \A i \in DOMAIN stack : FrameCovered(stack[i])
  PROVE  /\ FrameCovered(Top)
         /\ \A i \in DOMAIN Front(stack) : FrameCovered(Front(stack)[i])
<1>1. stack \in Seq(Frames) /\ Len(stack) \in 1 .. Len(stack)
  BY DEF TypeOK
<1>2. FrameCovered(Top)
  BY <1>1 DEF Top, Last
<1>3. /\ Len(Front(stack)) = Len(stack) - 1
      /\ \A i \in 1 .. (Len(stack) - 1) : Front(stack)[i] = stack[i]
  <2> DEFINE n == Len(stack) - 1
  <2>1. n \in Int /\ n >= 0 /\ 1 \in Int
    BY <1>1
  <2>2. \A i \in 1 .. n : stack[i] \in Frames
    BY <1>1, ElementOfSeq
  <2>3. /\ Len(SubSeq(stack, 1, n)) = IF 1 <= n THEN n - 1 + 1 ELSE 0
        /\ \A i \in 1 .. n - 1 + 1 : SubSeq(stack, 1, n)[i] = stack[1 + i - 1]
    <3> HIDE DEF n
    <3> QED
      BY ONLY <2>1, <2>2, SubSeqProperties
  <2>4. \A i \in 1 .. n : 1 + i - 1 = i
    BY <2>1
  <2>5. n - 1 + 1 = n /\ (IF 1 <= n THEN n - 1 + 1 ELSE 0) = n
    BY <2>1
  <2> QED
    BY ONLY <2>3, <2>4, <2>5 DEF Front
<1>4. Front(stack) \in Seq(Frames)
  BY TopFrame
<1> QED
  BY <1>1, <1>2, <1>3, <1>4

(* Where the visitor is when it has taken no shortcut.                      *)
LEMMA Watching ==
  ASSUME TypeOK, Watched, shortcuts = {}
  PROVE  /\ watching
         /\ varMap \in Maps
         /\ \A r \in reals : r \subseteq Vars /\ \A v \in r : Live(varMap[v])
         /\ Unmarked(varMap)
         /\ \A i \in DOMAIN stack : FrameCovered(stack[i])
         /\ reached \subseteq reported
<1>1. varMap \in Maps /\ reals \in SUBSET SUBSET Vars
  BY DEF TypeOK, Maps
<1>2. Covered(StatesOf(varMap), reals)
  BY DEF Watched
<1>3. \A r \in reals : r \subseteq Vars /\ \A v \in r : Live(varMap[v])
  BY ONLY <1>1, <1>2, CoveredLive
<1> QED
  BY <1>1, <1>3 DEF Watched

LEMMA NotTaken ==
  ASSUME NEW c, NEW s, TakeIf(c, s), shortcuts' = {}
  PROVE  shortcuts = {} /\ ~c
<1>1. shortcuts' = shortcuts \union (IF c THEN {s} ELSE {})
  BY DEF TakeIf
<1>2. ~c
  BY <1>1, Zenon
<1>3. shortcuts = {}
  BY <1>1, Zenon
<1> QED
  BY <1>2, <1>3

LEMMA WatchedAssign == TypeOK /\ TypeOK' /\ Watched /\ Assign => Watched'
<1> SUFFICES ASSUME TypeOK, TypeOK', Watched, Assign, shortcuts' = {}
             PROVE  /\ watching'
                    /\ Covered(StatesOf(varMap'), reals')
                    /\ Unmarked(varMap')
                    /\ \A i \in DOMAIN stack' : FrameCovered(stack'[i])
                    /\ reached' \subseteq reported'
  BY DEF Watched
<1> DEFINE x == Body[pc].to
           e == Body[pc].from
           val == Value(varMap, e)
<1>1. shortcuts = {} /\ ~Masked(varMap, e)
  BY DEF Assign, TakeIf
<1>2. /\ varMap \in Maps /\ watching /\ Unmarked(varMap)
      /\ \A r \in reals : r \subseteq Vars /\ \A v \in r : Live(varMap[v])
  BY <1>1, Watching
<1>3. x \in Vars /\ e \in Exprs
  BY AssignmentAt DEF Assign
<1>4. val \in Rec /\ val.sanitizers = {}
  BY <1>2, <1>3, ValueType, ValueUnmarked
<1>5. varMap' = Assigned(varMap, x, val)
  BY <1>2 DEF Assign, Learn
<1>6. /\ Live(val) => varMap'[x] = val
      /\ varMap'[x].sanitizers = {}
      /\ \A v \in Vars \ {x} : varMap'[v] = varMap[v]
  <2> HIDE DEF val
  <2> QED
    BY <1>2, <1>3, <1>4, <1>5 DEF Assigned, Maps, None, Clean
<1>7. Unmarked(varMap')
  BY <1>2, <1>6 DEF Unmarked
<1>8. Covered(StatesOf(varMap'), reals')
  <2>1. \A r \in reals : Raw(r, e) => Live(varMap'[x])
    BY <1>1, <1>2, <1>3, <1>6, RawLive
  <2>2. \A r \in reals : \A v \in SetRaw(r, x, Raw(r, e)) : Live(varMap'[v])
    BY <1>2, <1>6, <2>1 DEF SetRaw
  <2>3. reals' = {SetRaw(r, x, Raw(r, e)) : r \in reals}
    BY DEF Assign
  <2>4. varMap' \in Maps /\ reals' \in SUBSET SUBSET Vars
    BY DEF TypeOK, Maps
  <2>5. \A r \in reals' : \A v \in r : Live(varMap'[v])
    BY <2>2, <2>3
  <2> QED
    BY ONLY <2>4, <2>5, CoveredLive
<1> QED
  BY <1>1, <1>7, <1>8 DEF Assign, Advance, Watched

LEMMA WatchedAugment == TypeOK /\ TypeOK' /\ Watched /\ Augment => Watched'
<1> SUFFICES ASSUME TypeOK, TypeOK', Watched, Augment, shortcuts' = {}
             PROVE  /\ watching'
                    /\ Covered(StatesOf(varMap'), reals')
                    /\ Unmarked(varMap')
                    /\ \A i \in DOMAIN stack' : FrameCovered(stack'[i])
                    /\ reached' \subseteq reported'
  BY DEF Watched
<1> DEFINE x == Body[pc].to
           e == Body[pc].from
           val == Value(varMap, e)
<1>1. /\ shortcuts = {} /\ ~Masked(varMap, e)
      /\ Live(val) => Live(Augmented(varMap, x, val)[x])
  BY DEF Augment, TakeIf
<1>2. /\ varMap \in Maps /\ watching /\ Unmarked(varMap)
      /\ \A r \in reals : r \subseteq Vars /\ \A v \in r : Live(varMap[v])
  BY <1>1, Watching
<1>3. x \in Vars /\ e \in Exprs
  BY AssignmentAt DEF Augment
<1>4. val \in Rec /\ val.sanitizers = {}
  BY <1>2, <1>3, ValueType, ValueUnmarked
<1>5. varMap' = Augmented(varMap, x, val)
  BY <1>2 DEF Augment, Learn
<1>6. /\ Live(varMap[x]) => Live(varMap'[x])
      /\ varMap'[x].sanitizers = {}
      /\ \A v \in Vars \ {x} : varMap'[v] = varMap[v]
  <2> HIDE DEF val
  <2> QED
    BY <1>2, <1>3, <1>4, <1>5 DEF Augmented, Maps, Unmarked, Live, LiveStates
<1>7. Unmarked(varMap')
  BY <1>2, <1>6 DEF Unmarked
<1>8. Covered(StatesOf(varMap'), reals')
  <2>1. \A r \in reals : Raw(r, e) => Live(varMap'[x])
    BY <1>1, <1>2, <1>3, <1>5, RawLive
  <2>2. \A r \in reals : \A v \in SetRaw(r, x, x \in r \/ Raw(r, e)) : Live(varMap'[v])
    BY <1>2, <1>6, <2>1 DEF SetRaw
  <2>3. reals' = {SetRaw(r, x, x \in r \/ Raw(r, e)) : r \in reals}
    BY DEF Augment
  <2>4. varMap' \in Maps /\ reals' \in SUBSET SUBSET Vars
    BY DEF TypeOK, Maps
  <2>5. \A r \in reals' : \A v \in r : Live(varMap'[v])
    BY <2>2, <2>3
  <2> QED
    BY ONLY <2>4, <2>5, CoveredLive
<1> QED
  BY <1>1, <1>7, <1>8 DEF Augment, Advance, Watched

LEMMA WatchedSanitize == TypeOK /\ TypeOK' /\ Watched /\ Sanitize => Watched'
<1> SUFFICES ASSUME TypeOK, TypeOK', Watched, Sanitize, shortcuts' = {}
             PROVE  /\ watching'
                    /\ Covered(StatesOf(varMap'), reals')
                    /\ Unmarked(varMap')
                    /\ \A i \in DOMAIN stack' : FrameCovered(stack'[i])
                    /\ reached' \subseteq reported'
  BY DEF Watched
<1> DEFINE x == Body[pc].to
           y == Body[pc].of
           c == Body[pc].context
           marked == Marked(varMap, y, c)
           one == [how |-> "build", of |-> <<y>>]
           val == Value(marked, one)
           m == Assigned(marked, x, val)
<1>1. shortcuts = {} /\ (varMap[y] = None \/ (c # "other" /\ m[y].sanitizers = {}))
  <2>1. TakeIf(varMap[y] # None /\ (c = "other" \/ m[y].sanitizers # {}), "sanitizer")
    BY Zenon DEF Sanitize
  <2> QED
    BY ONLY <2>1, shortcuts' = {}, NotTaken
<1>2. /\ varMap \in Maps /\ watching /\ Unmarked(varMap)
      /\ \A r \in reals : r \subseteq Vars /\ \A v \in r : Live(varMap[v])
  BY <1>1, Watching
<1>3. x \in Vars /\ y \in Vars /\ c \in Contexts /\ one \in Exprs
  BY SanitizerAt, OfOneType DEF Sanitize
<1>4. varMap' = m
  BY <1>2 DEF Sanitize, Learn
<1>5. \A r \in reals : ~(y \in r /\ c = "other")
  BY <1>1, <1>2, <1>3 DEF Live, LiveStates, None
<1>6. GoodMap(marked) /\ marked \in Maps
  BY <1>3, MarkedGood, Same DEF GoodMap
<1>7. val \in Rec
  BY <1>3, <1>6, ValueType
<1>8. \A v \in Vars \ {x} : m[v] = marked[v]
  <2> HIDE DEF marked, val
  <2> QED
    BY <1>3, <1>6 DEF Assigned, Maps
<1>9. \A v \in Vars \ {y} : marked[v] = varMap[v]
  BY <1>2, <1>3 DEF Marked, Maps
<1>10. /\ \A v \in Vars \ {x} : m[v] = varMap[v]
       /\ m[x].sanitizers = {}
  <2>1. CASE varMap[y] = None
    <3>1. marked = varMap
      BY <1>2, <1>3, <2>1 DEF Marked, Maps
    <3>2. val.sanitizers = {}
      BY <1>2, <1>3, <3>1, ValueUnmarked
    <3>3. m[x].sanitizers = {}
      <4> HIDE DEF marked, val
      <4> QED
        BY <1>3, <1>6, <1>7, <3>2 DEF Assigned, Maps, None, Clean
    <3> QED
      BY <1>8, <3>1, <3>3
  <2>2. CASE varMap[y] # None
    <3>1. c \in marked[y].sanitizers
      BY <1>2, <1>3, <2>2 DEF Marked, Maps, Rec
    <3>2. m[y].sanitizers = {}
      BY <1>1, <2>2
    <3>3. x = y
      BY <1>3, <1>8, <3>1, <3>2
    <3> QED
      BY <1>8, <1>9, <3>2, <3>3
  <2> QED
    BY <2>1, <2>2
<1> HIDE DEF m
<1>11. Unmarked(varMap')
  BY <1>2, <1>4, <1>10 DEF Unmarked
<1>12. Covered(StatesOf(varMap'), reals')
  <2>1. \A r \in reals : SetRaw(r, x, y \in r /\ c = "other") = r \ {x}
    BY <1>5 DEF SetRaw
  <2>2. reals' = {SetRaw(r, x, y \in r /\ c = "other") : r \in reals}
    BY DEF Sanitize
  <2>3. varMap' \in Maps /\ reals' \in SUBSET SUBSET Vars
    BY DEF TypeOK, Maps
  <2>4. \A r \in reals' : \A v \in r : Live(varMap'[v])
    BY <1>2, <1>4, <1>10, <2>1, <2>2
  <2> QED
    BY ONLY <2>3, <2>4, CoveredLive
<1> QED
  BY <1>1, <1>11, <1>12 DEF Sanitize, Advance, Watched

LEMMA WatchedSink == TypeOK /\ TypeOK' /\ Watched /\ Sink => Watched'
<1> SUFFICES ASSUME TypeOK, TypeOK', Watched, Sink, shortcuts' = {}
             PROVE  Watched'
  BY DEF Watched
<1> DEFINE e == Body[pc].arg
           val == Value(varMap, e)
<1>1. shortcuts = {} /\ ~Masked(varMap, e)
  BY DEF Sink, TakeIf
<1>2. /\ varMap \in Maps /\ watching /\ Unmarked(varMap)
      /\ \A r \in reals : r \subseteq Vars /\ \A v \in r : Live(varMap[v])
      /\ reached \subseteq reported
  BY <1>1, Watching
<1>3. e \in Exprs
  BY SinkAt DEF Sink
<1>4. (\E r \in reals : Raw(r, e)) => Live(val) /\ val.sanitizers = {}
  BY <1>1, <1>2, <1>3, RawLive, ValueUnmarked
<1>5. reached' \subseteq reported'
  <2>1. reported' = IF watching /\ Live(val) /\ "right" \notin val.sanitizers
                    THEN reported \union {<<doc, pc>>} ELSE reported
    BY DEF Sink
  <2>2. reached' = IF \E r \in reals : Raw(r, e) THEN reached \union {<<doc, pc>>} ELSE reached
    BY DEF Sink
  <2> HIDE DEF val
  <2> QED
    BY ONLY <1>2, <1>4, <2>1, <2>2
<1> QED
  BY <1>1, <1>5 DEF Sink, Advance, Watched

LEMMA WatchedIf == TypeOK /\ TypeOK' /\ Watched /\ If => Watched'
<1> SUFFICES ASSUME TypeOK, TypeOK', Watched, If, shortcuts' = {}
             PROVE  Watched'
  BY DEF Watched
<1> DEFINE frame == [kind |-> "then", states |-> StatesOf(varMap), others |-> reals]
<1>1. shortcuts = {}
  BY DEF If
<1>2. FrameCovered(frame) /\ \A i \in DOMAIN stack : FrameCovered(stack[i])
  BY <1>1 DEF FrameCovered, Watched
<1>3. frame \in Frames /\ stack \in Seq(Frames)
  BY StatesOfType DEF Frames, TypeOK, Maps
<1>4. \A i \in DOMAIN stack' : FrameCovered(stack'[i])
  <2>1. stack' = Append(stack, frame)
    BY DEF If
  <2> HIDE DEF frame
  <2> QED
    BY ONLY <1>2, <1>3, <2>1, StackPushed
<1> QED
  BY <1>1, <1>4 DEF If, Advance, Watched

LEMMA WatchedElse == TypeOK /\ TypeOK' /\ Watched /\ Else => Watched'
<1> SUFFICES ASSUME TypeOK, TypeOK', Watched, Else, shortcuts' = {}
             PROVE  /\ watching'
                    /\ Covered(StatesOf(varMap'), reals')
                    /\ Unmarked(varMap')
                    /\ \A i \in DOMAIN stack' : FrameCovered(stack'[i])
                    /\ reached' \subseteq reported'
  BY DEF Watched
<1> DEFINE frame == [kind |-> "else", states |-> StatesOf(varMap), others |-> reals]
           before == Top.states
<1>1. shortcuts = {}
  BY DEF Else
<1>2. /\ varMap \in Maps /\ watching /\ Unmarked(varMap)
      /\ \A i \in DOMAIN stack : FrameCovered(stack[i])
  BY <1>1, Watching
<1>3. /\ FrameCovered(Top)
      /\ \A i \in DOMAIN Front(stack) : FrameCovered(Front(stack)[i])
  BY <1>2, StackPopped DEF Else
<1>4. Top \in Frames /\ Front(stack) \in Seq(Frames)
  BY TopFrame DEF Else
<1>5. FrameCovered(frame)
  BY <1>1 DEF FrameCovered, Watched
<1>6. frame \in Frames
  BY <1>2, StatesOfType DEF Frames, TypeOK
<1>7. \A i \in DOMAIN stack' : FrameCovered(stack'[i])
  <2>1. stack' = Append(Front(stack), frame)
    BY DEF Else
  <2> HIDE DEF frame
  <2> QED
    BY ONLY <1>3, <1>4, <1>5, <1>6, <2>1, StackPushed
<1>8. before \in [Vars -> States] /\ Top.others \in SUBSET SUBSET Vars
  BY <1>4 DEF Frames
<1>9. varMap' = Restored(varMap, before)
  BY <1>2 DEF Else, Learn
<1>10. \A v \in Vars : /\ varMap'[v].sanitizers = {}
                       /\ before[v] \in LiveStates => varMap'[v].state = before[v]
  BY <1>2, <1>8, <1>9 DEF Restored, Maps, Rec, Unmarked, LiveStates
<1>11. Covered(StatesOf(varMap'), reals')
  <2>1. Covered(before, Top.others)
    BY <1>3 DEF FrameCovered
  <2>2. reals' = Top.others
    BY DEF Else
  <2> QED
    BY <1>8, <1>10, <2>1, <2>2 DEF Covered, StatesOf
<1> QED
  BY <1>1, <1>2, <1>7, <1>10, <1>11 DEF Else, Advance, Watched, Unmarked

LEMMA WatchedEndIf == TypeOK /\ TypeOK' /\ Watched /\ EndIf => Watched'
<1> SUFFICES ASSUME TypeOK, TypeOK', Watched, EndIf, shortcuts' = {}
             PROVE  /\ watching'
                    /\ Covered(StatesOf(varMap'), reals')
                    /\ Unmarked(varMap')
                    /\ \A i \in DOMAIN stack' : FrameCovered(stack'[i])
                    /\ reached' \subseteq reported'
  BY DEF Watched
<1> DEFINE then == Top.states
<1>1. shortcuts = {} /\ ~Loses(then, Merged(varMap, then))
  BY DEF EndIf, TakeIf
<1>2. /\ varMap \in Maps /\ watching /\ Unmarked(varMap)
      /\ \A r \in reals : r \subseteq Vars /\ \A v \in r : Live(varMap[v])
      /\ \A i \in DOMAIN stack : FrameCovered(stack[i])
  BY <1>1, Watching
<1>3. /\ FrameCovered(Top)
      /\ \A i \in DOMAIN Front(stack) : FrameCovered(Front(stack)[i])
  BY <1>2, StackPopped DEF EndIf
<1>4. Top \in Frames
  BY TopFrame DEF EndIf
<1>5. then \in [Vars -> States] /\ Top.others \in SUBSET SUBSET Vars
  BY <1>4 DEF Frames
<1>6. varMap' = Merged(varMap, then)
  BY <1>2 DEF EndIf, Learn
<1>7. \A v \in Vars : /\ varMap'[v].sanitizers = {}
                      /\ Live(varMap[v]) => Live(varMap'[v])
  BY <1>2, <1>6 DEF Merged, Maps, Rec, Unmarked, Live, LiveStates
<1>8. \A v \in Vars : then[v] \in LiveStates => Live(varMap'[v])
  BY <1>1, <1>6 DEF Loses
<1>9. Covered(StatesOf(varMap'), reals')
  <2>1. \A r \in Top.others : \A v \in r : v \in Vars /\ then[v] \in LiveStates
    BY <1>3, <1>5 DEF FrameCovered, Covered
  <2>2. reals' = Top.others \union reals
    BY DEF EndIf
  <2>3. varMap' \in Maps /\ reals' \in SUBSET SUBSET Vars
    BY DEF TypeOK, Maps
  <2>4. \A r \in reals' : \A v \in r : Live(varMap'[v])
    BY <1>2, <1>7, <1>8, <2>1, <2>2
  <2> QED
    BY ONLY <2>3, <2>4, CoveredLive
<1> QED
  BY <1>1, <1>2, <1>3, <1>7, <1>9 DEF EndIf, Advance, Watched, Unmarked

LEMMA WatchedFor == TypeOK /\ TypeOK' /\ Watched /\ For => Watched'
<1> SUFFICES ASSUME TypeOK, TypeOK', Watched, For, shortcuts' = {}
             PROVE  /\ watching'
                    /\ Covered(StatesOf(varMap'), reals')
                    /\ Unmarked(varMap')
                    /\ \A i \in DOMAIN stack' : FrameCovered(stack'[i])
                    /\ reached' \subseteq reported'
  BY DEF Watched
<1> DEFINE x == Body[pc].to
           e == Body[pc].from
           val == Value(varMap, e)
           m == IF Live(val) THEN [varMap EXCEPT ![x] = val] ELSE varMap
           raw == \E r \in reals : Raw(r, e)
           frame == [kind |-> "first", states |-> StatesOf(m), others |-> reals, body |-> pc,
                     to |-> x, raw |-> raw]
<1>1. shortcuts = {} /\ ~Masked(varMap, e)
  BY DEF For, TakeIf
<1>2. /\ varMap \in Maps /\ watching /\ Unmarked(varMap)
      /\ \A r \in reals : r \subseteq Vars /\ \A v \in r : Live(varMap[v])
      /\ \A i \in DOMAIN stack : FrameCovered(stack[i])
  BY <1>1, Watching
<1>3. x \in Vars /\ e \in Exprs
  BY AssignmentAt DEF For
<1>4. val \in Rec /\ val.sanitizers = {}
  BY <1>2, <1>3, ValueType, ValueUnmarked
<1>5. varMap' = m
  BY <1>2 DEF For, Learn
<1>6. /\ \A v \in Vars : Live(varMap[v]) => Live(m[v])
      /\ \A v \in Vars : m[v].sanitizers = {}
      /\ Live(val) => Live(m[x])
  <2> HIDE DEF val
  <2> QED
    BY <1>2, <1>3, <1>4 DEF Maps, Unmarked
<1>7. raw => Live(m[x])
  BY <1>1, <1>2, <1>3, <1>6, RawLive
<1>8. m \in Maps
  BY <1>5 DEF TypeOK, Maps
<1> HIDE DEF m
<1>9. \A i \in DOMAIN stack' : FrameCovered(stack'[i])
  <2>1. stack' = Append(stack, frame)
    BY DEF For, m
  <2>2. FrameCovered(frame)
    <3>1. \A r \in reals : \A v \in r : Live(m[v])
      BY <1>2, <1>6
    <3>2. Covered(StatesOf(m), reals)
      BY <1>8, <3>1, CoveredLive DEF TypeOK
    <3>3. raw => StatesOf(m)[x] \in LiveStates
      BY <1>3, <1>7 DEF StatesOf, Live
    <3> QED
      BY ONLY <3>2, <3>3 DEF FrameCovered
  <2>3. frame \in Frames
    <3>1. raw \in BOOLEAN
      OBVIOUS
    <3>2. StatesOf(m) \in [Vars -> States]
      BY <1>8, StatesOfType
    <3> HIDE DEF raw
    <3> QED
      BY <1>3, <3>1, <3>2 DEF Frames, TypeOK
  <2>4. stack \in Seq(Frames)
    BY DEF TypeOK
  <2> HIDE DEF frame
  <2> QED
    BY ONLY <1>2, <2>1, <2>2, <2>3, <2>4, StackPushed
<1>10. Covered(StatesOf(varMap'), reals')
  <2>1. \A r \in reals : \A v \in SetRaw(r, x, Raw(r, e)) : Live(varMap'[v])
    BY <1>2, <1>5, <1>6, <1>7 DEF SetRaw
  <2>2. reals' = {SetRaw(r, x, Raw(r, e)) : r \in reals}
    BY DEF For
  <2>3. varMap' \in Maps /\ reals' \in SUBSET SUBSET Vars
    BY DEF TypeOK, Maps
  <2>4. \A r \in reals' : \A v \in r : Live(varMap'[v])
    BY <2>1, <2>2
  <2> QED
    BY ONLY <2>3, <2>4, CoveredLive
<1> QED
  BY <1>1, <1>2, <1>5, <1>6, <1>9, <1>10 DEF For, Advance, Watched, Unmarked

LEMMA WatchedAgain == TypeOK /\ TypeOK' /\ Watched /\ Again => Watched'
<1> SUFFICES ASSUME TypeOK, TypeOK', Watched, Again, shortcuts' = {}
             PROVE  /\ Covered(StatesOf(varMap'), reals')
                    /\ \A i \in DOMAIN stack' : FrameCovered(stack'[i])
                    /\ shortcuts = {}
  BY DEF Watched, Again
<1> DEFINE frame == [Top EXCEPT !.kind = "second", !.states = StatesOf(varMap),
                                !.others = @ \union reals]
<1>1. shortcuts = {} /\ ~Loses(Top.states, varMap)
  BY DEF Again, TakeIf
<1>2. /\ varMap \in Maps
      /\ \A r \in reals : r \subseteq Vars /\ \A v \in r : Live(varMap[v])
      /\ \A i \in DOMAIN stack : FrameCovered(stack[i])
  BY <1>1, Watching
<1>3. /\ FrameCovered(Top)
      /\ \A i \in DOMAIN Front(stack) : FrameCovered(Front(stack)[i])
  BY <1>2, StackPopped DEF Again
<1>4. /\ Top \in [kind : {"first", "second"}, states : [Vars -> States], others : SUBSET SUBSET Vars,
                  body : Nat, to : Vars, raw : BOOLEAN]
      /\ Front(stack) \in Seq(Frames)
  BY LoopFrame DEF Again
<1>5. \A v \in Vars : Top.states[v] \in LiveStates => Live(varMap[v])
  BY <1>1 DEF Loses
<1>6. Top.raw => Live(varMap[Top.to])
  BY <1>3, <1>4, <1>5 DEF FrameCovered
<1>7. \A i \in DOMAIN stack' : FrameCovered(stack'[i])
  <2>1. stack' = Append(Front(stack), frame)
    BY DEF Again
  <2>2. /\ frame \in Frames
        /\ frame.states = StatesOf(varMap) /\ frame.others = Top.others \union reals
        /\ frame.raw = Top.raw /\ frame.to = Top.to
    BY <1>2, <1>4, StatesOfType DEF Frames, TypeOK
  <2>3. \A r \in Top.others : \A v \in r : Live(varMap[v])
    BY <1>3, <1>4, <1>5 DEF FrameCovered, Covered
  <2>4. Covered(frame.states, frame.others)
    <3>1. Top.others \union reals \in SUBSET SUBSET Vars
      BY <1>4 DEF TypeOK
    <3>2. \A r \in Top.others \union reals : \A v \in r : Live(varMap[v])
      BY <1>2, <2>3
    <3> QED
      BY ONLY <1>2, <2>2, <3>1, <3>2, CoveredLive
  <2>5. frame.raw => frame.states[frame.to] \in LiveStates
    BY <1>4, <1>6, <2>2 DEF StatesOf, Live
  <2> HIDE DEF frame
  <2>6. FrameCovered(frame)
    BY ONLY <2>4, <2>5 DEF FrameCovered
  <2> QED
    BY ONLY <1>3, <1>4, <2>1, <2>2, <2>6, StackPushed
<1>8. Covered(StatesOf(varMap'), reals')
  <2>1. \A r \in reals : /\ \A v \in SetRaw(r, Top.to, Top.raw) : Live(varMap[v])
                         /\ \A v \in SetRaw(r, Top.to, FALSE) : Live(varMap[v])
    BY <1>2, <1>6 DEF SetRaw
  <2>2. reals' = {SetRaw(r, Top.to, Top.raw) : r \in reals}
                 \union {SetRaw(r, Top.to, FALSE) : r \in reals}
    BY DEF Again
  <2>3. varMap' = varMap /\ reals' \in SUBSET SUBSET Vars
    BY DEF TypeOK, Again
  <2>4. \A r \in reals' : \A v \in r : Live(varMap[v])
    BY ONLY <2>1, <2>2
  <2> QED
    BY ONLY <1>2, <2>3, <2>4, CoveredLive
<1> QED
  BY <1>1, <1>7, <1>8

LEMMA WatchedEndFor == TypeOK /\ TypeOK' /\ Watched /\ EndFor => Watched'
<1> SUFFICES ASSUME TypeOK, TypeOK', Watched, EndFor, shortcuts' = {}
             PROVE  /\ Covered(StatesOf(varMap'), reals')
                    /\ \A i \in DOMAIN stack' : FrameCovered(stack'[i])
                    /\ shortcuts = {}
  BY DEF Watched, EndFor, Advance
<1>1. shortcuts = {} /\ ~Loses(Top.states, varMap)
  BY DEF EndFor, TakeIf
<1>2. /\ varMap \in Maps
      /\ \A r \in reals : r \subseteq Vars /\ \A v \in r : Live(varMap[v])
      /\ \A i \in DOMAIN stack : FrameCovered(stack[i])
  BY <1>1, Watching
<1>3. /\ FrameCovered(Top)
      /\ \A i \in DOMAIN Front(stack) : FrameCovered(Front(stack)[i])
  BY <1>2, StackPopped DEF EndFor
<1>4. Top \in [kind : {"first", "second"}, states : [Vars -> States], others : SUBSET SUBSET Vars,
               body : Nat, to : Vars, raw : BOOLEAN]
  BY LoopFrame DEF EndFor
<1>5. \A v \in Vars : Top.states[v] \in LiveStates => Live(varMap[v])
  BY <1>1 DEF Loses
<1>6. Covered(StatesOf(varMap'), reals')
  <2>1. \A r \in Top.others : \A v \in r : Live(varMap[v])
    BY <1>3, <1>4, <1>5 DEF FrameCovered, Covered
  <2>2. reals' = Top.others \union reals /\ varMap' = varMap /\ reals' \in SUBSET SUBSET Vars
    BY DEF EndFor, TypeOK
  <2>3. \A r \in reals' : \A v \in r : Live(varMap[v])
    BY <1>2, <2>1, <2>2
  <2> QED
    BY ONLY <1>2, <2>2, <2>3, CoveredLive
<1> QED
  BY <1>1, <1>3, <1>6 DEF EndFor

LEMMA WatchedEnter == TypeOK /\ TypeOK' /\ Watched /\ Enter => Watched'
<1> SUFFICES ASSUME TypeOK, TypeOK', Watched, Enter, shortcuts' = {}
             PROVE  /\ watching'
                    /\ Covered(StatesOf(varMap'), reals')
                    /\ Unmarked(varMap')
                    /\ \A i \in DOMAIN stack' : FrameCovered(stack'[i])
                    /\ reached' \subseteq reported'
  BY DEF Watched
<1>1. shortcuts = {} /\ program[doc].name \notin seen
  BY DEF Enter, TakeIf
<1>2. watching' /\ stack' = <<>> /\ reals' = {{}} /\ varMap' = [v \in Vars |-> None]
  BY <1>1 DEF Enter
<1>3. Covered(StatesOf(varMap'), reals') /\ Unmarked(varMap')
  BY <1>2 DEF Covered, Unmarked, None
<1> QED
  BY <1>1, <1>2, <1>3 DEF Enter, Watched

LEMMA InitWatched == Init => Watched
<1> SUFFICES ASSUME Init PROVE Watched
  OBVIOUS
<1>1. stack = <<>> /\ reals = {{}} /\ varMap = [v \in Vars |-> None]
  BY DEF Init
<1>2. Covered(StatesOf(varMap), reals) /\ Unmarked(varMap)
  BY <1>1 DEF Covered, Unmarked, None
<1> QED
  BY <1>1, <1>2 DEF Init, Watched

LEMMA NextWatched == TypeOK /\ TypeOK' /\ Watched /\ [Next]_vars => Watched'
<1> SUFFICES ASSUME TypeOK, TypeOK', Watched, [Next]_vars PROVE Watched'
  OBVIOUS
<1>1. CASE Leave
  BY <1>1 DEF Leave, Watched
<1>2. CASE UNCHANGED vars
  BY <1>2 DEF vars, Watched
<1>3. CASE Statement
  BY <1>3, WatchedAssign, WatchedAugment, WatchedSanitize, WatchedSink DEF Statement
<1>4. CASE Branch
  BY <1>4, WatchedIf, WatchedElse, WatchedEndIf DEF Branch
<1>5. CASE Loop
  BY <1>5, WatchedFor, WatchedAgain, WatchedEndFor DEF Loop
<1> QED
  BY <1>1, <1>2, <1>3, <1>4, <1>5, WatchedEnter DEF Next, Finished

(* Whatever the program, however deep its branches and loops, what reaches a *)
(* sink raw is reported unless the visitor took one of its six shortcuts.    *)
THEOREM NothingMissedSilently == Spec => []NoSilentMiss
<1>1. Watched => NoSilentMiss
  BY DEF Watched, NoSilentMiss
<1> QED
  BY <1>1, InitType, NextType, InitWatched, NextWatched, PTL DEF Spec

-----------------------------------------------------------------------------
(* No false alarm.  In straight code what is live is raw in every execution, *)
(* and nothing is only maybe tainted.                                        *)
Certain(m, R) == /\ R # {}
                 /\ \A r \in R : \A v \in Vars : Live(m[v]) => v \in r
                 /\ \A v \in Vars : m[v].state # "MAYBE_TAINTED"

ExactSoFar ==
    Straight => /\ stack = <<>>
                /\ watching => Certain(varMap, reals)
                /\ reported \subseteq reached

LEMMA LiveRaw ==
  ASSUME NEW m, NEW r, NEW e \in Exprs, \A v \in Vars : Live(m[v]) => v \in r, Live(Value(m, e))
  PROVE  Raw(r, e)
<1>1. PICK i \in Counting(m, e) : Value(m, e) = Known(m, e.of[i])
  BY ValueIsKnown DEF Live, LiveStates, None
<1>2. i \in DOMAIN e.of /\ e.of[i] \in Atoms
  BY <1>1 DEF Counting, Exprs
<1>3. e.of[i] = "source" \/ e.of[i] \in r
  BY <1>1, <1>2 DEF Known, Live, LiveStates, None, Atoms
<1> QED
  BY <1>2, <1>3 DEF Raw

LEMMA ValueNotMaybe ==
  ASSUME NEW m \in Maps, NEW e \in Exprs, \A v \in Vars : m[v].state # "MAYBE_TAINTED"
  PROVE  Value(m, e).state # "MAYBE_TAINTED"
<1>1. \A i \in DOMAIN e.of : e.of[i] \in Atoms
  BY DEF Exprs
<1>2. \A a \in Atoms : Known(m, a).state # "MAYBE_TAINTED"
  BY DEF Known, Atoms, None, Source
<1>3. \A i \in Counting(m, e) : i \in DOMAIN e.of
  BY DEF Counting
<1>4. None.state # "MAYBE_TAINTED"
  BY DEF None
<1> QED
  BY <1>1, <1>2, <1>3, <1>4, ValueIsKnown

LEMMA NoBranches ==
  ASSUME TypeOK, Straight
  PROVE  ~At("if") /\ ~At("for")
<1>1. ASSUME NEW op \in {"if", "for"}, At(op) PROVE FALSE
  <2>1. program \in Seq(Documents)
    BY ProgramsAssumption DEF TypeOK
  <2>2. doc \in DOMAIN program
    BY <1>1, <2>1 DEF TypeOK, At
  <2> QED
    BY <1>1, <2>2 DEF Straight, At, Body
<1> QED
  BY <1>1

LEMMA ExactAssign == TypeOK /\ TypeOK' /\ ExactSoFar /\ Assign => ExactSoFar'
<1> SUFFICES ASSUME TypeOK, TypeOK', ExactSoFar, Assign, Straight, watching
             PROVE  Certain(varMap', reals')
  BY DEF ExactSoFar, Assign, Advance, Straight
<1> DEFINE x == Body[pc].to
           e == Body[pc].from
           val == Value(varMap, e)
<1>1. varMap \in Maps /\ Certain(varMap, reals)
  BY DEF ExactSoFar, TypeOK, Maps
<1>2. x \in Vars /\ e \in Exprs
  BY AssignmentAt DEF Assign
<1>3. val \in Rec /\ val.state # "MAYBE_TAINTED"
  BY <1>1, <1>2, ValueType, ValueNotMaybe DEF Certain
<1>4. varMap' = Assigned(varMap, x, val)
  BY DEF Assign, Learn
<1>5. \A r \in reals : Live(val) => Raw(r, e)
  BY <1>1, <1>2, LiveRaw DEF Certain
<1>6. /\ varMap'[x].state # "MAYBE_TAINTED" /\ (Live(varMap'[x]) => Live(val))
      /\ \A v \in Vars \ {x} : varMap'[v] = varMap[v]
  <2> HIDE DEF val
  <2> QED
    BY <1>1, <1>2, <1>3, <1>4 DEF Assigned, Maps, None, Clean, Live, LiveStates
<1>7. reals' = {SetRaw(r, x, Raw(r, e)) : r \in reals}
  BY DEF Assign
<1>8. \A r \in reals : \A v \in Vars : Live(varMap'[v]) => v \in SetRaw(r, x, Raw(r, e))
  BY <1>1, <1>2, <1>5, <1>6 DEF SetRaw, Certain
<1>9. \A v \in Vars : varMap'[v].state # "MAYBE_TAINTED"
  BY <1>1, <1>6 DEF Certain
<1> QED
  BY <1>1, <1>7, <1>8, <1>9 DEF Certain

LEMMA ExactAugment == TypeOK /\ TypeOK' /\ ExactSoFar /\ Augment => ExactSoFar'
<1> SUFFICES ASSUME TypeOK, TypeOK', ExactSoFar, Augment, Straight, watching
             PROVE  Certain(varMap', reals')
  BY DEF ExactSoFar, Augment, Advance, Straight
<1> DEFINE x == Body[pc].to
           e == Body[pc].from
           val == Value(varMap, e)
           raw(r) == x \in r \/ Raw(r, e)
<1>1. varMap \in Maps /\ Certain(varMap, reals)
  BY DEF ExactSoFar, TypeOK, Maps
<1>2. x \in Vars /\ e \in Exprs
  BY AssignmentAt DEF Augment
<1>3. val \in Rec
  BY <1>1, <1>2, ValueType
<1>4. varMap' = Augmented(varMap, x, val)
  BY DEF Augment, Learn
<1>5. \A r \in reals : Live(val) => Raw(r, e)
  BY <1>1, <1>2, LiveRaw DEF Certain
<1>6. /\ varMap'[x].state # "MAYBE_TAINTED" /\ (Live(varMap'[x]) => Live(val) \/ Live(varMap[x]))
      /\ \A v \in Vars \ {x} : varMap'[v] = varMap[v]
  <2> HIDE DEF val
  <2> QED
    BY <1>1, <1>2, <1>3, <1>4 DEF Augmented, Maps, Certain
<1>7. reals' = {SetRaw(r, x, raw(r)) : r \in reals}
  BY DEF Augment
<1>8. \A r \in reals : \A v \in Vars : Live(varMap'[v]) => v \in SetRaw(r, x, raw(r))
  BY <1>1, <1>2, <1>5, <1>6 DEF SetRaw, Certain
<1>9. \A v \in Vars : varMap'[v].state # "MAYBE_TAINTED"
  BY <1>1, <1>6 DEF Certain
<1> QED
  BY <1>1, <1>7, <1>8, <1>9 DEF Certain

LEMMA ExactSanitize == TypeOK /\ TypeOK' /\ ExactSoFar /\ Sanitize => ExactSoFar'
<1> SUFFICES ASSUME TypeOK, TypeOK', ExactSoFar, Sanitize, Straight, watching
             PROVE  Certain(varMap', reals')
  BY DEF ExactSoFar, Sanitize, Advance, Straight
<1> DEFINE x == Body[pc].to
           y == Body[pc].of
           c == Body[pc].context
           marked == Marked(varMap, y, c)
           one == [how |-> "build", of |-> <<y>>]
           val == Value(marked, one)
           raw(r) == y \in r /\ c = "other"
<1>1. varMap \in Maps /\ Certain(varMap, reals)
  BY DEF ExactSoFar, TypeOK, Maps
<1>2. x \in Vars /\ y \in Vars /\ c \in Contexts /\ one \in Exprs
  BY SanitizerAt, OfOneType DEF Sanitize
<1>3. varMap' = Assigned(marked, x, val)
  BY DEF Sanitize, Learn
<1>4. marked \in Maps
  BY <1>2, MarkedGood, Same DEF GoodMap
<1>5. /\ \A v \in Vars : marked[v].state # "MAYBE_TAINTED" /\ (Live(marked[v]) => Live(varMap[v]))
      /\ ~Live(marked[y])
  BY <1>1, <1>2 DEF Marked, Maps, Rec, Certain, None, Live, LiveStates
<1>6. ~Live(val)
  <2>1. ~Raw({v \in Vars : Live(marked[v])}, one)
    BY <1>2, <1>5, ProgramsAssumption DEF Raw
  <2> QED
    BY <1>2, <2>1, LiveRaw
<1>7. val \in Rec
  BY <1>2, <1>4, ValueType
<1>8. /\ ~Live(varMap'[x])
      /\ \A v \in Vars \ {x} : varMap'[v] = marked[v]
  <2> HIDE DEF marked, val
  <2> QED
    BY <1>2, <1>3, <1>4, <1>6, <1>7 DEF Assigned, Maps, None, Clean, Live, LiveStates
<1>9. reals' = {SetRaw(r, x, raw(r)) : r \in reals}
  BY DEF Sanitize
<1> HIDE DEF marked
<1>10. \A r \in reals : \A v \in Vars : Live(varMap'[v]) => v \in SetRaw(r, x, raw(r))
  BY <1>1, <1>2, <1>5, <1>8 DEF SetRaw, Certain
<1>11. \A v \in Vars : varMap'[v].state # "MAYBE_TAINTED"
  BY <1>5, <1>8 DEF Live, LiveStates
<1> QED
  BY <1>1, <1>9, <1>10, <1>11 DEF Certain

LEMMA ExactSink == TypeOK /\ TypeOK' /\ ExactSoFar /\ Sink => ExactSoFar'
<1> SUFFICES ASSUME TypeOK, ExactSoFar, Sink, Straight PROVE ExactSoFar'
  BY DEF ExactSoFar, Sink, Advance, Straight
<1> DEFINE e == Body[pc].arg
           val == Value(varMap, e)
<1>1. e \in Exprs
  BY SinkAt DEF Sink
<1>2. watching /\ Live(val) => \E r \in reals : Raw(r, e)
  BY <1>1, LiveRaw DEF ExactSoFar, Certain
<1>3. reported' \subseteq reached'
  <2>1. reported' = IF watching /\ Live(val) /\ "right" \notin val.sanitizers
                    THEN reported \union {<<doc, pc>>} ELSE reported
    BY DEF Sink
  <2>2. reached' = IF \E r \in reals : Raw(r, e) THEN reached \union {<<doc, pc>>} ELSE reached
    BY DEF Sink
  <2>3. reported \subseteq reached
    BY DEF ExactSoFar
  <2> HIDE DEF val
  <2> QED
    BY ONLY <1>2, <2>1, <2>2, <2>3
<1> QED
  BY <1>3 DEF Sink, Advance, ExactSoFar

LEMMA NextExact == TypeOK /\ TypeOK' /\ ExactSoFar /\ [Next]_vars => ExactSoFar'
<1> SUFFICES ASSUME TypeOK, TypeOK', ExactSoFar, [Next]_vars PROVE ExactSoFar'
  OBVIOUS
<1>1. CASE Enter
  <2> SUFFICES ASSUME Straight PROVE ExactSoFar'
    BY <1>1 DEF Enter, ExactSoFar, Straight
  <2>1. Certain(varMap', reals')
    BY <1>1 DEF Enter, Certain, None, Live, LiveStates
  <2> QED
    BY <1>1, <2>1 DEF Enter, ExactSoFar
<1>2. CASE Leave
  BY <1>2 DEF Leave, ExactSoFar, Straight
<1>3. CASE UNCHANGED vars
  BY <1>3 DEF vars, ExactSoFar, Straight
<1>4. CASE Statement
  BY <1>4, ExactAssign, ExactAugment, ExactSanitize, ExactSink DEF Statement
<1>5. CASE Branch \/ Loop
  <2>1. Straight' <=> Straight
    BY <1>5 DEF Branch, Loop, If, Else, EndIf, For, Again, EndFor, Advance, Straight
  <2>2. Straight => FALSE
    BY <1>5, NoBranches DEF ExactSoFar, Branch, Loop, If, Else, EndIf, For, Again, EndFor
  <2> QED
    BY <2>1, <2>2 DEF ExactSoFar
<1> QED
  BY <1>1, <1>2, <1>3, <1>4, <1>5 DEF Next, Finished

LEMMA InitExact == Init => ExactSoFar
<1> SUFFICES ASSUME Init PROVE ExactSoFar
  OBVIOUS
<1>1. Certain(varMap, reals)
  BY DEF Init, Certain, None, Live, LiveStates
<1> QED
  BY <1>1 DEF Init, ExactSoFar

(* Whatever the program, code without branches and loops raises no false     *)
(* alarm.                                                                   *)
THEOREM NothingInvented == Spec => []NoFalseAlarm
<1>1. ExactSoFar => NoFalseAlarm
  BY DEF ExactSoFar, NoFalseAlarm
<1> QED
  BY <1>1, InitType, NextType, InitExact, NextExact, PTL DEF Spec

-----------------------------------------------------------------------------
(* The second dataflow engine.                                              *)

ValueNodes == ({"source", "sanitizer", "sink"} \X Nat) \cup ({"line", "param"} \X Nat \X Variables)

LEMMA ValueNodesAre ==
  /\ \A k \in {"source", "sanitizer", "sink"}, n \in Nat : <<k, n>> \in ValueNodes
  /\ \A k \in {"line", "param"}, n \in Nat, v \in Variables : <<k, n, v>> \in ValueNodes
  /\ \A n \in ValueNodes : n # NoNode /\ n[2] \in Nat
  /\ \A n \in ValueNodes : n[1] = "source" => n = <<"source", n[2]>>
  /\ \A n \in ValueNodes : n[1] = "sink" => n = <<"sink", n[2]>>
<1>1. ASSUME NEW n \in ValueNodes PROVE n # NoNode
  <2>1. CASE n \in {"source", "sanitizer", "sink"} \X Nat
    <3>1. PICK k \in {"source", "sanitizer", "sink"}, i \in Nat : n = <<k, i>>
      BY <2>1
    <3> QED
      BY <3>1 DEF NoNode
  <2>2. CASE n \in {"line", "param"} \X Nat \X Variables
    <3>1. PICK k \in {"line", "param"}, i \in Nat, v \in Variables : n = <<k, i, v>>
      BY <2>2
    <3> QED
      BY <3>1 DEF NoNode
  <2> QED
    BY <2>1, <2>2 DEF ValueNodes
<1> QED
  BY <1>1 DEF ValueNodes

(* Ways through a graph of values.                                          *)
Leads(g, w, s, t) ==
    /\ w \in Seq(ValueNodes) /\ Len(w) > 0 /\ w[1] = s /\ w[Len(w)] = t
    /\ \A i \in 1..(Len(w) - 1) : <<w[i], w[i + 1]>> \in g
FewEdges(g, w) == Len(w) <= Cardinality(g) + 1
ComesTo(g, s, t) == \E w : Leads(g, w, s, t) /\ FewEdges(g, w)

LEMMA ComesHere ==
  ASSUME NEW g, IsFiniteSet(g), NEW s \in ValueNodes
  PROVE  ComesTo(g, s, s)
<1>1. Leads(g, <<s>>, s, s)
  BY DEF Leads
<1>2. FewEdges(g, <<s>>)
  BY FS_CardinalityType DEF FewEdges
<1> QED
  BY <1>1, <1>2 DEF ComesTo

LEMMA ComesStill ==
  ASSUME NEW g, NEW h, IsFiniteSet(h), g \subseteq h, NEW s, NEW t, ComesTo(g, s, t)
  PROVE  ComesTo(h, s, t)
<1>1. PICK w : Leads(g, w, s, t) /\ FewEdges(g, w)
  BY DEF ComesTo
<1>2. IsFiniteSet(g) /\ Cardinality(g) <= Cardinality(h) /\ Cardinality(g) \in Nat /\ Cardinality(h) \in Nat
  BY FS_Subset, FS_CardinalityType
<1>3. Leads(h, w, s, t)
  BY <1>1 DEF Leads
<1>4. FewEdges(h, w)
  BY <1>1, <1>2 DEF FewEdges, Leads
<1> QED
  BY <1>3, <1>4 DEF ComesTo

LEMMA ComesFurther ==
  ASSUME NEW g, NEW h, IsFiniteSet(h), g \subseteq h, NEW s, NEW t, ComesTo(g, s, t),
         NEW u \in ValueNodes, <<t, u>> \in h, <<t, u>> \notin g
  PROVE  ComesTo(h, s, u)
<1>1. PICK w : Leads(g, w, s, t) /\ FewEdges(g, w)
  BY DEF ComesTo
<1> DEFINE x == Append(w, u)
<1>2. w \in Seq(ValueNodes) /\ Len(w) \in Nat /\ Len(w) > 0
  BY <1>1, LenProperties DEF Leads
<1>3. /\ x \in Seq(ValueNodes) /\ Len(x) = Len(w) + 1 /\ x[Len(w) + 1] = u
      /\ \A i \in 1..Len(w) : x[i] = w[i]
  BY <1>2, AppendProperties
<1> HIDE DEF x
<1>4. Leads(h, x, s, u)
  <2>1. ASSUME NEW i \in 1..(Len(x) - 1) PROVE <<x[i], x[i + 1]>> \in h
    <3>1. i \in 1..Len(w) /\ ((i \in 1..(Len(w) - 1) /\ i + 1 \in 1..Len(w)) \/ i = Len(w))
      BY <1>2, <1>3
    <3>2. CASE i \in 1..(Len(w) - 1) /\ i + 1 \in 1..Len(w)
      BY <3>1, <3>2, <1>1, <1>3 DEF Leads
    <3>3. CASE i = Len(w)
      BY <3>1, <3>3, <1>1, <1>3 DEF Leads
    <3> QED
      BY <3>1, <3>2, <3>3
  <2>2. 1 \in 1..Len(w) /\ Len(x) > 0 /\ x[Len(x)] = u
    BY <1>2, <1>3
  <2> QED
    BY <2>1, <2>2, <1>1, <1>3 DEF Leads
<1>5. FewEdges(h, x)
  <2>1. IsFiniteSet(g) /\ g \cup {<<t, u>>} \subseteq h
    BY FS_Subset
  <2>2. Cardinality(g \cup {<<t, u>>}) = Cardinality(g) + 1 /\ Cardinality(g) \in Nat
    BY <2>1, FS_AddElement, FS_CardinalityType
  <2>3. Cardinality(g \cup {<<t, u>>}) <= Cardinality(h) /\ Cardinality(h) \in Nat
    BY <2>1, FS_Subset, FS_CardinalityType
  <2> QED
    BY <2>2, <2>3, <1>1, <1>2, <1>3 DEF FewEdges
<1> QED
  BY <1>4, <1>5 DEF ComesTo

(* What is kept of a value from node to node is there at the end of a way   *)
(* that meets no sanitizer.                                                 *)
LEMMA KeptOnTheWay ==
  ASSUME NEW g, NEW K, NEW w, NEW s, NEW t, Leads(g, w, s, t), ~PassesSanitizer(w),
         \A e \in g : e[1][1] # "sanitizer" /\ e[2][1] # "sanitizer" => K[e[1]] \subseteq K[e[2]]
  PROVE  K[s] \subseteq K[t]
<1>1. /\ w \in Seq(ValueNodes) /\ Len(w) > 0 /\ w[1] = s /\ w[Len(w)] = t /\ Len(w) \in Nat /\ DOMAIN w = 1..Len(w)
      /\ \A i \in 1..(Len(w) - 1) : <<w[i], w[i + 1]>> \in g
  BY LenProperties DEF Leads
<1> DEFINE N == Len(w) - 1
           G == {n \in 0..N : K[s] \subseteq K[w[n + 1]]}
<1>2. N \in Nat /\ N + 1 = Len(w)
  BY <1>1
<1>3. 0 \in G
  BY <1>1, <1>2
<1>4. ASSUME NEW n \in 1..N, n - 1 \in G PROVE n \in G
  <2>1. n \in 1..(Len(w) - 1) /\ n \in DOMAIN w /\ n + 1 \in DOMAIN w /\ n \in 0..N /\ (n - 1) + 1 = n
    BY <1>1, <1>2
  <2>2. w[n][1] # "sanitizer" /\ w[n + 1][1] # "sanitizer"
    BY <2>1 DEF PassesSanitizer
  <2>3. PICK e : e = <<w[n], w[n + 1]>>
    OBVIOUS
  <2>4. e \in g /\ e[1] = w[n] /\ e[2] = w[n + 1]
    BY <2>1, <2>3, <1>1
  <2>5. K[w[n]] \subseteq K[w[n + 1]]
    BY <2>2, <2>4
  <2>6. K[s] \subseteq K[w[n]]
    BY <2>1, <1>4
  <2> QED
    BY <2>1, <2>5, <2>6
<1> HIDE DEF G
<1>5. N \in G
  BY <1>2, <1>3, <1>4, CountTo
<1> QED
  BY <1>1, <1>2, <1>5 DEF G

-----------------------------------------------------------------------------
(* The routes that the engine tries.                                        *)
OneFurther(s) == {Append(p[1], p[2][2]) : p \in {q \in s \X flowGraph : Last(q[1]) = q[2][1]}}
RoutesFrom(start, h) ==
    h = [n \in 0..Cardinality(flowGraph) |-> IF n = 0 THEN {<<start>>} ELSE OneFurther(h[n - 1])]
WaysOf(start, n) ==
    {w \in Seq(ValueNodes) : Len(w) = n + 1 /\ w[1] = start /\ \A i \in 1..n : <<w[i], w[i + 1]>> \in flowGraph}

LEMMA FurtherWays ==
  ASSUME flowGraph \subseteq ValueNodes \X ValueNodes, NEW start, NEW n \in Nat, n > 0
  PROVE  OneFurther(WaysOf(start, n - 1)) = WaysOf(start, n)
<1>1. ASSUME NEW x \in OneFurther(WaysOf(start, n - 1)) PROVE x \in WaysOf(start, n)
  <2>1. PICK q \in WaysOf(start, n - 1) \X flowGraph : Last(q[1]) = q[2][1] /\ x = Append(q[1], q[2][2])
    BY <1>1 DEF OneFurther
  <2>2. PICK w, e : w = q[1] /\ e = q[2]
    OBVIOUS
  <2>3. /\ w \in Seq(ValueNodes) /\ Len(w) = n /\ w[1] = start
        /\ \A i \in 1..(n - 1) : <<w[i], w[i + 1]>> \in flowGraph
        /\ e \in flowGraph /\ Last(w) = e[1] /\ x = Append(w, e[2])
    BY <2>1, <2>2 DEF WaysOf
  <2>4. e[2] \in ValueNodes /\ e = <<e[1], e[2]>> /\ w[n] = e[1]
    BY <2>3 DEF Last
  <2>5. /\ x \in Seq(ValueNodes) /\ Len(x) = n + 1 /\ x[n + 1] = e[2]
        /\ \A i \in 1..n : x[i] = w[i]
    BY <2>3, <2>4, AppendProperties
  <2>6. ASSUME NEW i \in 1..n PROVE <<x[i], x[i + 1]>> \in flowGraph
    <3>1. (i \in 1..(n - 1) /\ i + 1 \in 1..n) \/ i = n
      OBVIOUS
    <3>2. CASE i \in 1..(n - 1) /\ i + 1 \in 1..n
      BY <3>2, <2>3, <2>5
    <3>3. CASE i = n
      BY <3>3, <2>3, <2>4, <2>5
    <3> QED
      BY <3>1, <3>2, <3>3
  <2>7. x[1] = start
    BY <2>3, <2>5
  <2> QED
    BY <2>5, <2>6, <2>7 DEF WaysOf
<1>2. ASSUME NEW x \in WaysOf(start, n) PROVE x \in OneFurther(WaysOf(start, n - 1))
  <2>1. /\ x \in Seq(ValueNodes) /\ Len(x) = n + 1 /\ x[1] = start
        /\ \A i \in 1..n : <<x[i], x[i + 1]>> \in flowGraph
    BY <1>2 DEF WaysOf
  <2> DEFINE w == SubSeq(x, 1, n)
             e == <<x[n], x[n + 1]>>
  <2>2. \A i \in 1..Len(x) : x[i] \in ValueNodes
    BY <2>1, ElementOfSeq
  <2>3. w \in Seq(ValueNodes) /\ Len(w) = n /\ \A i \in 1..n : w[i] = x[i]
    BY <2>1, <2>2, SubSeqProperties
  <2>4. w \in WaysOf(start, n - 1)
    <3>1. \A i \in 1..(n - 1) : i \in 1..n /\ i + 1 \in 1..n
      OBVIOUS
    <3>2. (n - 1) + 1 = n /\ 1 \in 1..n
      OBVIOUS
    <3> HIDE DEF w
    <3> QED
      BY <3>1, <3>2, <2>1, <2>3 DEF WaysOf
  <2>5. e \in flowGraph /\ e[1] = x[n] /\ e[2] = x[n + 1] /\ Last(w) = x[n]
    BY <2>1, <2>3 DEF Last
  <2>6. x = Append(w, e[2])
    <3>1. e[2] \in ValueNodes
      BY <2>1, <2>2
    <3>2. PICK y : y = Append(w, e[2])
      OBVIOUS
    <3>3. /\ y \in Seq(ValueNodes) /\ Len(y) = n + 1 /\ y[n + 1] = x[n + 1]
          /\ \A i \in 1..n : y[i] = x[i]
      BY <3>1, <3>2, <2>3, <2>5, AppendProperties
    <3>4. \A i \in 1..(n + 1) : y[i] = x[i]
      BY <3>3
    <3>5. y = x
      BY <3>3, <3>4, <2>1, SeqEqual
    <3> QED
      BY <3>2, <3>5
  <2>7. PICK q : q = <<w, e>>
    OBVIOUS
  <2>8. q \in WaysOf(start, n - 1) \X flowGraph /\ Last(q[1]) = q[2][1] /\ x = Append(q[1], q[2][2])
    <3> HIDE DEF w, e
    <3> QED
      BY <2>4, <2>5, <2>6, <2>7
  <2> HIDE DEF w, e
  <2> QED
    BY <2>8 DEF OneFurther
<1> QED
  BY <1>1, <1>2

LEMMA RoutesExist ==
  ASSUME flowGraph \subseteq ValueNodes \X ValueNodes, IsFiniteSet(flowGraph), NEW start \in ValueNodes
  PROVE  RoutesFrom(start, [n \in 0..Cardinality(flowGraph) |-> WaysOf(start, n)])
<1> DEFINE N == Cardinality(flowGraph)
           h == [n \in 0..N |-> WaysOf(start, n)]
<1>1. N \in Nat
  BY FS_CardinalityType
<1>2. WaysOf(start, 0) = {<<start>>}
  <2>1. <<start>> \in WaysOf(start, 0)
    BY DEF WaysOf
  <2>2. ASSUME NEW w \in WaysOf(start, 0) PROVE w = <<start>>
    <3>1. w \in Seq(ValueNodes) /\ Len(w) = 1 /\ w[1] = start
      BY DEF WaysOf
    <3>2. <<start>> \in Seq(ValueNodes) /\ Len(<<start>>) = 1 /\ \A i \in 1..1 : w[i] = <<start>>[i]
      BY <3>1
    <3> QED
      BY <3>1, <3>2, SeqEqual
  <2> QED
    BY <2>1, <2>2
<1> HIDE DEF N
<1>3. ASSUME NEW n \in 0..N PROVE h[n] = IF n = 0 THEN {<<start>>} ELSE OneFurther(h[n - 1])
  <2>1. CASE n = 0
    BY <2>1, <1>2
  <2>2. CASE n # 0
    <3>1. n \in Nat /\ n > 0 /\ n - 1 \in 0..N
      BY <2>2, <1>1
    <3>2. OneFurther(WaysOf(start, n - 1)) = WaysOf(start, n)
      BY <3>1, FurtherWays
    <3> QED
      BY <2>2, <3>1, <3>2
  <2> QED
    BY <2>1, <2>2
<1>4. h = [n \in 0..N |-> h[n]]
  OBVIOUS
<1> HIDE DEF h
<1>5. h = [n \in 0..N |-> IF n = 0 THEN {<<start>>} ELSE OneFurther(h[n - 1])]
  BY <1>3, <1>4
<1> QED
  BY <1>5 DEF RoutesFrom, h, N

LEMMA RoutesAre ==
  ASSUME flowGraph \subseteq ValueNodes \X ValueNodes, IsFiniteSet(flowGraph), NEW start \in ValueNodes
  PROVE  \A n \in 0..Cardinality(flowGraph) : Routes(start)[n] = WaysOf(start, n)
<1>1. Routes(start) = CHOOSE h : RoutesFrom(start, h)
  BY DEF Routes, RoutesFrom, OneFurther
<1>2. PICK h : h = CHOOSE g : RoutesFrom(start, g)
  OBVIOUS
<1>3. RoutesFrom(start, h)
  BY <1>2, RoutesExist
<1> DEFINE N == Cardinality(flowGraph)
<1>4. N \in Nat
  BY FS_CardinalityType
<1>5. \A n \in 0..N : h[n] = IF n = 0 THEN {<<start>>} ELSE OneFurther(h[n - 1])
  BY <1>3 DEF RoutesFrom
<1>6. \A n \in 0..N : WaysOf(start, n) = IF n = 0 THEN {<<start>>} ELSE OneFurther(WaysOf(start, n - 1))
  <2>1. PICK g : g = [n \in 0..N |-> WaysOf(start, n)]
    OBVIOUS
  <2>2. RoutesFrom(start, g)
    BY <2>1, RoutesExist
  <2>3. \A n \in 0..N : g[n] = IF n = 0 THEN {<<start>>} ELSE OneFurther(g[n - 1])
    BY <2>2 DEF RoutesFrom
  <2>4. \A n \in 0..N : n # 0 => n - 1 \in 0..N
    BY <1>4
  <2> QED
    BY <2>1, <2>3, <2>4
<1> HIDE DEF N
<1>7. ASSUME NEW m \in 0..N PROVE h[m] = WaysOf(start, m)
  <2> DEFINE G == {n \in 0..m : h[n] = WaysOf(start, n)}
  <2>1. m \in Nat /\ 0 \in 0..m /\ 0 \in 0..N /\ \A n \in 1..m : n \in 0..N /\ n # 0 /\ n \in 0..m
    BY <1>4
  <2>2. 0 \in G
    BY <2>1, <1>5, <1>6
  <2>3. ASSUME NEW n \in 1..m, n - 1 \in G PROVE n \in G
    <3>1. h[n - 1] = WaysOf(start, n - 1)
      BY <2>3
    <3>2. h[n] = OneFurther(h[n - 1]) /\ WaysOf(start, n) = OneFurther(WaysOf(start, n - 1))
      BY <2>1, <1>5, <1>6
    <3> QED
      BY <3>1, <3>2, <2>1
  <2> HIDE DEF G
  <2>4. m \in G
    BY <2>1, <2>2, <2>3, CountTo
  <2> QED
    BY <2>4 DEF G
<1> QED
  BY <1>1, <1>2, <1>7 DEF N

LEMMA WaysAre ==
  ASSUME flowGraph \subseteq ValueNodes \X ValueNodes, IsFiniteSet(flowGraph), NEW s \in ValueNodes, NEW t
  PROVE  \A w : w \in Ways(s, t) <=> Leads(flowGraph, w, s, t) /\ FewEdges(flowGraph, w)
<1> DEFINE N == Cardinality(flowGraph)
<1>1. N \in Nat
  BY FS_CardinalityType
<1>2. \A n \in 0..N : Routes(s)[n] = WaysOf(s, n)
  BY RoutesAre
<1>3. Ways(s, t) = UNION {{r \in Routes(s)[n] : Last(r) = t} : n \in 0..N}
  BY DEF Ways
<1> HIDE DEF N
<1>4. ASSUME NEW w \in Ways(s, t) PROVE Leads(flowGraph, w, s, t) /\ Len(w) <= N + 1
  <2>1. PICK n \in 0..N : w \in WaysOf(s, n) /\ Last(w) = t
    BY <1>2, <1>3, <1>4
  <2>2. n \in Nat /\ n <= N
    BY <1>1
  <2>3. /\ w \in Seq(ValueNodes) /\ Len(w) = n + 1 /\ w[1] = s /\ \A i \in 1..n : <<w[i], w[i + 1]>> \in flowGraph
    BY <2>1 DEF WaysOf
  <2>4. Len(w) - 1 = n /\ Len(w) > 0 /\ w[Len(w)] = t
    BY <2>1, <2>2, <2>3 DEF Last
  <2> QED
    BY <2>2, <2>3, <2>4, <1>1 DEF Leads
<1>5. ASSUME NEW w, Leads(flowGraph, w, s, t), Len(w) <= N + 1 PROVE w \in Ways(s, t)
  <2>1. /\ w \in Seq(ValueNodes) /\ Len(w) > 0 /\ Len(w) \in Nat /\ w[1] = s /\ w[Len(w)] = t
        /\ \A i \in 1..(Len(w) - 1) : <<w[i], w[i + 1]>> \in flowGraph
    BY <1>5, LenProperties DEF Leads
  <2>2. PICK n : n = Len(w) - 1
    OBVIOUS
  <2>3. n \in 0..N /\ Len(w) = n + 1
    BY <2>1, <2>2, <1>1, <1>5
  <2>4. w \in WaysOf(s, n) /\ Last(w) = t
    BY <2>1, <2>2, <2>3 DEF WaysOf, Last
  <2> QED
    BY <2>3, <2>4, <1>2, <1>3
<1> QED
  BY <1>4, <1>5 DEF N, FewEdges

-----------------------------------------------------------------------------
(* What the engine knows of the values.                                     *)

ValuesTyped ==
    /\ linesRead \in Nat /\ linesRead <= MaxStatements /\ evaluated \in BOOLEAN
    /\ nodeOf \in [Variables -> ValueNodes \cup {NoNode}]
    /\ flowGraph \subseteq ValueNodes \X ValueNodes /\ IsFiniteSet(flowGraph)
    /\ ends \subseteq {"source", "sink"} \X (1..linesRead)
    /\ origins \in [Variables -> SUBSET Nat] /\ truly \subseteq Nat \X Nat
    /\ stale \subseteq Variables
    /\ \A v \in Variables : nodeOf[v] = NoNode => v \notin stale /\ origins[v] = {}

(* Nodes are of the lines read so far, and nothing leaves a sink.           *)
OfLinesRead ==
    /\ \A e \in flowGraph : e[1][1] # "sink" /\ e[1][2] <= linesRead /\ e[2][2] <= linesRead
    /\ \A v \in Variables : nodeOf[v] # NoNode => nodeOf[v][1] # "sink" /\ nodeOf[v][2] <= linesRead

(* The sources that a variable or a sink really has lead to its node, but   *)
(* for those in an operand that was passed over.                            *)
LedTo(g, passed, of, o, n) == <<"source", o>> \in of /\ (o \in passed \/ ComesTo(g, <<"source", o>>, n))
TrueOnesLead ==
    /\ \A v \in Variables : \A o \in origins[v] : LedTo(flowGraph, dropped, ends, o, nodeOf[v])
    /\ \A t \in truly : LedTo(flowGraph, dropped, ends, t[1], <<"sink", t[2]>>) /\ <<"sink", t[2]>> \in ends

(* What may be held raw at a node, as the edges tell.                       *)
RawAt(K) ==
    /\ K \in [ValueNodes -> SUBSET Nat]
    /\ \A n \in Nat : n \in K[<<"source", n>>]
    /\ \A e \in flowGraph : e[1][1] # "sanitizer" /\ e[2][1] # "sanitizer" => K[e[1]] \subseteq K[e[2]]
    /\ \A v \in Variables : nodeOf[v] # NoNode /\ v \notin stale => K[nodeOf[v]] \subseteq origins[v]
    /\ \A n \in Nat : \A o \in K[<<"sink", n>>] : <<o, n>> \in truly \/ n \in misled
    /\ \A n \in ValueNodes : n[2] > linesRead => K[n] = IF n[1] = "source" THEN {n[2]} ELSE {}
RawOnesTrue == \E K : RawAt(K)

(* What was reported.                                                       *)
NoneShorter(g, w, s, t) ==
    /\ Leads(g, w, s, t) /\ FewEdges(g, w)
    /\ \A r : Leads(g, r, s, t) /\ FewEdges(g, r) => Len(w) <= Len(r)
Reported ==
    /\ \A a, b \in Nat : /\ <<"source", a>> \in ends /\ <<"sink", b>> \in ends
                         /\ ComesTo(flowGraph, <<"source", a>>, <<"sink", b>>)
                         => \E f \in flows :
                               /\ f.from = a /\ f.to = b
                               /\ f.exploitable \/ \E w : /\ NoneShorter(flowGraph, w, <<"source", a>>, <<"sink", b>>)
                                                          /\ PassesSanitizer(w)
    /\ \A f \in flows : /\ f.from \in Nat /\ f.to \in Nat
                        /\ f.exploitable => \E w : /\ Leads(flowGraph, w, <<"source", f.from>>, <<"sink", f.to>>)
                                                   /\ ~PassesSanitizer(w)

ValuesInv == ValuesTyped /\ OfLinesRead /\ TrueOnesLead /\ RawOnesTrue /\ (evaluated => Reported)

LEMMA ValuesBegin == DataflowInit => ValuesInv
<1> SUFFICES ASSUME DataflowInit PROVE ValuesInv
  OBVIOUS
<1>1. ValuesTyped
  <2>1. linesRead \in Nat /\ linesRead <= MaxStatements /\ evaluated \in BOOLEAN
    <3>1. MaxStatements \in Nat
      BY DataflowGraphAssumption
    <3>2. linesRead = 0
      BY DEF DataflowInit
    <3>3. linesRead \in Nat /\ linesRead <= MaxStatements
      BY <3>1, <3>2
    <3> QED
      BY <3>3 DEF DataflowInit
  <2>2. nodeOf \in [Variables -> ValueNodes \cup {NoNode}] /\ origins \in [Variables -> SUBSET Nat]
        /\ \A v \in Variables : origins[v] = {} /\ v \notin stale
    BY DEF DataflowInit
  <2>3. flowGraph \subseteq ValueNodes \X ValueNodes /\ IsFiniteSet(flowGraph) /\ ends = {} /\ truly = {} /\ stale = {}
    BY FS_EmptySet DEF DataflowInit
  <2> QED
    BY <2>1, <2>2, <2>3 DEF ValuesTyped
<1>2. OfLinesRead
  BY DEF OfLinesRead, DataflowInit
<1>3. TrueOnesLead
  BY DEF TrueOnesLead, DataflowInit
<1>4. RawOnesTrue
  <2> DEFINE K == [n \in ValueNodes |-> IF n[1] = "source" THEN {n[2]} ELSE {}]
  <2>1. K \in [ValueNodes -> SUBSET Nat]
    BY ValueNodesAre
  <2>2. \A n \in Nat : <<"source", n>> \in ValueNodes /\ <<"sink", n>> \in ValueNodes
    BY ValueNodesAre
  <2>3. \A n \in Nat : n \in K[<<"source", n>>] /\ K[<<"sink", n>>] = {}
    BY <2>2
  <2>4. \A n \in ValueNodes : K[n] = IF n[1] = "source" THEN {n[2]} ELSE {}
    OBVIOUS
  <2> HIDE DEF K
  <2>5. RawAt(K)
    BY <2>1, <2>3, <2>4 DEF RawAt, DataflowInit
  <2> QED
    BY <2>5 DEF RawOnesTrue
<1> QED
  BY <1>1, <1>2, <1>3, <1>4 DEF ValuesInv, DataflowInit

(* The operands of an expression.                                           *)
Heads(e) == e.how = "join" /\ KnownOperands(e) # {}

LEMMA OperandsAre ==
  ASSUME ValuesTyped, NEW e \in Expressions
  PROVE  /\ e.how \in {"join", "clean"} /\ \A n \in DOMAIN e.of : e.of[n] \in Operands
         /\ IsFiniteSet(KnownOperands(e)) /\ KnownOperands(e) \subseteq DOMAIN e.of
         /\ \A n \in KnownOperands(e) : NodeOf(e.of[n]) \in ValueNodes
         /\ Heads(e) => /\ Min(KnownOperands(e)) \in KnownOperands(e) /\ FirstKnown(e) \in ToSet(e.of)
                        /\ NodeOf(FirstKnown(e)) \in ValueNodes /\ FirstKnown(e) \in Operands
                        /\ FirstKnown(e) # "const"
<1>1. e.how \in {"join", "clean"} /\ e.of \in Seq(Operands)
  BY DEF Expressions
<1>2. Len(e.of) \in Nat /\ DOMAIN e.of = 1..Len(e.of) /\ \A n \in DOMAIN e.of : e.of[n] \in Operands
  BY <1>1, LenProperties, ElementOfSeq
<1>3. KnownOperands(e) \subseteq DOMAIN e.of /\ KnownOperands(e) \subseteq Nat
  BY <1>2 DEF KnownOperands
<1>4. IsFiniteSet(DOMAIN e.of)
  <2>1. ASSUME NEW l \in Int PROVE IsFiniteSet(1..l)
    BY FS_Interval
  <2>2. Len(e.of) \in Int
    BY <1>2
  <2>3. IsFiniteSet(1..Len(e.of))
    BY <2>1, <2>2
  <2> QED
    BY <2>3, <1>2
<1>5. IsFiniteSet(KnownOperands(e))
  BY <1>3, <1>4, FS_Subset
<1>6. ASSUME NEW o \in Operands, NodeOf(o) # NoNode PROVE NodeOf(o) \in ValueNodes /\ o # "const"
  <2>1. CASE o = "source"
    BY <2>1, ValueNodesAre DEF NodeOf, ValuesTyped, Here
  <2>2. CASE o = "const"
    BY <2>2, <1>6 DEF NodeOf
  <2>3. CASE o \in Variables /\ o # "source" /\ o # "const"
    BY <2>3, <1>6 DEF NodeOf, ValuesTyped
  <2> QED
    BY <2>1, <2>2, <2>3 DEF Operands
<1>7. \A n \in KnownOperands(e) : NodeOf(e.of[n]) # NoNode /\ e.of[n] \in Operands
  BY <1>2 DEF KnownOperands
<1>8. ASSUME Heads(e)
      PROVE  Min(KnownOperands(e)) \in KnownOperands(e) /\ FirstKnown(e) \in ToSet(e.of)
  <2>1. Min(KnownOperands(e)) \in KnownOperands(e)
    BY <1>3, <1>8, LeastIsIn DEF Heads
  <2> QED
    BY <2>1, <1>3 DEF FirstKnown, ToSet
<1>9. Heads(e) => NodeOf(FirstKnown(e)) \in ValueNodes /\ FirstKnown(e) \in Operands /\ FirstKnown(e) # "const"
  BY <1>6, <1>7, <1>8 DEF FirstKnown
<1> QED
  BY <1>1, <1>2, <1>3, <1>5, <1>6, <1>7, <1>8, <1>9

LEMMA NodeIs ==
  ASSUME ValuesTyped, NEW e \in Expressions
  PROVE  /\ e.how = "clean" => ExprNode(e) = <<"sanitizer", Here>>
         /\ Heads(e) => ExprNode(e) = NodeOf(FirstKnown(e))
         /\ e.how # "clean" /\ ~Heads(e) => ExprNode(e) = NoNode
         /\ ExprNode(e) \in ValueNodes \cup {NoNode}
         /\ ExprNode(e) = NoNode <=> e.how # "clean" /\ ~Heads(e)
<1>1. /\ e.how = "clean" => ExprNode(e) = <<"sanitizer", Here>>
      /\ Heads(e) => ExprNode(e) = NodeOf(FirstKnown(e))
      /\ e.how # "clean" /\ ~Heads(e) => ExprNode(e) = NoNode
      /\ e.how = "clean" => ~Heads(e)
  BY OperandsAre DEF ExprNode, Heads
<1>2. <<"sanitizer", Here>> \in ValueNodes /\ \A n \in ValueNodes : n # NoNode
  BY ValueNodesAre DEF ValuesTyped, Here
<1>3. Heads(e) => NodeOf(FirstKnown(e)) \in ValueNodes
  BY OperandsAre
<1> QED
  BY <1>1, <1>2, <1>3

(* The edges of an expression: from values there are to the sanitizer.      *)
LEMMA EdgesAre ==
  ASSUME ValuesTyped, NEW e \in Expressions
  PROVE  /\ IsFiniteSet(ExprEdges(e)) /\ ExprEdges(e) \subseteq ValueNodes \X ValueNodes
         /\ \A l \in ExprEdges(e) : \E n \in KnownOperands(e) : l = <<NodeOf(e.of[n]), <<"sanitizer", Here>>>>
<1>1. <<"sanitizer", Here>> \in ValueNodes
  BY ValueNodesAre DEF ValuesTyped, Here
<1>2. CASE e.how = "join"
  BY <1>2, FS_EmptySet DEF ExprEdges
<1>3. CASE e.how # "join"
  <2> DEFINE f == [n \in KnownOperands(e) |-> <<NodeOf(e.of[n]), <<"sanitizer", Here>>>>]
  <2>1. ExprEdges(e) = {<<NodeOf(e.of[n]), <<"sanitizer", Here>>>> : n \in KnownOperands(e)}
    BY <1>3 DEF ExprEdges
  <2>2. f \in Surjection(KnownOperands(e), ExprEdges(e))
    BY <2>1 DEF Surjection
  <2>3. IsFiniteSet(ExprEdges(e))
    <3> HIDE DEF f
    <3> QED
      BY <2>2, OperandsAre, FS_Surjection
  <2>4. \A n \in KnownOperands(e) : NodeOf(e.of[n]) \in ValueNodes
    BY OperandsAre
  <2> QED
    BY <2>1, <2>3, <2>4, <1>1
<1> QED
  BY <1>2, <1>3

LEMMA OperandNode ==
  ASSUME ValuesTyped, OfLinesRead, NEW o \in Operands, NodeOf(o) # NoNode
  PROVE  /\ NodeOf(o)[1] # "sink" /\ NodeOf(o)[2] <= Here
         /\ o \in Variables => NodeOf(o) = nodeOf[o] /\ o # "source"
         /\ o = "source" => NodeOf(o) = <<"source", Here>>
         /\ o \in Variables \/ o = "source"
<1>1. o \in Variables => NodeOf(o) = nodeOf[o] /\ o # "source"
  BY DataflowGraphAssumption DEF NodeOf
<1>2. o = "source" => NodeOf(o) = <<"source", Here>>
  BY DEF NodeOf
<1>3. o \in Variables \/ o = "source"
  BY DEF NodeOf, Operands
<1>4. linesRead \in Nat /\ Here = linesRead + 1
  BY DEF ValuesTyped, Here
<1>5. CASE o \in Variables
  <2>1. nodeOf[o] # NoNode /\ nodeOf[o] \in ValueNodes
    BY <1>1, <1>5 DEF ValuesTyped
  <2>2. nodeOf[o][1] # "sink" /\ nodeOf[o][2] <= linesRead /\ nodeOf[o][2] \in Nat
    BY <2>1, <1>5, ValueNodesAre DEF OfLinesRead
  <2> QED
    BY <2>2, <1>1, <1>2, <1>3, <1>4, <1>5
<1>6. CASE o = "source"
  BY <1>1, <1>2, <1>3, <1>4, <1>6
<1> QED
  BY <1>3, <1>5, <1>6

(* What an expression holds it has from its first operand with a node, or   *)
(* it was passed over.                                                      *)
LEMMA HoldsAre ==
  ASSUME ValuesTyped, TrueOnesLead, NEW e \in Expressions
  PROVE  \A o \in Holds(e) : /\ Heads(e) /\ o \in Nat
                             /\ o \in PassedOver(e) \/ o \in OriginsOf(FirstKnown(e))
                             /\ <<"source", o>> \in ends \cup SourcesIn(e)
<1> SUFFICES ASSUME NEW o \in Holds(e)
             PROVE  /\ Heads(e) /\ o \in Nat
                    /\ o \in PassedOver(e) \/ o \in OriginsOf(FirstKnown(e))
                    /\ <<"source", o>> \in ends \cup SourcesIn(e)
  OBVIOUS
<1>1. e.how = "join" /\ e.how # "clean" /\ \E p \in ToSet(e.of) : o \in OriginsOf(p)
  BY OperandsAre DEF Holds
<1>2. PICK n \in DOMAIN e.of : o \in OriginsOf(e.of[n])
  BY <1>1 DEF ToSet
<1>3. e.of[n] \in Operands
  BY OperandsAre
<1>4. /\ NodeOf(e.of[n]) # NoNode /\ o \in Nat /\ <<"source", o>> \in ends \cup SourcesIn(e)
  <2>1. CASE e.of[n] = "source"
    <3>1. o = Here /\ NodeOf(e.of[n]) = <<"source", Here>> /\ Here \in Nat
      BY <2>1, <1>2 DEF OriginsOf, NodeOf, ValuesTyped, Here
    <3>2. <<"source", Here>> # NoNode
      BY <3>1, ValueNodesAre
    <3>3. <<"source", Here>> \in SourcesIn(e)
      BY <2>1 DEF SourcesIn, ToSet
    <3> QED
      BY <3>1, <3>2, <3>3
  <2>2. CASE e.of[n] = "const"
    BY <2>2, <1>2 DEF OriginsOf
  <2>3. CASE e.of[n] # "source" /\ e.of[n] # "const"
    <3>1. e.of[n] \in Variables /\ o \in origins[e.of[n]] /\ NodeOf(e.of[n]) = nodeOf[e.of[n]]
      BY <2>3, <1>2, <1>3 DEF OriginsOf, NodeOf, Operands
    <3>2. nodeOf[e.of[n]] # NoNode /\ o \in Nat
      BY <3>1 DEF ValuesTyped
    <3>3. <<"source", o>> \in ends
      BY <3>1 DEF TrueOnesLead, LedTo
    <3> QED
      BY <3>1, <3>2, <3>3
  <2> QED
    BY <2>1, <2>2, <2>3
<1>5. n \in KnownOperands(e)
  BY <1>4 DEF KnownOperands
<1>6. Heads(e)
  BY <1>1, <1>5 DEF Heads
<1>7. CASE n = Min(KnownOperands(e))
  BY <1>2, <1>4, <1>6, <1>7 DEF FirstKnown
<1>8. CASE n # Min(KnownOperands(e))
  <2>1. PassedOver(e) = UNION {OriginsOf(e.of[k]) : k \in KnownOperands(e) \ {Min(KnownOperands(e))}}
    BY <1>1, <1>5 DEF PassedOver
  <2>2. o \in PassedOver(e)
    BY <2>1, <1>2, <1>5, <1>8
  <2> QED
    BY <2>2, <1>4, <1>6
<1> QED
  BY <1>7, <1>8

(* The first operand with a node leads its sources to the expression.       *)
LEMMA HeadLeads ==
  ASSUME ValuesTyped, TrueOnesLead, NEW e \in Expressions, Heads(e), NEW o \in OriginsOf(FirstKnown(e))
  PROVE  o \in dropped \/ ComesTo(flowGraph, <<"source", o>>, ExprNode(e))
<1>1. ExprNode(e) = NodeOf(FirstKnown(e)) /\ FirstKnown(e) \in Operands /\ FirstKnown(e) # "const"
  BY NodeIs, OperandsAre
<1>2. CASE FirstKnown(e) = "source"
  <2>1. o = Here /\ ExprNode(e) = <<"source", Here>> /\ Here \in Nat
    BY <1>1, <1>2 DEF OriginsOf, NodeOf, ValuesTyped, Here
  <2>2. <<"source", Here>> \in ValueNodes
    BY <2>1, ValueNodesAre
  <2>3. IsFiniteSet(flowGraph)
    BY DEF ValuesTyped
  <2> QED
    BY <2>1, <2>2, <2>3, ComesHere
<1>3. CASE FirstKnown(e) # "source"
  <2>1. /\ FirstKnown(e) \in Variables /\ o \in origins[FirstKnown(e)]
        /\ ExprNode(e) = nodeOf[FirstKnown(e)]
    BY <1>1, <1>3 DEF OriginsOf, NodeOf, Operands
  <2> QED
    BY <2>1 DEF TrueOnesLead, LedTo
<1> QED
  BY <1>2, <1>3

-----------------------------------------------------------------------------
(* visit_Assign.                                                            *)
LineNode(s) == <<"line", Here, s.to>>

LEMMA AssignIs ==
  ASSUME ValuesTyped, NEW s \in Statements, VisitAssign(s)
  PROVE  /\ s.to \in Variables /\ s.from \in Expressions /\ LineNode(s) \in ValueNodes
         /\ nodeOf' = IF ExprNode(s.from) = NoNode THEN nodeOf ELSE [nodeOf EXCEPT ![s.to] = LineNode(s)]
         /\ EdgesAgain(s, ExprNode(s.from)) \subseteq {<<LineNode(s), <<"sanitizer", Here>>>>}
<1>1. s.to \in Variables /\ s.from \in Expressions
  BY DataflowGraphAssumption DEF StatementShapes, VisitAssign
<1>2. LineNode(s) \in ValueNodes
  BY <1>1, ValueNodesAre DEF LineNode, ValuesTyped, Here
<1>3. nodeOf' = IF ExprNode(s.from) = NoNode THEN nodeOf ELSE [nodeOf EXCEPT ![s.to] = LineNode(s)]
  BY DEF VisitAssign, MapAfter, LineNode
<1>4. EdgesAgain(s, ExprNode(s.from)) \subseteq {<<LineNode(s), <<"sanitizer", Here>>>>}
  <2>1. CASE s.from.how = "join"
    BY <2>1 DEF EdgesAgain
  <2>2. CASE s.from.how # "join"
    <3>1. s.from.how = "clean"
      BY <1>1, <2>2, OperandsAre
    <3>2. ExprNode(s.from) # NoNode
      BY <1>1, <3>1, NodeIs
    <3>3. MapAfter(s.to, ExprNode(s.from))[s.to] = LineNode(s)
      BY <1>1, <3>2 DEF MapAfter, LineNode, ValuesTyped
    <3> QED
      BY <3>3 DEF EdgesAgain
  <2> QED
    BY <2>1, <2>2
<1> QED
  BY <1>1, <1>2, <1>3, <1>4

(* The edges that a statement adds: they lead to nodes of its line, from    *)
(* nodes that are none of a sink.                                           *)
NewEdges(g, line) ==
    /\ flowGraph \subseteq g /\ g \subseteq ValueNodes \X ValueNodes /\ IsFiniteSet(g)
    /\ \A l \in g \ flowGraph : l[2][2] = line /\ l[1][1] # "sink" /\ l[1][2] <= line

LEMMA ExprNodeFits ==
  ASSUME ValuesTyped, OfLinesRead, NEW e \in Expressions, ExprNode(e) # NoNode
  PROVE  ExprNode(e) \in ValueNodes /\ ExprNode(e)[1] # "sink" /\ ExprNode(e)[2] <= Here
<1>1. ExprNode(e) \in ValueNodes
  BY NodeIs
<1>2. Here \in Nat
  BY DEF ValuesTyped, Here
<1>3. CASE e.how = "clean"
  BY <1>1, <1>2, <1>3, NodeIs
<1>4. CASE e.how # "clean"
  <2>1. Heads(e) /\ ExprNode(e) = NodeOf(FirstKnown(e))
    BY <1>4, NodeIs
  <2>2. FirstKnown(e) \in Operands
    BY <2>1, OperandsAre
  <2> QED
    BY <2>1, <2>2, <1>1, OperandNode
<1> QED
  BY <1>3, <1>4

LEMMA ExprEdgesFit ==
  ASSUME ValuesTyped, OfLinesRead, NEW e \in Expressions
  PROVE  \A l \in ExprEdges(e) : l[2] = <<"sanitizer", Here>> /\ l[2][2] = Here /\ l[1][1] # "sink" /\ l[1][2] <= Here
<1> SUFFICES ASSUME NEW l \in ExprEdges(e)
             PROVE  l[2] = <<"sanitizer", Here>> /\ l[2][2] = Here /\ l[1][1] # "sink" /\ l[1][2] <= Here
  OBVIOUS
<1>1. PICK n \in KnownOperands(e) : l = <<NodeOf(e.of[n]), <<"sanitizer", Here>>>>
  BY EdgesAre
<1>2. e.of[n] \in Operands /\ NodeOf(e.of[n]) # NoNode
  BY OperandsAre DEF KnownOperands
<1>3. NodeOf(e.of[n])[1] # "sink" /\ NodeOf(e.of[n])[2] <= Here
  BY <1>2, OperandNode
<1> QED
  BY <1>1, <1>3

LEMMA AssignEdges ==
  ASSUME ValuesTyped, OfLinesRead, NEW s \in Statements, VisitAssign(s)
  PROVE  /\ NewEdges(flowGraph', Here)
         /\ \A l \in flowGraph' \ flowGraph : \/ l[2][1] = "sanitizer"
                                              \/ ExprNode(s.from) # NoNode /\ l = <<ExprNode(s.from), LineNode(s)>>
         /\ ExprNode(s.from) # NoNode => <<ExprNode(s.from), LineNode(s)>> \in flowGraph'
<1> DEFINE e == s.from
           node == ExprNode(e)
           again == EdgesAgain(s, node)
           on == IF node = NoNode THEN {} ELSE {<<node, LineNode(s)>>}
           back == <<LineNode(s), <<"sanitizer", Here>>>>
<1>1. flowGraph' = flowGraph \cup ExprEdges(e) \cup again \cup on
  BY DEF VisitAssign, LineNode
<1>2. e \in Expressions /\ LineNode(s) \in ValueNodes /\ again \subseteq {back}
  BY AssignIs
<1>3. Here \in Nat /\ <<"sanitizer", Here>> \in ValueNodes
  BY ValueNodesAre DEF ValuesTyped, Here
<1>4. back \in ValueNodes \X ValueNodes /\ back[2][1] = "sanitizer" /\ back[2][2] = Here /\ back[1][1] # "sink" /\ back[1][2] <= Here
  BY <1>2, <1>3 DEF LineNode
<1>5. node # NoNode => <<node, LineNode(s)>> \in ValueNodes \X ValueNodes /\ node[1] # "sink" /\ node[2] <= Here
  BY <1>2, ExprNodeFits
<1>6. /\ IsFiniteSet(ExprEdges(e)) /\ ExprEdges(e) \subseteq ValueNodes \X ValueNodes
      /\ \A l \in ExprEdges(e) : l[2] = <<"sanitizer", Here>> /\ l[2][2] = Here /\ l[1][1] # "sink" /\ l[1][2] <= Here
  BY <1>2, EdgesAre, ExprEdgesFit
<1>7. flowGraph \subseteq ValueNodes \X ValueNodes /\ IsFiniteSet(flowGraph)
  BY DEF ValuesTyped
<1>8. LineNode(s)[2] = Here
  BY DEF LineNode
<1> HIDE DEF again, back, node, e
<1>9. IsFiniteSet(again) /\ IsFiniteSet(on)
  BY <1>2, FS_EmptySet, FS_Singleton, FS_Subset
<1>10. IsFiniteSet(flowGraph')
  BY <1>1, <1>6, <1>7, <1>9, FS_Union
<1>11. flowGraph \subseteq flowGraph' /\ flowGraph' \subseteq ValueNodes \X ValueNodes
  BY <1>1, <1>2, <1>4, <1>5, <1>6, <1>7
<1>12. ASSUME NEW l \in flowGraph' \ flowGraph
       PROVE  /\ l[2][2] = Here /\ l[1][1] # "sink" /\ l[1][2] <= Here
              /\ l[2][1] = "sanitizer" \/ (node # NoNode /\ l = <<node, LineNode(s)>>)
  <2>1. CASE l \in ExprEdges(e)
    BY <2>1, <1>6
  <2>2. CASE l \in again
    BY <2>2, <1>2, <1>4
  <2>3. CASE l \in on
    BY <2>3, <1>5, <1>8
  <2> QED
    BY <2>1, <2>2, <2>3, <1>1
<1>13. node # NoNode => <<node, LineNode(s)>> \in flowGraph'
  BY <1>1
<1> QED
  BY <1>10, <1>11, <1>12, <1>13 DEF NewEdges, node, e

(* What was led to a node still is, and to the end of a new edge from there. *)
LEMMA StillLed ==
  ASSUME NEW line, NewEdges(flowGraph', line), dropped \subseteq dropped', ends \subseteq ends', NEW o, NEW n, LedTo(flowGraph, dropped, ends, o, n)
  PROVE  LedTo(flowGraph', dropped', ends', o, n)
<1>1. IsFiniteSet(flowGraph') /\ flowGraph \subseteq flowGraph'
  BY DEF NewEdges
<1>2. CASE o \in dropped
  BY <1>2 DEF LedTo
<1>3. CASE ComesTo(flowGraph, <<"source", o>>, n)
  <2>1. PICK s : s = <<"source", o>>
    OBVIOUS
  <2>2. PICK g : g = flowGraph'
    OBVIOUS
  <2>3. ComesTo(g, s, n)
    BY <1>1, <1>3, <2>1, <2>2, ComesStill
  <2>4. <<"source", o>> \in ends' /\ ComesTo(flowGraph', <<"source", o>>, n)
    BY <2>1, <2>2, <2>3 DEF LedTo
  <2> QED
    BY <2>4 DEF LedTo
<1> QED
  BY <1>2, <1>3 DEF LedTo

LEMMA LedFurther ==
  ASSUME ValuesTyped, OfLinesRead, NewEdges(flowGraph', Here), NEW s, NEW n, NEW m \in ValueNodes, m[2] = Here,
         <<n, m>> \in flowGraph', ComesTo(flowGraph, s, n)
  PROVE  ComesTo(flowGraph', s, m)
<1>1. <<n, m>> \notin flowGraph
  <2>1. SUFFICES ASSUME <<n, m>> \in flowGraph PROVE FALSE
    OBVIOUS
  <2>2. PICK l : l = <<n, m>>
    OBVIOUS
  <2>3. l \in flowGraph /\ l[2] = m
    BY <2>1, <2>2
  <2>4. m[2] <= linesRead
    BY <2>3 DEF OfLinesRead
  <2> QED
    BY <2>4 DEF ValuesTyped, Here
<1>2. PICK g : g = flowGraph'
  OBVIOUS
<1>3. IsFiniteSet(g) /\ flowGraph \subseteq g /\ <<n, m>> \in g
  BY <1>2 DEF NewEdges
<1>4. ComesTo(g, s, m)
  BY <1>1, <1>3, ComesFurther
<1> QED
  BY <1>2, <1>4

LEMMA AssignKeepsTypes ==
  ASSUME ValuesInv, NEW s \in Statements, Visit(s), VisitAssign(s)
  PROVE  ValuesTyped' /\ OfLinesRead'
<1> DEFINE e == s.from
           node == ExprNode(e)
<1>1. ValuesTyped /\ OfLinesRead /\ TrueOnesLead
  BY DEF ValuesInv
<1>2. /\ s.to \in Variables /\ e \in Expressions /\ LineNode(s) \in ValueNodes /\ LineNode(s) # NoNode
      /\ nodeOf' = IF node = NoNode THEN nodeOf ELSE [nodeOf EXCEPT ![s.to] = LineNode(s)]
  BY <1>1, AssignIs, ValueNodesAre
<1>3. NewEdges(flowGraph', Here)
  BY <1>1, AssignEdges
<1>4. /\ linesRead' = Here /\ linesRead < MaxStatements /\ evaluated' = FALSE /\ linesRead \in Nat
      /\ MaxStatements \in Nat
  BY <1>1, DataflowGraphAssumption DEF Visit, ValuesTyped
<1>5. linesRead' \in Nat /\ linesRead' <= MaxStatements /\ Here = linesRead + 1
  BY <1>4 DEF Here
<1>6. origins' = [origins EXCEPT ![s.to] = Holds(e)] /\ truly' = truly /\ ends' = ends \cup SourcesIn(e)
  BY DEF VisitAssign
<1>7. node = NoNode => Holds(e) = {}
  BY <1>1, <1>2, NodeIs, HoldsAre
<1>8. Holds(e) \subseteq Nat
  BY <1>1, <1>2, HoldsAre
<1>9. /\ stale' \subseteq Variables
      /\ \A v \in stale' : v \in stale \/ v = s.to
      /\ node = NoNode => s.to \notin stale' \/ (\E o \in ToSet(e.of) \cap stale : NodeOf(o) = NoNode) \/ nodeOf[s.to] # NoNode
  <2>1. /\ stale' \subseteq stale \cup {s.to}
        /\ s.to \in stale' => \/ \E o \in ToSet(e.of) \cap stale : NodeOf(o) = node \/ e.how = "clean"
                              \/ node = NoNode /\ nodeOf[s.to] # NoNode
    BY DEF VisitAssign
  <2>2. node = NoNode => e.how # "clean"
    BY <1>1, <1>2, NodeIs
  <2>3. stale \subseteq Variables
    BY <1>1 DEF ValuesTyped
  <2> QED
    BY <2>1, <2>2, <2>3, <1>2
<1>10. \A o \in stale : NodeOf(o) # NoNode
  BY <1>1, DataflowGraphAssumption DEF ValuesTyped, NodeOf
<1> HIDE DEF node, e
<1>11. ASSUME NEW v \in Variables, nodeOf'[v] = NoNode PROVE v \notin stale' /\ origins'[v] = {}
  <2>1. nodeOf \in [Variables -> ValueNodes \cup {NoNode}] /\ origins \in [Variables -> SUBSET Nat]
    BY <1>1 DEF ValuesTyped
  <2>2. nodeOf[v] = NoNode /\ (v = s.to => node = NoNode)
    BY <1>2, <1>11, <2>1
  <2>3. v \notin stale /\ origins[v] = {}
    BY <2>2, <1>1 DEF ValuesTyped
  <2> QED
    BY <2>1, <2>2, <2>3, <1>6, <1>7, <1>9, <1>10
<1>12. nodeOf' \in [Variables -> ValueNodes \cup {NoNode}] /\ origins' \in [Variables -> SUBSET Nat]
  BY <1>1, <1>2, <1>6, <1>8 DEF ValuesTyped
<1>13. ends' \subseteq {"source", "sink"} \X (1..linesRead')
  <2>1. \A n \in 1..linesRead : n \in 1..Here
    BY <1>4, <1>5
  <2>2. Here \in 1..Here
    BY <1>4, <1>5
  <2> QED
    BY <2>1, <2>2, <1>1, <1>4, <1>6 DEF ValuesTyped, SourcesIn
<1>14. ValuesTyped'
  BY <1>1, <1>3, <1>4, <1>5, <1>6, <1>9, <1>11, <1>12, <1>13 DEF ValuesTyped, NewEdges
<1>15. ASSUME NEW l \in flowGraph' PROVE l[1][1] # "sink" /\ l[1][2] <= Here /\ l[2][2] <= Here
  <2>1. CASE l \in flowGraph
    <3>1. l[1] \in ValueNodes /\ l[2] \in ValueNodes
      BY <2>1, <1>1 DEF ValuesTyped
    <3>2. l[1][1] # "sink" /\ l[1][2] <= linesRead /\ l[2][2] <= linesRead /\ l[1][2] \in Nat /\ l[2][2] \in Nat
      BY <2>1, <3>1, <1>1, ValueNodesAre DEF OfLinesRead
    <3> QED
      BY <3>2, <1>4, <1>5
  <2>2. CASE l \notin flowGraph
    BY <2>2, <1>3, <1>4, <1>5 DEF NewEdges
  <2> QED
    BY <2>1, <2>2
<1>16. ASSUME NEW v \in Variables, nodeOf'[v] # NoNode PROVE nodeOf'[v][1] # "sink" /\ nodeOf'[v][2] <= Here
  <2>1. nodeOf'[v] = LineNode(s) \/ nodeOf'[v] = nodeOf[v]
    BY <1>1, <1>2 DEF ValuesTyped
  <2>2. CASE nodeOf'[v] = LineNode(s)
    BY <2>2, <1>4, <1>5 DEF LineNode
  <2>3. CASE nodeOf'[v] = nodeOf[v]
    <3>1. nodeOf[v] \in ValueNodes
      BY <2>3, <1>16, <1>1 DEF ValuesTyped
    <3>2. nodeOf[v][1] # "sink" /\ nodeOf[v][2] <= linesRead /\ nodeOf[v][2] \in Nat
      BY <2>3, <1>16, <3>1, <1>1, ValueNodesAre DEF OfLinesRead
    <3> QED
      BY <2>3, <3>2, <1>4, <1>5
  <2> QED
    BY <2>1, <2>2, <2>3
<1>17. OfLinesRead'
  BY <1>4, <1>15, <1>16 DEF OfLinesRead
<1> QED
  BY <1>14, <1>17

(* The sources of a variable still lead to its node.                        *)
LEMMA AssignLeads ==
  ASSUME ValuesInv, NEW s \in Statements, Visit(s), VisitAssign(s)
  PROVE  TrueOnesLead'
<1>0. PICK e, node, line : e = s.from /\ node = ExprNode(e) /\ line = LineNode(s)
  OBVIOUS
<1>1. ValuesTyped /\ OfLinesRead /\ TrueOnesLead
  BY DEF ValuesInv
<1>2. /\ s.to \in Variables /\ e \in Expressions /\ line \in ValueNodes /\ line[2] = Here
      /\ nodeOf' = IF node = NoNode THEN nodeOf ELSE [nodeOf EXCEPT ![s.to] = line]
      /\ nodeOf \in [Variables -> ValueNodes \cup {NoNode}] /\ origins \in [Variables -> SUBSET Nat]
  BY <1>0, <1>1, AssignIs DEF LineNode, ValuesTyped
<1>3. /\ NewEdges(flowGraph', Here)
      /\ node # NoNode => <<node, line>> \in flowGraph'
  BY <1>0, <1>1, AssignEdges
<1>4. /\ origins' = [origins EXCEPT ![s.to] = Holds(e)] /\ truly' = truly /\ ends' = ends \cup SourcesIn(e)
      /\ dropped' = dropped \cup PassedOver(e)
  BY <1>0 DEF VisitAssign
<1>5. ASSUME NEW o, NEW n, LedTo(flowGraph, dropped, ends, o, n) PROVE LedTo(flowGraph', dropped', ends', o, n)
  BY <1>3, <1>4, <1>5, StillLed
<1>6. ASSUME NEW o \in Holds(e) PROVE LedTo(flowGraph', dropped', ends', o, line) /\ node # NoNode
  <2>1. /\ Heads(e) /\ (o \in PassedOver(e) \/ o \in OriginsOf(FirstKnown(e)))
        /\ <<"source", o>> \in ends \cup SourcesIn(e)
    BY <1>1, <1>2, <1>6, HoldsAre
  <2>2. node # NoNode
    BY <1>0, <1>1, <1>2, <2>1, NodeIs
  <2>3. CASE o \in PassedOver(e) \/ o \in dropped
    BY <2>1, <2>2, <2>3, <1>4 DEF LedTo
  <2>4. CASE o \in OriginsOf(FirstKnown(e)) /\ o \notin dropped
    <3>1. ComesTo(flowGraph, <<"source", o>>, node)
      BY <1>0, <1>1, <1>2, <2>1, <2>4, HeadLeads
    <3>2. ComesTo(flowGraph', <<"source", o>>, line)
      BY <1>1, <1>2, <1>3, <2>2, <3>1, LedFurther
    <3> QED
      BY <3>2, <2>1, <2>2, <1>4 DEF LedTo
  <2> QED
    BY <2>1, <2>3, <2>4
<1>7. ASSUME NEW v \in Variables, NEW o \in origins'[v] PROVE LedTo(flowGraph', dropped', ends', o, nodeOf'[v])
  <2>1. CASE v = s.to
    <3>1. o \in Holds(e)
      BY <2>1, <1>2, <1>4, <1>7
    <3>2. nodeOf'[v] = line
      BY <2>1, <3>1, <1>2, <1>6
    <3>3. LedTo(flowGraph', dropped', ends', o, line)
      BY <3>1, <1>6
    <3> QED
      BY <3>2, <3>3
  <2>2. CASE v # s.to
    <3>1. PICK n : n = nodeOf[v]
      OBVIOUS
    <3>2. o \in origins[v] /\ nodeOf'[v] = n
      BY <2>2, <3>1, <1>2, <1>4, <1>7
    <3>3. LedTo(flowGraph, dropped, ends, o, n)
      BY <3>1, <3>2, <1>1 DEF TrueOnesLead
    <3>4. LedTo(flowGraph', dropped', ends', o, n)
      BY <3>3, <1>5
    <3> QED
      BY <3>2, <3>4
  <2> QED
    BY <2>1, <2>2
<1>8. ASSUME NEW t \in truly PROVE LedTo(flowGraph', dropped', ends', t[1], <<"sink", t[2]>>) /\ <<"sink", t[2]>> \in ends'
  <2>1. LedTo(flowGraph, dropped, ends, t[1], <<"sink", t[2]>>) /\ <<"sink", t[2]>> \in ends
    BY <1>1 DEF TrueOnesLead
  <2> QED
    BY <2>1, <1>4, <1>5
<1> QED
  BY <1>4, <1>7, <1>8 DEF TrueOnesLead

(* What is held at the node of an operand, and of an expression.            *)
LEMMA HeldAtOperand ==
  ASSUME ValuesTyped, OfLinesRead, NEW K, RawAt(K), NEW o \in Operands, NodeOf(o) # NoNode, o \notin stale
  PROVE  K[NodeOf(o)] \subseteq OriginsOf(o)
<1>1. NodeOf(o) \in ValueNodes
  BY ValueNodesAre, DataflowGraphAssumption DEF NodeOf, Operands, ValuesTyped, Here
<1>2. CASE o = "source"
  <2>1. NodeOf(o) = <<"source", Here>> /\ OriginsOf(o) = {Here} /\ Here > linesRead /\ Here \in Nat
    BY <1>2 DEF NodeOf, OriginsOf, Here, ValuesTyped
  <2>2. NodeOf(o)[1] = "source" /\ NodeOf(o)[2] = Here
    BY <2>1
  <2>3. K[NodeOf(o)] = {Here}
    BY <1>1, <2>1, <2>2 DEF RawAt
  <2> QED
    BY <2>1, <2>3
<1>3. CASE o # "source"
  <2>1. o \in Variables /\ NodeOf(o) = nodeOf[o] /\ OriginsOf(o) = origins[o]
    BY <1>3, OperandNode, DataflowGraphAssumption DEF OriginsOf
  <2> QED
    BY <2>1 DEF RawAt
<1> QED
  BY <1>2, <1>3

LEMMA HeldAtExpression ==
  ASSUME ValuesTyped, OfLinesRead, NEW K, RawAt(K), NEW e \in Expressions, ExprNode(e) # NoNode
  PROVE  \/ K[ExprNode(e)] \subseteq Holds(e)
         \/ \E o \in ToSet(e.of) \cap stale : NodeOf(o) = ExprNode(e)
<1>1. CASE e.how = "clean"
  <2>1. ExprNode(e) = <<"sanitizer", Here>> /\ Here \in Nat /\ Here > linesRead
    BY <1>1, NodeIs DEF Here, ValuesTyped
  <2>2. ExprNode(e) \in ValueNodes /\ ExprNode(e)[1] # "source" /\ ExprNode(e)[2] = Here
    BY <2>1, ValueNodesAre
  <2>3. K[ExprNode(e)] = {}
    BY <2>1, <2>2 DEF RawAt
  <2> QED
    BY <2>3
<1>2. CASE e.how # "clean"
  <2>1. Heads(e) /\ ExprNode(e) = NodeOf(FirstKnown(e)) /\ FirstKnown(e) \in ToSet(e.of) /\ FirstKnown(e) \in Operands
    BY <1>2, NodeIs, OperandsAre
  <2>2. CASE FirstKnown(e) \in stale
    BY <2>1, <2>2
  <2>3. CASE FirstKnown(e) \notin stale
    <3>1. K[ExprNode(e)] \subseteq OriginsOf(FirstKnown(e))
      BY <2>1, <2>3, HeldAtOperand
    <3>2. OriginsOf(FirstKnown(e)) \subseteq Holds(e)
      BY <2>1, <1>2 DEF Holds
    <3> QED
      BY <3>1, <3>2
  <2> QED
    BY <2>2, <2>3
<1> QED
  BY <1>1, <1>2

(* The node of a line holds what the node it comes from does.               *)
LEMMA AssignHolds ==
  ASSUME ValuesInv, NEW s \in Statements, Visit(s), VisitAssign(s)
  PROVE  RawOnesTrue'
<1>0. PICK e, node, line : e = s.from /\ node = ExprNode(e) /\ line = LineNode(s)
  OBVIOUS
<1>1. ValuesTyped /\ OfLinesRead /\ TrueOnesLead /\ RawOnesTrue
  BY DEF ValuesInv
<1>2. PICK K : RawAt(K)
  BY <1>1 DEF RawOnesTrue
<1>3. /\ s.to \in Variables /\ e \in Expressions /\ line \in ValueNodes /\ line[2] = Here /\ line[1] = "line"
      /\ nodeOf' = IF node = NoNode THEN nodeOf ELSE [nodeOf EXCEPT ![s.to] = line]
      /\ nodeOf \in [Variables -> ValueNodes \cup {NoNode}] /\ origins \in [Variables -> SUBSET Nat]
  BY <1>0, <1>1, AssignIs DEF LineNode, ValuesTyped
<1>4. /\ linesRead' = Here /\ Here = linesRead + 1 /\ linesRead \in Nat /\ Here \in Nat
      /\ truly' = truly /\ misled' = misled /\ origins' = [origins EXCEPT ![s.to] = Holds(e)]
      /\ \A n \in ValueNodes : n[2] \in Nat
  BY <1>0, <1>1, ValueNodesAre DEF Visit, VisitAssign, Here, ValuesTyped
<1>5. /\ \A l \in flowGraph' \ flowGraph : l[2][1] = "sanitizer" \/ (node # NoNode /\ l = <<node, line>>)
      /\ flowGraph \subseteq ValueNodes \X ValueNodes
  BY <1>0, <1>1, AssignEdges DEF ValuesTyped
<1>6. node \in ValueNodes \cup {NoNode} /\ (node # NoNode => node[2] <= Here)
  BY <1>0, <1>1, <1>3, NodeIs, ExprNodeFits
<1>7. PICK L : L = IF node = NoNode THEN K ELSE [K EXCEPT ![line] = K[node]]
  OBVIOUS
<1>8. K \in [ValueNodes -> SUBSET Nat]
  BY <1>2 DEF RawAt
<1>9. /\ L \in [ValueNodes -> SUBSET Nat]
      /\ \A n \in ValueNodes : n # line => L[n] = K[n]
      /\ node # NoNode => L[line] = K[node]
      /\ node = NoNode => L[line] = K[line]
  BY <1>3, <1>6, <1>7, <1>8
<1>10. \A n \in ValueNodes : n[2] <= linesRead => n # line
  BY <1>3, <1>4
<1>11. \A n \in Nat : n \in L[<<"source", n>>] /\ L[<<"sink", n>>] = K[<<"sink", n>>]
  <2>1. ASSUME NEW n \in Nat PROVE /\ <<"source", n>> \in ValueNodes /\ <<"sink", n>> \in ValueNodes
                                   /\ <<"source", n>> # line /\ <<"sink", n>> # line
    <3>1. <<"source", n>> \in ValueNodes /\ <<"sink", n>> \in ValueNodes
      BY ValueNodesAre
    <3>2. <<"source", n>>[1] # line[1] /\ <<"sink", n>>[1] # line[1]
      BY <1>3
    <3> QED
      BY <3>1, <3>2
  <2> QED
    BY <2>1, <1>2, <1>9 DEF RawAt
<1>12. ASSUME NEW l \in flowGraph', l[1][1] # "sanitizer", l[2][1] # "sanitizer" PROVE L[l[1]] \subseteq L[l[2]]
  <2>1. CASE l \in flowGraph
    <3>1. l[1] \in ValueNodes /\ l[2] \in ValueNodes /\ l[1][2] <= linesRead /\ l[2][2] <= linesRead
      BY <2>1, <1>1, <1>5 DEF OfLinesRead
    <3>2. K[l[1]] \subseteq K[l[2]]
      BY <2>1, <1>2, <1>12 DEF RawAt
    <3> QED
      BY <3>1, <3>2, <1>9, <1>10
  <2>2. CASE l \notin flowGraph
    <3>1. node # NoNode /\ l[1] = node /\ l[2] = line
      BY <2>2, <1>5, <1>12
    <3> QED
      BY <3>1, <1>6, <1>9
  <2> QED
    BY <2>1, <2>2
<1>13. /\ s.to \notin stale' /\ node # NoNode => ~\E o \in ToSet(e.of) \cap stale : NodeOf(o) = node
       /\ s.to \notin stale' /\ node = NoNode => nodeOf[s.to] = NoNode
       /\ \A v : v # s.to => (v \in stale' <=> v \in stale)
  BY <1>0 DEF VisitAssign
<1>14. ASSUME NEW v \in Variables, nodeOf'[v] # NoNode, v \notin stale' PROVE L[nodeOf'[v]] \subseteq origins'[v]
  <2>1. CASE v # s.to
    <3>1. nodeOf'[v] = nodeOf[v] /\ origins'[v] = origins[v] /\ v \notin stale /\ nodeOf[v] \in ValueNodes
      BY <2>1, <1>3, <1>4, <1>13, <1>14
    <3>2. nodeOf[v][2] <= linesRead /\ K[nodeOf[v]] \subseteq origins[v]
      BY <3>1, <1>1, <1>2, <1>14 DEF OfLinesRead, RawAt
    <3> QED
      BY <3>1, <3>2, <1>9, <1>10
  <2>2. CASE v = s.to
    <3>1. node # NoNode
      BY <2>2, <1>3, <1>13, <1>14
    <3>2. nodeOf'[v] = line /\ L[line] = K[node] /\ origins'[v] = Holds(e)
      BY <2>2, <3>1, <1>3, <1>4, <1>9
    <3>3. K[node] \subseteq Holds(e)
      BY <2>2, <3>1, <1>0, <1>1, <1>2, <1>3, <1>13, <1>14, HeldAtExpression
    <3> QED
      BY <3>2, <3>3
  <2> QED
    BY <2>1, <2>2
<1>15. ASSUME NEW n \in ValueNodes, n[2] > Here PROVE L[n] = IF n[1] = "source" THEN {n[2]} ELSE {}
  <2>1. n[2] > linesRead /\ n # line
    BY <1>3, <1>4, <1>15
  <2> QED
    BY <2>1, <1>2, <1>9 DEF RawAt
<1>16. RawAt(L)'
  BY <1>2, <1>4, <1>9, <1>11, <1>12, <1>14, <1>15 DEF RawAt
<1> QED
  BY <1>16 DEF RawOnesTrue

-----------------------------------------------------------------------------
(* visit_Call of a sink.                                                    *)
SinkHere == <<"sink", Here>>

LEMMA SinkIs ==
  ASSUME ValuesTyped, NEW s \in Statements, s.op = "sink"
  PROVE  /\ \A e \in ToSet(s.args) : e \in Expressions
         /\ IsFiniteSet(ToSet(s.args))
         /\ SinkHere \in ValueNodes /\ SinkHere[1] = "sink" /\ SinkHere[2] = Here
<1>1. s.args \in Seq(Expressions)
  BY DataflowGraphAssumption DEF StatementShapes
<1>2. Len(s.args) \in Nat /\ DOMAIN s.args = 1..Len(s.args) /\ \A n \in DOMAIN s.args : s.args[n] \in Expressions
  BY <1>1, LenProperties, ElementOfSeq
<1>3. IsFiniteSet(1..Len(s.args))
  BY <1>2, FS_Interval
<1>4. PICK f : f = s.args
  OBVIOUS
<1>5. IsFiniteSet({f[n] : n \in DOMAIN f})
  BY <1>2, <1>3, <1>4, FiniteImage
<1>6. IsFiniteSet(ToSet(s.args))
  BY <1>4, <1>5 DEF ToSet
<1>7. SinkHere \in ValueNodes /\ SinkHere[1] = "sink" /\ SinkHere[2] = Here
  BY ValueNodesAre DEF SinkHere, ValuesTyped, Here
<1> QED
  BY <1>2, <1>6, <1>7 DEF ToSet

LEMMA SinkEdges ==
  ASSUME ValuesTyped, OfLinesRead, NEW s \in Statements, VisitSink(s)
  PROVE  /\ NewEdges(flowGraph', Here)
         /\ \A l \in flowGraph' \ flowGraph :
               \/ l[2][1] = "sanitizer"
               \/ l[2] = SinkHere /\ \E e \in ToSet(s.args) : ExprNode(e) # NoNode /\ l[1] = ExprNode(e)
         /\ \A e \in ToSet(s.args) : ExprNode(e) # NoNode => <<ExprNode(e), SinkHere>> \in flowGraph'
<1> DEFINE args == ToSet(s.args)
           nodes == {ExprNode(e) : e \in args} \ {NoNode}
           on == {<<n, SinkHere>> : n \in nodes}
           inside == {ExprEdges(e) : e \in args}
<1>1. s.op = "sink" /\ flowGraph' = flowGraph \cup on \cup UNION inside
  BY DEF VisitSink, SinkHere
<1>2. /\ \A e \in args : e \in Expressions
      /\ IsFiniteSet(args) /\ SinkHere \in ValueNodes /\ SinkHere[2] = Here
  BY <1>1, SinkIs
<1>3. \A e \in args : /\ IsFiniteSet(ExprEdges(e)) /\ ExprEdges(e) \subseteq ValueNodes \X ValueNodes
                      /\ \A l \in ExprEdges(e) : l[2] = <<"sanitizer", Here>> /\ l[2][2] = Here /\ l[1][1] # "sink" /\ l[1][2] <= Here
  BY <1>2, EdgesAre, ExprEdgesFit
<1>4. \A n \in nodes : n \in ValueNodes /\ n[1] # "sink" /\ n[2] <= Here
  BY <1>2, ExprNodeFits
<1>5. IsFiniteSet(UNION inside)
  <2>1. PICK f : f = [e \in args |-> ExprEdges(e)]
    OBVIOUS
  <2>2. IsFiniteSet({f[e] : e \in args})
    <3> HIDE DEF args
    <3> QED
      BY <2>1, <1>2, FiniteImage
  <2>3. inside = {f[e] : e \in args}
    BY <2>1
  <2>4. IsFiniteSet(inside)
    BY <2>2, <2>3
  <2> HIDE DEF inside
  <2>5. \A T \in inside : IsFiniteSet(T)
    BY <1>3 DEF inside
  <2> QED
    BY <2>4, <2>5, FS_UNION
<1>6. IsFiniteSet(on)
  <2>1. PICK f : f = [e \in args |-> <<ExprNode(e), SinkHere>>]
    OBVIOUS
  <2>2. IsFiniteSet({f[e] : e \in args})
    <3> HIDE DEF args
    <3> QED
      BY <2>1, <1>2, FiniteImage
  <2>3. on \subseteq {f[e] : e \in args}
    BY <2>1
  <2> HIDE DEF on
  <2> QED
    BY <2>2, <2>3, FS_Subset
<1>7. flowGraph \subseteq ValueNodes \X ValueNodes /\ IsFiniteSet(flowGraph)
  BY DEF ValuesTyped
<1>8. on \subseteq ValueNodes \X ValueNodes /\ UNION inside \subseteq ValueNodes \X ValueNodes
  BY <1>2, <1>3, <1>4
<1>9. ASSUME NEW l \in flowGraph' \ flowGraph
      PROVE  /\ l[2][2] = Here /\ l[1][1] # "sink" /\ l[1][2] <= Here
             /\ \/ l[2][1] = "sanitizer"
                \/ l[2] = SinkHere /\ \E e \in args : ExprNode(e) # NoNode /\ l[1] = ExprNode(e)
  <2>1. CASE l \in on
    <3>1. PICK n \in nodes : l = <<n, SinkHere>>
      BY <2>1
    <3>2. l[1] = n /\ l[2] = SinkHere
      BY <3>1
    <3>3. \E e \in args : ExprNode(e) # NoNode /\ n = ExprNode(e)
      OBVIOUS
    <3> QED
      BY <3>2, <3>3, <1>2, <1>4
  <2>2. CASE l \in UNION inside
    <3>1. PICK e \in args : l \in ExprEdges(e)
      BY <2>2
    <3>2. l[2] = <<"sanitizer", Here>> /\ l[2][2] = Here /\ l[1][1] # "sink" /\ l[1][2] <= Here
      BY <3>1, <1>3
    <3> QED
      BY <3>2
  <2> QED
    BY <2>1, <2>2, <1>1
<1>10. \A e \in args : ExprNode(e) # NoNode => <<ExprNode(e), SinkHere>> \in flowGraph'
  BY <1>1
<1> HIDE DEF on, inside
<1>11. IsFiniteSet(flowGraph')
  BY <1>1, <1>5, <1>6, <1>7, FS_Union
<1>12. flowGraph \subseteq flowGraph' /\ flowGraph' \subseteq ValueNodes \X ValueNodes
  BY <1>1, <1>7, <1>8
<1> QED
  BY <1>9, <1>10, <1>11, <1>12 DEF NewEdges

LEMMA SinkKeepsTypes ==
  ASSUME ValuesInv, NEW s \in Statements, Visit(s), VisitSink(s)
  PROVE  ValuesTyped' /\ OfLinesRead'
<1>1. ValuesTyped /\ OfLinesRead /\ TrueOnesLead
  BY DEF ValuesInv
<1>2. s.op = "sink" /\ (\A e \in ToSet(s.args) : e \in Expressions)
  <2>1. s.op = "sink"
    BY DEF VisitSink
  <2> QED
    BY <1>1, <2>1, SinkIs
<1>3. NewEdges(flowGraph', Here)
  BY <1>1, SinkEdges
<1>4. /\ linesRead' = Here /\ linesRead < MaxStatements /\ evaluated' = FALSE /\ linesRead \in Nat
      /\ MaxStatements \in Nat
  BY <1>1, DataflowGraphAssumption DEF Visit, ValuesTyped
<1>5. linesRead' \in Nat /\ linesRead' <= MaxStatements /\ Here = linesRead + 1
  BY <1>4 DEF Here
<1>6. /\ ends' = ends \cup {<<"sink", Here>>} \cup UNION {SourcesIn(e) : e \in ToSet(s.args)}
      /\ truly' = truly \cup {<<o, Here>> : o \in UNION {Holds(e) : e \in ToSet(s.args)}}
      /\ nodeOf' = nodeOf /\ origins' = origins /\ stale' = stale
  BY DEF VisitSink
<1>7. ends' \subseteq {"source", "sink"} \X (1..linesRead')
  <2>1. \A n \in 1..linesRead : n \in 1..Here
    BY <1>4, <1>5
  <2>2. Here \in 1..Here
    BY <1>4, <1>5
  <2> QED
    BY <2>1, <2>2, <1>1, <1>4, <1>6 DEF ValuesTyped, SourcesIn
<1>8. truly' \subseteq Nat \X Nat
  <2>1. \A e \in ToSet(s.args) : \A o \in Holds(e) : o \in Nat
    BY <1>1, <1>2, HoldsAre
  <2>2. Here \in Nat
    BY <1>4, <1>5
  <2> QED
    BY <2>1, <2>2, <1>1, <1>6 DEF ValuesTyped
<1>9. ValuesTyped'
  BY <1>1, <1>3, <1>4, <1>5, <1>6, <1>7, <1>8 DEF ValuesTyped, NewEdges
<1>10. ASSUME NEW l \in flowGraph' PROVE l[1][1] # "sink" /\ l[1][2] <= Here /\ l[2][2] <= Here
  <2>1. CASE l \in flowGraph
    <3>1. l[1] \in ValueNodes /\ l[2] \in ValueNodes
      BY <2>1, <1>1 DEF ValuesTyped
    <3>2. l[1][1] # "sink" /\ l[1][2] <= linesRead /\ l[2][2] <= linesRead /\ l[1][2] \in Nat /\ l[2][2] \in Nat
      BY <2>1, <3>1, <1>1, ValueNodesAre DEF OfLinesRead
    <3> QED
      BY <3>2, <1>4, <1>5
  <2>2. CASE l \notin flowGraph
    BY <2>2, <1>3, <1>4, <1>5 DEF NewEdges
  <2> QED
    BY <2>1, <2>2
<1>11. ASSUME NEW v \in Variables, nodeOf[v] # NoNode PROVE nodeOf[v][1] # "sink" /\ nodeOf[v][2] <= Here
  <2>1. nodeOf[v] \in ValueNodes
    BY <1>11, <1>1 DEF ValuesTyped
  <2>2. nodeOf[v][1] # "sink" /\ nodeOf[v][2] <= linesRead /\ nodeOf[v][2] \in Nat
    BY <1>11, <2>1, <1>1, ValueNodesAre DEF OfLinesRead
  <2> QED
    BY <2>2, <1>4, <1>5
<1>12. OfLinesRead'
  BY <1>4, <1>6, <1>10, <1>11 DEF OfLinesRead
<1> QED
  BY <1>9, <1>12

LEMMA SinkLeads ==
  ASSUME ValuesInv, NEW s \in Statements, Visit(s), VisitSink(s)
  PROVE  TrueOnesLead'
<1>1. ValuesTyped /\ OfLinesRead /\ TrueOnesLead
  BY DEF ValuesInv
<1>2. s.op = "sink"
  BY DEF VisitSink
<1>3. (\A e \in ToSet(s.args) : e \in Expressions) /\ SinkHere \in ValueNodes /\ SinkHere[2] = Here
  BY <1>1, <1>2, SinkIs
<1>4. /\ NewEdges(flowGraph', Here)
      /\ \A e \in ToSet(s.args) : ExprNode(e) # NoNode => <<ExprNode(e), SinkHere>> \in flowGraph'
  BY <1>1, SinkEdges
<1>5. /\ ends' = ends \cup {SinkHere} \cup UNION {SourcesIn(e) : e \in ToSet(s.args)}
      /\ truly' = truly \cup {<<o, Here>> : o \in UNION {Holds(e) : e \in ToSet(s.args)}}
      /\ dropped' = dropped \cup UNION {PassedOver(e) : e \in ToSet(s.args)}
      /\ nodeOf' = nodeOf /\ origins' = origins
  BY DEF VisitSink, SinkHere
<1>6. ASSUME NEW o, NEW n, LedTo(flowGraph, dropped, ends, o, n) PROVE LedTo(flowGraph', dropped', ends', o, n)
  BY <1>4, <1>5, <1>6, StillLed
<1>7. ASSUME NEW e \in ToSet(s.args), NEW o \in Holds(e) PROVE LedTo(flowGraph', dropped', ends', o, SinkHere)
  <2>1. /\ Heads(e) /\ (o \in PassedOver(e) \/ o \in OriginsOf(FirstKnown(e)))
        /\ <<"source", o>> \in ends \cup SourcesIn(e)
    BY <1>1, <1>3, <1>7, HoldsAre
  <2>2. ExprNode(e) # NoNode
    BY <1>1, <1>3, <2>1, NodeIs
  <2>3. <<"source", o>> \in ends'
    BY <2>1, <1>5
  <2>4. CASE o \in PassedOver(e) \/ o \in dropped
    BY <2>3, <2>4, <1>5 DEF LedTo
  <2>5. CASE o \in OriginsOf(FirstKnown(e)) /\ o \notin dropped
    <3>1. ComesTo(flowGraph, <<"source", o>>, ExprNode(e))
      BY <1>1, <1>3, <2>1, <2>5, HeadLeads
    <3>2. ComesTo(flowGraph', <<"source", o>>, SinkHere)
      BY <1>1, <1>3, <1>4, <2>2, <3>1, LedFurther
    <3> QED
      BY <3>2, <2>3 DEF LedTo
  <2> QED
    BY <2>1, <2>4, <2>5
<1>8. ASSUME NEW v \in Variables, NEW o \in origins[v] PROVE LedTo(flowGraph', dropped', ends', o, nodeOf[v])
  BY <1>1, <1>6 DEF TrueOnesLead
<1>9. ASSUME NEW t \in truly'
      PROVE  LedTo(flowGraph', dropped', ends', t[1], <<"sink", t[2]>>) /\ <<"sink", t[2]>> \in ends'
  <2>1. CASE t \in truly
    <3>1. LedTo(flowGraph, dropped, ends, t[1], <<"sink", t[2]>>) /\ <<"sink", t[2]>> \in ends
      BY <2>1, <1>1 DEF TrueOnesLead
    <3> QED
      BY <3>1, <1>5, <1>6
  <2>2. CASE t \notin truly
    <3>1. PICK e \in ToSet(s.args) : \E o \in Holds(e) : t = <<o, Here>>
      BY <2>2, <1>5
    <3> PICK o \in Holds(e) : t = <<o, Here>>
      BY <3>1
    <3>2. t[1] = o /\ <<"sink", t[2]>> = SinkHere
      BY DEF SinkHere
    <3> QED
      BY <3>2, <1>5, <1>7
  <2> QED
    BY <2>1, <2>2
<1> QED
  BY <1>5, <1>8, <1>9 DEF TrueOnesLead

(* The node of a sink holds what those of its arguments do.                 *)
LEMMA SinkHolds ==
  ASSUME ValuesInv, NEW s \in Statements, Visit(s), VisitSink(s)
  PROVE  RawOnesTrue'
<1>0. PICK sink : sink = SinkHere
  OBVIOUS
<1>1. ValuesTyped /\ OfLinesRead /\ TrueOnesLead /\ RawOnesTrue
  BY DEF ValuesInv
<1>2. PICK K : RawAt(K)
  BY <1>1 DEF RawOnesTrue
<1>3. s.op = "sink"
  BY DEF VisitSink
<1>4. /\ \A e \in ToSet(s.args) : e \in Expressions
      /\ sink \in ValueNodes /\ sink[1] = "sink" /\ sink[2] = Here /\ sink = <<"sink", Here>>
  BY <1>0, <1>1, <1>3, SinkIs DEF SinkHere
<1>5. /\ linesRead' = Here /\ Here = linesRead + 1 /\ linesRead \in Nat /\ Here \in Nat
      /\ \A n \in ValueNodes : n[2] \in Nat
      /\ nodeOf' = nodeOf /\ origins' = origins /\ stale' = stale
      /\ truly' = truly \cup {<<o, Here>> : o \in UNION {Holds(e) : e \in ToSet(s.args)}}
      /\ misled' = IF \E e \in ToSet(s.args) : ToSet(e.of) \cap stale # {} THEN misled \cup {Here} ELSE misled
  BY <1>1, ValueNodesAre DEF Visit, VisitSink, Here, ValuesTyped
<1>6. /\ \A l \in flowGraph' \ flowGraph :
            \/ l[2][1] = "sanitizer"
            \/ l[2] = sink /\ \E e \in ToSet(s.args) : ExprNode(e) # NoNode /\ l[1] = ExprNode(e)
      /\ flowGraph \subseteq ValueNodes \X ValueNodes
  BY <1>0, <1>1, SinkEdges DEF ValuesTyped
<1>7. \A e \in ToSet(s.args) : ExprNode(e) # NoNode => ExprNode(e) \in ValueNodes /\ ExprNode(e) # sink
  BY <1>1, <1>4, ExprNodeFits
<1>8. K \in [ValueNodes -> SUBSET Nat]
  BY <1>2 DEF RawAt
<1> DEFINE nodes == {n \in ValueNodes : \E e \in ToSet(s.args) : ExprNode(e) = n}
           held == UNION {K[n] : n \in nodes}
<1>9. held \subseteq Nat
  BY <1>8
<1>10. PICK L : L = [K EXCEPT ![sink] = held]
  OBVIOUS
<1>11. /\ L \in [ValueNodes -> SUBSET Nat]
       /\ \A n \in ValueNodes : n # sink => L[n] = K[n]
       /\ L[sink] = held
  BY <1>4, <1>8, <1>9, <1>10
<1>12. \A n \in ValueNodes : n[2] <= linesRead => n # sink
  BY <1>4, <1>5
<1>13. ASSUME NEW n \in Nat PROVE n \in L[<<"source", n>>]
  <2>1. <<"source", n>> \in ValueNodes /\ <<"source", n>>[1] = "source"
    BY ValueNodesAre
  <2>2. <<"source", n>> # sink
    BY <2>1, <1>4
  <2> QED
    BY <2>1, <2>2, <1>2, <1>11 DEF RawAt
<1>14. ASSUME NEW l \in flowGraph', l[1][1] # "sanitizer", l[2][1] # "sanitizer" PROVE L[l[1]] \subseteq L[l[2]]
  <2>1. CASE l \in flowGraph
    <3>1. l[1] \in ValueNodes /\ l[2] \in ValueNodes /\ l[1][2] <= linesRead /\ l[2][2] <= linesRead
      BY <2>1, <1>1, <1>6 DEF OfLinesRead
    <3>2. K[l[1]] \subseteq K[l[2]]
      BY <2>1, <1>2, <1>14 DEF RawAt
    <3>3. l[1] # sink /\ l[2] # sink
      BY <3>1, <1>12
    <3> QED
      BY <3>1, <3>2, <3>3, <1>11
  <2>2. CASE l \notin flowGraph
    <3>1. PICK e \in ToSet(s.args) : l[2] = sink /\ ExprNode(e) # NoNode /\ l[1] = ExprNode(e)
      BY <2>2, <1>6, <1>14
    <3>2. l[1] \in nodes /\ l[1] # sink /\ l[1] \in ValueNodes
      BY <3>1, <1>7
    <3>3. L[l[1]] = K[l[1]] /\ K[l[1]] \subseteq held
      BY <3>2, <1>11
    <3> QED
      BY <3>1, <3>3, <1>11
  <2> QED
    BY <2>1, <2>2
<1>15. ASSUME NEW v \in Variables, nodeOf[v] # NoNode, v \notin stale PROVE L[nodeOf[v]] \subseteq origins[v]
  <2>1. nodeOf[v] \in ValueNodes /\ nodeOf[v][1] # "sink"
    BY <1>1, <1>15 DEF OfLinesRead, ValuesTyped
  <2>2. nodeOf[v] # sink
    BY <2>1, <1>4
  <2> QED
    BY <2>1, <2>2, <1>2, <1>11, <1>15 DEF RawAt
<1>16. ASSUME NEW o \in held PROVE <<o, Here>> \in truly' \/ Here \in misled'
  <2>1. PICK n \in nodes : o \in K[n]
    OBVIOUS
  <2>2. PICK e \in ToSet(s.args) : ExprNode(e) = n
    OBVIOUS
  <2>3. e \in Expressions /\ ExprNode(e) # NoNode
    BY <1>4, <2>2, ValueNodesAre
  <2>4. CASE K[ExprNode(e)] \subseteq Holds(e)
    BY <2>1, <2>2, <2>4, <1>5
  <2>5. CASE \E p \in ToSet(e.of) \cap stale : NodeOf(p) = ExprNode(e)
    BY <2>2, <2>5, <1>5
  <2> QED
    BY <2>3, <2>4, <2>5, <1>1, <1>2, HeldAtExpression
<1> HIDE DEF held, nodes
<1>17. ASSUME NEW n \in Nat, NEW o \in L[<<"sink", n>>] PROVE <<o, n>> \in truly' \/ n \in misled'
  <2>1. CASE n = Here
    <3>1. L[<<"sink", n>>] = held
      BY <2>1, <1>4, <1>11
    <3> QED
      BY <2>1, <3>1, <1>16, <1>17
  <2>2. CASE n # Here
    <3>1. <<"sink", n>> \in ValueNodes /\ <<"sink", n>>[2] = n
      BY ValueNodesAre
    <3>2. <<"sink", n>> # sink
      BY <2>2, <3>1, <1>4
    <3>3. o \in K[<<"sink", n>>]
      BY <3>1, <3>2, <1>11, <1>17
    <3>4. <<o, n>> \in truly \/ n \in misled
      BY <3>3, <1>2 DEF RawAt
    <3> QED
      BY <3>4, <1>5
  <2> QED
    BY <2>1, <2>2
<1>18. ASSUME NEW n \in ValueNodes, n[2] > Here PROVE L[n] = IF n[1] = "source" THEN {n[2]} ELSE {}
  <2>1. n[2] > linesRead /\ n # sink
    BY <1>4, <1>5, <1>18
  <2> QED
    BY <2>1, <1>2, <1>11 DEF RawAt
<1>19. RawAt(L)'
  BY <1>5, <1>11, <1>13, <1>14, <1>15, <1>17, <1>18 DEF RawAt
<1> QED
  BY <1>19 DEF RawOnesTrue

-----------------------------------------------------------------------------
(* visit_FunctionDef.                                                       *)
LEMMA DefKeeps ==
  ASSUME ValuesInv, NEW s \in Statements, Visit(s), VisitDef(s)
  PROVE  ValuesInv'
<1>1. ValuesTyped /\ OfLinesRead /\ TrueOnesLead /\ RawOnesTrue
  BY DEF ValuesInv
<1>2. s.params \subseteq Variables
  BY DataflowGraphAssumption DEF StatementShapes, VisitDef
<1>3. /\ linesRead' = Here /\ linesRead < MaxStatements /\ evaluated' = FALSE /\ linesRead \in Nat
      /\ MaxStatements \in Nat
  BY <1>1, DataflowGraphAssumption DEF Visit, ValuesTyped
<1>4. linesRead' \in Nat /\ linesRead' <= MaxStatements /\ Here = linesRead + 1 /\ Here \in Nat
  BY <1>3 DEF Here
<1>5. /\ nodeOf' = [v \in Variables |-> IF v \in s.params THEN <<"param", Here, v>> ELSE nodeOf[v]]
      /\ origins' = [v \in Variables |-> {}]
      /\ stale' = {v \in Variables \ s.params : nodeOf[v] # NoNode}
      /\ flowGraph' = flowGraph /\ ends' = ends /\ truly' = truly /\ dropped' = dropped /\ misled' = misled
  BY DEF VisitDef
<1>6. \A v \in Variables : /\ <<"param", Here, v>> \in ValueNodes /\ <<"param", Here, v>> # NoNode
                           /\ <<"param", Here, v>>[1] = "param" /\ <<"param", Here, v>>[2] = Here
  BY <1>4, ValueNodesAre
<1>7. /\ nodeOf \in [Variables -> ValueNodes \cup {NoNode}]
      /\ \A n \in ValueNodes : n[2] \in Nat
  BY <1>1, ValueNodesAre DEF ValuesTyped
<1>8. ends' \subseteq {"source", "sink"} \X (1..linesRead')
  <2>1. \A n \in 1..linesRead : n \in 1..Here
    BY <1>3, <1>4
  <2> QED
    BY <2>1, <1>1, <1>3, <1>5 DEF ValuesTyped
<1>9. nodeOf' \in [Variables -> ValueNodes \cup {NoNode}] /\ origins' \in [Variables -> SUBSET Nat]
  BY <1>5, <1>6, <1>7
<1>10. ASSUME NEW v \in Variables, nodeOf'[v] = NoNode PROVE v \notin stale' /\ origins'[v] = {}
  BY <1>5, <1>6, <1>10
<1>11. ValuesTyped'
  BY <1>1, <1>3, <1>4, <1>5, <1>8, <1>9, <1>10 DEF ValuesTyped
<1>12. ASSUME NEW l \in flowGraph PROVE l[1][1] # "sink" /\ l[1][2] <= Here /\ l[2][2] <= Here
  <2>1. l[1] \in ValueNodes /\ l[2] \in ValueNodes
    BY <1>1 DEF ValuesTyped
  <2>2. l[1][1] # "sink" /\ l[1][2] <= linesRead /\ l[2][2] <= linesRead /\ l[1][2] \in Nat /\ l[2][2] \in Nat
    BY <2>1, <1>1, <1>7 DEF OfLinesRead
  <2> QED
    BY <2>2, <1>3, <1>4
<1>13. ASSUME NEW v \in Variables, nodeOf'[v] # NoNode PROVE nodeOf'[v][1] # "sink" /\ nodeOf'[v][2] <= Here
  <2>1. CASE v \in s.params
    BY <2>1, <1>4, <1>5, <1>6
  <2>2. CASE v \notin s.params
    <3>1. nodeOf'[v] = nodeOf[v] /\ nodeOf[v] \in ValueNodes
      BY <2>2, <1>5, <1>7, <1>13
    <3>2. nodeOf[v][1] # "sink" /\ nodeOf[v][2] <= linesRead /\ nodeOf[v][2] \in Nat
      BY <3>1, <1>1, <1>7, <1>13 DEF OfLinesRead
    <3> QED
      BY <3>1, <3>2, <1>3, <1>4
  <2> QED
    BY <2>1, <2>2
<1>14. OfLinesRead'
  BY <1>3, <1>5, <1>12, <1>13 DEF OfLinesRead
<1>15. TrueOnesLead'
  BY <1>1, <1>5 DEF TrueOnesLead
<1>16. RawOnesTrue'
  <2>1. PICK K : RawAt(K)
    BY <1>1 DEF RawOnesTrue
  <2>2. ASSUME NEW v \in Variables, nodeOf'[v] # NoNode, v \notin stale' PROVE K[nodeOf'[v]] \subseteq origins'[v]
    <3>1. v \in s.params
      BY <2>2, <1>5
    <3>2. PICK p : p = <<"param", Here, v>>
      OBVIOUS
    <3>3. nodeOf'[v] = p /\ p \in ValueNodes /\ p[2] > linesRead /\ p[1] # "source"
      BY <3>1, <3>2, <1>3, <1>4, <1>5, <1>6
    <3>4. K[p] = {}
      BY <3>3, <2>1 DEF RawAt
    <3> QED
      BY <3>3, <3>4
  <2>3. \A n \in ValueNodes : n[2] > Here => n[2] > linesRead
    BY <1>3, <1>4, <1>7
  <2>4. RawAt(K)'
    BY <2>1, <2>2, <2>3, <1>3, <1>5 DEF RawAt
  <2> QED
    BY <2>4 DEF RawOnesTrue
<1> QED
  BY <1>3, <1>11, <1>14, <1>15, <1>16 DEF ValuesInv

-----------------------------------------------------------------------------
(* _evaluate_flows.                                                         *)
LEMMA ShortestAre ==
  ASSUME ValuesTyped, NEW s \in ValueNodes, NEW t
  PROVE  /\ \A w : w \in ShortestPaths(s, t) <=> NoneShorter(flowGraph, w, s, t)
         /\ ComesTo(flowGraph, s, t) => ShortestPaths(s, t) # {}
<1>1. \A w : w \in Ways(s, t) <=> Leads(flowGraph, w, s, t) /\ FewEdges(flowGraph, w)
  BY WaysAre DEF ValuesTyped
<1>2. \A w : w \in ShortestPaths(s, t) <=> NoneShorter(flowGraph, w, s, t)
  BY <1>1 DEF ShortestPaths, NoneShorter
<1>3. ASSUME ComesTo(flowGraph, s, t) PROVE ShortestPaths(s, t) # {}
  <2> DEFINE Lengths == {n \in Nat : \E w \in Ways(s, t) : Len(w) = n}
  <2>1. \A w \in Ways(s, t) : Len(w) \in Nat
    BY <1>1, LenProperties DEF Leads
  <2>2. Lengths # {}
    BY <1>1, <1>3, <2>1 DEF ComesTo
  <2>3. PICK k \in Lengths : \A l \in Lengths : k <= l
    <3> HIDE DEF Lengths
    <3>1. Lengths \subseteq Nat
      BY DEF Lengths
    <3> QED
      BY <2>2, <3>1, EarliestExists
  <2>4. PICK w \in Ways(s, t) : Len(w) = k
    OBVIOUS
  <2>5. \A r \in Ways(s, t) : Len(w) <= Len(r)
    BY <2>1, <2>3, <2>4
  <2> QED
    BY <2>4, <2>5 DEF ShortestPaths
<1> QED
  BY <1>2, <1>3

LEMMA EvaluationReports ==
  ASSUME ValuesInv, EvaluateFlows
  PROVE  ValuesInv'
<1>1. ValuesTyped /\ OfLinesRead /\ TrueOnesLead /\ RawOnesTrue
  BY DEF ValuesInv
<1>2. /\ evaluated' = TRUE
      /\ UNCHANGED <<linesRead, nodeOf, flowGraph, ends, origins, truly, dropped, stale, misled>>
  BY DEF EvaluateFlows
<1>3. PICK path \in [Pairs -> UNION {ShortestPaths(p[1], p[2]) : p \in Pairs}] :
        /\ \A p \in Pairs : path[p] \in ShortestPaths(p[1], p[2])
        /\ flows' = {[from |-> p[1][2], to |-> p[2][2], exploitable |-> ~PassesSanitizer(path[p])] : p \in Pairs}
  BY DEF EvaluateFlows
<1>4. ASSUME NEW n \in ends PROVE n \in ValueNodes /\ n[2] \in Nat
  <2>1. PICK k \in {"source", "sink"}, i \in 1..linesRead : n = <<k, i>>
    BY <1>1 DEF ValuesTyped
  <2>2. i \in Nat
    BY <1>1 DEF ValuesTyped
  <2> QED
    BY <2>1, <2>2, ValueNodesAre
<1>5. ASSUME NEW p \in Pairs
      PROVE  /\ p[1] = <<"source", p[1][2]>> /\ p[2] = <<"sink", p[2][2]>> /\ p[1][2] \in Nat /\ p[2][2] \in Nat
             /\ p[1] \in ValueNodes /\ NoneShorter(flowGraph, path[p], p[1], p[2])
  <2>1. p[1] \in ends /\ p[2] \in ends /\ p[1][1] = "source" /\ p[2][1] = "sink"
    BY DEF Pairs
  <2>2. p[1] \in ValueNodes /\ p[2] \in ValueNodes /\ p[1][2] \in Nat /\ p[2][2] \in Nat
    BY <2>1, <1>4
  <2>3. path[p] \in ShortestPaths(p[1], p[2])
    BY <1>3
  <2>4. NoneShorter(flowGraph, path[p], p[1], p[2])
    BY <2>2, <2>3, <1>1, ShortestAre
  <2> QED
    BY <2>1, <2>2, <2>4, ValueNodesAre
<1>6. ASSUME NEW a \in Nat, NEW b \in Nat, <<"source", a>> \in ends, <<"sink", b>> \in ends,
             ComesTo(flowGraph, <<"source", a>>, <<"sink", b>>)
      PROVE  \E f \in flows' :
                /\ f.from = a /\ f.to = b
                /\ f.exploitable \/ \E w : NoneShorter(flowGraph, w, <<"source", a>>, <<"sink", b>>) /\ PassesSanitizer(w)
  <2>1. PICK s, t : s = <<"source", a>> /\ t = <<"sink", b>>
    OBVIOUS
  <2>2. s \in ends /\ t \in ends /\ s[1] = "source" /\ t[1] = "sink" /\ s[2] = a /\ t[2] = b /\ s \in ValueNodes
    BY <2>1, <1>4, <1>6
  <2>3. ShortestPaths(s, t) # {}
    BY <2>1, <2>2, <1>1, <1>6, ShortestAre
  <2>4. PICK p : p = <<s, t>>
    OBVIOUS
  <2>5. p \in Pairs /\ p[1] = s /\ p[2] = t
    BY <2>2, <2>3, <2>4 DEF Pairs
  <2>6. PICK f : f = [from |-> p[1][2], to |-> p[2][2], exploitable |-> ~PassesSanitizer(path[p])]
    OBVIOUS
  <2>7. f \in flows'
    BY <2>5, <2>6, <1>3
  <2>8. f.from = a /\ f.to = b /\ (f.exploitable = ~PassesSanitizer(path[p]))
    BY <2>2, <2>5, <2>6
  <2>9. NoneShorter(flowGraph, path[p], s, t)
    BY <2>5, <1>5
  <2> QED
    BY <2>1, <2>7, <2>8, <2>9
<1>7. ASSUME NEW f \in flows'
      PROVE  /\ f.from \in Nat /\ f.to \in Nat
             /\ f.exploitable => \E w : /\ Leads(flowGraph, w, <<"source", f.from>>, <<"sink", f.to>>)
                                        /\ ~PassesSanitizer(w)
  <2>1. PICK p \in Pairs : f = [from |-> p[1][2], to |-> p[2][2], exploitable |-> ~PassesSanitizer(path[p])]
    BY <1>3
  <2>2. f.from = p[1][2] /\ f.to = p[2][2] /\ (f.exploitable = ~PassesSanitizer(path[p]))
    BY <2>1
  <2>3. Leads(flowGraph, path[p], <<"source", f.from>>, <<"sink", f.to>>) /\ f.from \in Nat /\ f.to \in Nat
    BY <2>2, <1>5 DEF NoneShorter
  <2> QED
    BY <2>2, <2>3
<1>8. Reported'
  BY <1>2, <1>6, <1>7 DEF Reported
<1>9. ValuesTyped' /\ OfLinesRead' /\ TrueOnesLead'
  BY <1>1, <1>2 DEF ValuesTyped, OfLinesRead, TrueOnesLead
<1>10. RawOnesTrue'
  <2>1. PICK K : RawAt(K)
    BY <1>1 DEF RawOnesTrue
  <2>2. RawAt(K)'
    BY <2>1, <1>2 DEF RawAt
  <2> QED
    BY <2>2 DEF RawOnesTrue
<1> QED
  BY <1>8, <1>9, <1>10 DEF ValuesInv

-----------------------------------------------------------------------------
LEMMA ValuesStep == ValuesInv /\ [DataflowNext]_dataflowVars => ValuesInv'
<1> SUFFICES ASSUME ValuesInv, [DataflowNext]_dataflowVars PROVE ValuesInv'
  OBVIOUS
<1>1. CASE EvaluateFlows
  BY <1>1, EvaluationReports
<1>2. ASSUME NEW s \in Statements, Visit(s) PROVE ValuesInv'
  <2>1. evaluated' = FALSE
    BY <1>2 DEF Visit, ValuesInv, ValuesTyped
  <2>2. CASE VisitAssign(s)
    BY <2>1, <2>2, <1>2, AssignKeepsTypes, AssignLeads, AssignHolds DEF ValuesInv
  <2>3. CASE VisitSink(s)
    BY <2>1, <2>3, <1>2, SinkKeepsTypes, SinkLeads, SinkHolds DEF ValuesInv
  <2>4. CASE VisitDef(s)
    BY <2>4, <1>2, DefKeeps
  <2> QED
    BY <2>2, <2>3, <2>4, <1>2 DEF Visit
<1>3. CASE UNCHANGED dataflowVars
  <2>1. UNCHANGED <<linesRead, nodeOf, flowGraph, ends, flows, evaluated, origins, truly, dropped, stale, misled>>
    BY <1>3 DEF dataflowVars
  <2>2. ValuesTyped' /\ OfLinesRead' /\ TrueOnesLead' /\ (Reported' <=> Reported)
    BY <2>1 DEF ValuesInv, ValuesTyped, OfLinesRead, TrueOnesLead, Reported
  <2>3. PICK K : RawAt(K)
    BY DEF ValuesInv, RawOnesTrue
  <2>4. RawAt(K)'
    BY <2>1, <2>3 DEF RawAt
  <2> QED
    BY <2>1, <2>2, <2>4 DEF ValuesInv, RawOnesTrue
<1> QED
  BY <1>1, <1>2, <1>3 DEF DataflowNext

LEMMA ValuesTell == ValuesInv => DataflowTypeOK /\ DataflowTells
<1> SUFFICES ASSUME ValuesInv PROVE DataflowTypeOK /\ DataflowTells
  OBVIOUS
<1>1. ValuesTyped /\ OfLinesRead /\ TrueOnesLead /\ RawOnesTrue /\ (evaluated => Reported)
  BY DEF ValuesInv
<1>2. DataflowTypeOK
  <2>1. linesRead \in 0..MaxStatements
    BY <1>1, DataflowGraphAssumption DEF ValuesTyped
  <2>2. ASSUME NEW e \in flowGraph PROVE NoNode \notin {e[1], e[2]} /\ e[1][1] # "sink"
    BY <1>1, ValueNodesAre DEF ValuesTyped, OfLinesRead
  <2>3. ASSUME NEW n \in ends PROVE n[1] \in {"source", "sink"} /\ n[2] \in 1..linesRead
    BY <1>1 DEF ValuesTyped
  <2> QED
    BY <2>1, <2>2, <2>3, <1>1 DEF DataflowTypeOK, ValuesTyped
<1>3. ASSUME evaluated, NEW t \in truly, t[1] \notin dropped
      PROVE  \E f \in flows :
              /\ f.from = t[1] /\ f.to = t[2]
              /\ LET ways == Ways(<<"source", t[1]>>, <<"sink", t[2]>>) IN
                 f.exploitable \/ \E w \in ways : PassesSanitizer(w) /\ \A r \in ways : Len(r) < Len(w) => PassesSanitizer(r)
  <2>1. PICK s, u : s = <<"source", t[1]>> /\ u = <<"sink", t[2]>>
    OBVIOUS
  <2>2. t[1] \in Nat /\ t[2] \in Nat /\ s \in ValueNodes
    BY <2>1, <1>1, ValueNodesAre DEF ValuesTyped
  <2>3. s \in ends /\ u \in ends /\ ComesTo(flowGraph, s, u)
    BY <2>1, <1>1, <1>3 DEF TrueOnesLead, LedTo
  <2>4. PICK f \in flows : /\ f.from = t[1] /\ f.to = t[2]
                           /\ f.exploitable \/ \E w : NoneShorter(flowGraph, w, s, u) /\ PassesSanitizer(w)
    BY <2>1, <2>2, <2>3, <1>1, <1>3 DEF Reported
  <2>5. ASSUME NEW w, NoneShorter(flowGraph, w, s, u), PassesSanitizer(w)
        PROVE  \E x \in Ways(s, u) : PassesSanitizer(x) /\ \A r \in Ways(s, u) : Len(r) < Len(x) => PassesSanitizer(r)
    <3>1. \A r : r \in Ways(s, u) <=> Leads(flowGraph, r, s, u) /\ FewEdges(flowGraph, r)
      BY <2>2, <1>1, WaysAre DEF ValuesTyped
    <3>2. w \in Ways(s, u) /\ \A r \in Ways(s, u) : Len(w) <= Len(r) /\ Len(r) \in Nat /\ Len(w) \in Nat
      BY <3>1, <2>5, LenProperties DEF NoneShorter, Leads
    <3>3. \A r \in Ways(s, u) : ~(Len(r) < Len(w))
      BY <3>2
    <3> QED
      BY <3>2, <3>3, <2>5
  <2> QED
    BY <2>1, <2>4, <2>5
<1>4. ASSUME evaluated, NEW f \in flows, f.exploitable PROVE <<f.from, f.to>> \in truly \/ f.to \in misled
  <2>1. PICK K : RawAt(K)
    BY <1>1 DEF RawOnesTrue
  <2>2. /\ f.from \in Nat /\ f.to \in Nat
        /\ \E w : Leads(flowGraph, w, <<"source", f.from>>, <<"sink", f.to>>) /\ ~PassesSanitizer(w)
    BY <1>1, <1>4 DEF Reported
  <2>3. PICK s, u : s = <<"source", f.from>> /\ u = <<"sink", f.to>>
    OBVIOUS
  <2>4. K[s] \subseteq K[u]
    <3>1. \A e \in flowGraph : e[1][1] # "sanitizer" /\ e[2][1] # "sanitizer" => K[e[1]] \subseteq K[e[2]]
      BY <2>1 DEF RawAt
    <3>2. PICK w : Leads(flowGraph, w, s, u) /\ ~PassesSanitizer(w)
      BY <2>2, <2>3
    <3> QED
      BY <3>1, <3>2, KeptOnTheWay
  <2>5. f.from \in K[u]
    BY <2>1, <2>2, <2>3, <2>4 DEF RawAt
  <2> QED
    BY <2>1, <2>2, <2>3, <2>5 DEF RawAt
<1> QED
  BY <1>2, <1>3, <1>4 DEF DataflowTells

(* DataflowTells, for every document that is read line by line.             *)
THEOREM DataflowAlwaysTells == DataflowSpec => [](DataflowTypeOK /\ DataflowTells)
<1>1. DataflowInit => ValuesInv
  BY ValuesBegin
<1>2. ValuesInv /\ [DataflowNext]_dataflowVars => ValuesInv'
  BY ValuesStep
<1>3. ValuesInv => DataflowTypeOK /\ DataflowTells
  BY ValuesTell
<1> QED
  BY <1>1, <1>2, <1>3, PTL DEF DataflowSpec

-----------------------------------------------------------------------------
(* Tarjan's search for the cycles of the call graph: what leads where.      *)

LeadsTo(g, a, b) == \A c : a \in c /\ NoWayOut(g, c) => b \in c
Together(V, g, x) == {y \in V : LeadsTo(g, x, y) /\ LeadsTo(g, y, x)}
OnCycle(g, x) == \E y : <<x, y>> \in g /\ LeadsTo(g, y, x)

LEMMA LeadsOn ==
  ASSUME NEW V, NEW g \in SUBSET (V \X V)
  PROVE  /\ \A a : LeadsTo(g, a, a)
         /\ \A a, b, c : LeadsTo(g, a, b) /\ LeadsTo(g, b, c) => LeadsTo(g, a, c)
         /\ \A a, b : <<a, b>> \in g => LeadsTo(g, a, b) /\ a \in V /\ b \in V
<1>1. ASSUME NEW a, NEW b, <<a, b>> \in g PROVE LeadsTo(g, a, b)
  BY <1>1 DEF LeadsTo, NoWayOut
<1>2. \A a, b, c : LeadsTo(g, a, b) /\ LeadsTo(g, b, c) => LeadsTo(g, a, c)
  BY DEF LeadsTo
<1>3. \A a : LeadsTo(g, a, a)
  BY DEF LeadsTo
<1> QED
  BY <1>1, <1>2, <1>3

(* Where something leads beyond itself it has a first step.                 *)
LEMMA FirstStep ==
  ASSUME NEW V, NEW g \in SUBSET (V \X V), NEW a, NEW b, LeadsTo(g, a, b), a # b
  PROVE  \E y : <<a, y>> \in g /\ LeadsTo(g, y, b)
<1> DEFINE c == {a} \cup {z \in V : \E y : <<a, y>> \in g /\ LeadsTo(g, y, z)}
<1>1. ASSUME NEW l \in g, l[1] \in c PROVE l[2] \in c
  <2>1. l = <<l[1], l[2]>> /\ l[1] \in V /\ l[2] \in V
    OBVIOUS
  <2>2. CASE l[1] = a
    <3>1. <<a, l[2]>> \in g /\ LeadsTo(g, l[2], l[2])
      BY <2>1, <2>2, LeadsOn
    <3> QED
      BY <2>1, <3>1
  <2>3. CASE l[1] # a
    <3>1. PICK y : <<a, y>> \in g /\ LeadsTo(g, y, l[1])
      BY <1>1, <2>3
    <3>2. LeadsTo(g, y, l[2])
      <4>1. <<l[1], l[2]>> \in g
        BY <2>1
      <4> QED
        BY <3>1, <4>1, LeadsOn
    <3> QED
      BY <2>1, <3>1, <3>2
  <2> QED
    BY <2>2, <2>3
<1>2. a \in c /\ NoWayOut(g, c)
  BY <1>1 DEF NoWayOut
<1> HIDE DEF c
<1>3. b \in c
  BY <1>2 DEF LeadsTo
<1> QED
  BY <1>3 DEF c

(* Whoever is on a cycle with another is on one.                            *)
LEMMA OnOneCycle ==
  ASSUME NEW V, NEW g \in SUBSET (V \X V), NEW x \in V
  PROVE  /\ x \in Together(V, g, x)
         /\ \A z \in Together(V, g, x) : Together(V, g, z) = Together(V, g, x)
         /\ \A z \in Together(V, g, x) : z # x => OnCycle(g, x) /\ OnCycle(g, z)
         /\ OnCycle(g, x) => <<x, x>> \in g \/ \E z \in Together(V, g, x) : z # x
<1>1. x \in Together(V, g, x)
  BY LeadsOn DEF Together
<1>2. ASSUME NEW z \in Together(V, g, x) PROVE Together(V, g, z) = Together(V, g, x)
  BY LeadsOn DEF Together
<1>3. ASSUME NEW z \in Together(V, g, x), z # x PROVE OnCycle(g, x) /\ OnCycle(g, z)
  <2>1. LeadsTo(g, x, z) /\ LeadsTo(g, z, x)
    BY DEF Together
  <2>2. PICK y : <<x, y>> \in g /\ LeadsTo(g, y, z)
    BY <1>3, <2>1, FirstStep
  <2>3. PICK w : <<z, w>> \in g /\ LeadsTo(g, w, x)
    BY <1>3, <2>1, FirstStep
  <2>4. LeadsTo(g, y, x) /\ LeadsTo(g, w, z)
    BY <2>1, <2>2, <2>3, LeadsOn
  <2> QED
    BY <2>2, <2>3, <2>4 DEF OnCycle
<1>4. ASSUME OnCycle(g, x) PROVE <<x, x>> \in g \/ \E z \in Together(V, g, x) : z # x
  <2>1. PICK y : <<x, y>> \in g /\ LeadsTo(g, y, x)
    BY <1>4 DEF OnCycle
  <2>2. y \in Together(V, g, x)
    BY <2>1, LeadsOn DEF Together
  <2> QED
    BY <2>1, <2>2
<1> QED
  BY <1>1, <1>2, <1>3, <1>4

-----------------------------------------------------------------------------
(* What the search knows: of the nodes it has numbered, those on the stack  *)
(* and those that are open.                                                 *)

Numbered(V, ix) ==
    /\ ix \in [DOMAIN ix -> Nat] /\ DOMAIN ix \in SUBSET V
    /\ \A x, y \in DOMAIN ix : ix[x] = ix[y] => x = y
    /\ \A x \in DOMAIN ix : ix[x] < Cardinality(DOMAIN ix)
Met(g, ix, left, O) ==
    /\ DOMAIN left = DOMAIN ix
    /\ \A x \in DOMAIN ix : \A y \in left[x] : <<x, y>> \in g
    /\ \A x \in DOMAIN ix : x \notin O => left[x] = {}
    /\ \A x \in DOMAIN ix : \A y : <<x, y>> \in g /\ y \notin left[x] => y \in DOMAIN ix
Stacked(g, ix, S, O) ==
    /\ O \subseteq S /\ S \subseteq DOMAIN ix
    /\ \A x \in DOMAIN ix : \A y : <<x, y>> \in g /\ x \notin S => y \in DOMAIN ix /\ y \notin S
    /\ \A x, y \in S : ix[x] <= ix[y] => LeadsTo(g, x, y)
    /\ \A x \in S : \E o \in O : ix[o] <= ix[x] /\ LeadsTo(g, x, o)
LowsFit(g, ix, low, left, S, O) ==
    /\ low \in [DOMAIN ix -> Nat]
    /\ \A o \in O : low[o] <= ix[o] /\ \E y \in S : ix[y] = low[o] /\ LeadsTo(g, o, y)
    /\ \A x, y \in S : <<x, y>> \in g /\ y \notin left[x] =>
           \E o \in O : low[o] <= ix[y] /\ \A p \in O : ix[p] <= ix[x] => ix[p] <= ix[o]
CyclesOf(V, g, nodes) == {Together(V, g, x) : x \in {z \in nodes : OnCycle(g, z)}}
Searching(V, g, ix, low, left, S, O, found) ==
    /\ Numbered(V, ix) /\ Met(g, ix, left, O) /\ Stacked(g, ix, S, O) /\ LowsFit(g, ix, low, left, S, O)
    /\ found = CyclesOf(V, g, DOMAIN ix \ S)
TakenLast(ix, O, top) == top \in O /\ \A o \in O : ix[o] <= ix[top]

LEMMA WithIs ==
  ASSUME NEW f, NEW x, NEW v
  PROVE  /\ DOMAIN With(f, x, v) = DOMAIN f \cup {x} /\ With(f, x, v)[x] = v
         /\ \A y \in DOMAIN f : y # x => With(f, x, v)[y] = f[y]
BY DEF With

(* A node that is met for the first time is numbered, and put on the stack. *)
CalleesIn(g, node, callees) == \A y : y \in callees <=> <<node, y>> \in g
(* The neighbour that is met is no longer left.                             *)
Turned(ix, left, O, node, mid) ==
    \/ O = {} /\ mid = left
    \/ \E top : TakenLast(ix, O, top) /\ node \in left[top] /\ mid = [left EXCEPT ![top] = @ \ {node}]

LEMMA OpensRight ==
  ASSUME NEW V, IsFiniteSet(V), NEW g \in SUBSET (V \X V), NEW ix, NEW low, NEW left, NEW S, NEW O, NEW found,
         Searching(V, g, ix, low, left, S, O, found),
         NEW node \in V, node \notin DOMAIN ix, NEW mid, NEW ix2, NEW low2, NEW left2, NEW callees,
         CalleesIn(g, node, callees), Turned(ix, left, O, node, mid),
         ix2 = With(ix, node, Cardinality(DOMAIN ix)), low2 = With(low, node, Cardinality(DOMAIN ix)),
         left2 = With(mid, node, callees)
  PROVE  Searching(V, g, ix2, low2, left2, S \cup {node}, O \cup {node}, found)
<1> USE DEF CalleesIn, Turned
<1> DEFINE N == Cardinality(DOMAIN ix)
           D == DOMAIN ix
<1>1. /\ ix \in [D -> Nat] /\ D \in SUBSET V /\ \A x, y \in D : ix[x] = ix[y] => x = y /\ \A z \in D : ix[z] < N
      /\ low \in [D -> Nat] /\ DOMAIN left = D
  BY DEF Searching, Numbered, LowsFit, Met
<1>2. N \in Nat /\ Cardinality(D \cup {node}) = N + 1
  <2>1. IsFiniteSet(D)
    BY <1>1, FS_Subset
  <2> QED
    BY <2>1, FS_AddElement, FS_CardinalityType
<1>3. /\ DOMAIN ix2 = D \cup {node} /\ ix2[node] = N /\ \A x \in D : ix2[x] = ix[x]
      /\ DOMAIN low2 = D \cup {node} /\ low2[node] = N /\ \A x \in D : low2[x] = low[x]
  <2>0. node \notin D /\ ix2 = With(ix, node, N) /\ low2 = With(low, node, N)
    OBVIOUS
  <2>2. DOMAIN low = D
    BY <1>1
  <2> HIDE DEF N
  <2>1. DOMAIN ix2 = D \cup {node} /\ ix2[node] = N /\ \A x \in D : ix2[x] = ix[x]
    BY <2>0 DEF With
  <2> HIDE DEF D
  <2>3. DOMAIN low2 = D \cup {node} /\ low2[node] = N /\ \A x \in D : low2[x] = low[x]
    BY ONLY <2>0, <2>2 DEF With
  <2> QED
    BY <2>1, <2>3
<1>4. DOMAIN mid = D /\ \A x \in D : mid[x] \subseteq left[x] /\ \A y : y \in left[x] /\ y # node => y \in mid[x]
  BY <1>1
<1>5. DOMAIN left2 = D \cup {node} /\ left2[node] = callees /\ \A x \in D : left2[x] = mid[x]
  <2>1. node \notin D /\ left2 = With(mid, node, callees)
    OBVIOUS
  <2> HIDE DEF D
  <2> QED
    BY ONLY <2>1, <1>4 DEF With
<1>6. ASSUME NEW x \in D, NEW y, <<x, y>> \in g, y \notin mid[x]
      PROVE  \/ y \in D /\ y \notin left[x]
             \/ y = node /\ TakenLast(ix, O, x)
  <2>1. CASE y \notin left[x]
    BY <1>6, <2>1 DEF Searching, Met
  <2>2. CASE y \in left[x]
    <3>1. y = node
      BY <2>2, <1>4, <1>6
    <3>2. PICK top : TakenLast(ix, O, top) /\ node \in left[top] /\ mid = [left EXCEPT ![top] = @ \ {node}]
      BY <1>6, <2>2
    <3>3. x = top
      BY <1>1, <1>6, <2>2, <3>2
    <3> QED
      BY <3>1, <3>2, <3>3
  <2> QED
    BY <2>1, <2>2
<1>7. O \subseteq S /\ S \subseteq D
  BY DEF Searching, Stacked
<1>8. ASSUME NEW x \in S PROVE LeadsTo(g, x, node)
  <2>1. PICK o \in O : ix[o] <= ix[x] /\ LeadsTo(g, x, o)
    BY DEF Searching, Stacked
  <2>2. PICK top : TakenLast(ix, O, top) /\ node \in left[top] /\ mid = [left EXCEPT ![top] = @ \ {node}]
    BY <2>1
  <2>3. top \in D /\ <<top, node>> \in g
    BY <1>7, <2>2 DEF Searching, Met, TakenLast
  <2>4. LeadsTo(g, o, top)
    BY <1>7, <2>1, <2>2 DEF TakenLast, Searching, Stacked
  <2> QED
    BY <2>1, <2>3, <2>4, LeadsOn
<1> HIDE DEF N, D
<1>9. Numbered(V, ix2)
  <2>1. \A x \in D \cup {node} : ix2[x] \in Nat /\ ix2[x] < N + 1
    BY <1>1, <1>2, <1>3
  <2>2. \A x \in D : ix2[x] # ix2[node]
    BY <1>1, <1>2, <1>3
  <2>3. \A x, y \in D \cup {node} : ix2[x] = ix2[y] => x = y
    BY <1>1, <1>3, <2>2
  <2>4. ix2 \in [D \cup {node} -> Nat]
    <3>1. ix2 = [x \in D \cup {node} |-> ix2[x]]
      BY WithIs, <1>3 DEF With
    <3> QED
      BY <3>1, <2>1
  <2> QED
    BY <1>1, <1>2, <1>3, <2>1, <2>3, <2>4 DEF Numbered
<1>10. Met(g, ix2, left2, O \cup {node})
  <2>1. ASSUME NEW x \in D PROVE /\ \A y \in left2[x] : <<x, y>> \in g
                                 /\ x \notin O \cup {node} => left2[x] = {}
                                 /\ \A y : <<x, y>> \in g /\ y \notin left2[x] => y \in D \cup {node}
    <3>1. \A y \in left[x] : <<x, y>> \in g
      BY DEF Searching, Met, D
    <3>2. x \notin O => left[x] = {}
      BY DEF Searching, Met, D
    <3> QED
      BY <3>1, <3>2, <1>4, <1>5, <1>6
  <2>2. /\ \A y \in left2[node] : <<node, y>> \in g
        /\ \A y : <<node, y>> \in g /\ y \notin left2[node] => y \in D \cup {node}
    BY <1>5
  <2> QED
    BY <1>3, <1>5, <2>1, <2>2 DEF Met
<1>11. Stacked(g, ix2, S \cup {node}, O \cup {node})
  <2>1. ASSUME NEW x \in D \cup {node}, NEW y, <<x, y>> \in g, x \notin S \cup {node}
        PROVE  y \in D \cup {node} /\ y \notin S \cup {node}
    <3>1. y \in D /\ y \notin S
      BY <2>1 DEF Searching, Stacked, D
    <3> QED
      BY <3>1 DEF D
  <2>2. ASSUME NEW x \in S \cup {node}, NEW y \in S \cup {node}, ix2[x] <= ix2[y] PROVE LeadsTo(g, x, y)
    <3>1. CASE y = node
      BY <3>1, <1>8, LeadsOn
    <3>2. CASE y \in S /\ x = node
      BY <3>2, <2>2, <1>1, <1>2, <1>3, <1>7
    <3>3. CASE y \in S /\ x \in S
      <4>1. ix[x] <= ix[y]
        BY <3>3, <2>2, <1>3, <1>7
      <4> QED
        BY <3>3, <4>1 DEF Searching, Stacked
    <3> QED
      BY <2>2, <3>1, <3>2, <3>3
  <2>3. ASSUME NEW x \in S \cup {node} PROVE \E o \in O \cup {node} : ix2[o] <= ix2[x] /\ LeadsTo(g, x, o)
    <3>1. CASE x = node
      BY <3>1, LeadsOn, <1>2, <1>3
    <3>2. CASE x \in S
      <4>1. PICK o \in O : ix[o] <= ix[x] /\ LeadsTo(g, x, o)
        BY <3>2 DEF Searching, Stacked
      <4>2. ix2[o] <= ix2[x]
        BY <4>1, <3>2, <1>3, <1>7
      <4> QED
        BY <4>1, <4>2
    <3> QED
      BY <2>3, <3>1, <3>2
  <2>4. O \cup {node} \subseteq S \cup {node} /\ S \cup {node} \subseteq D \cup {node}
    BY <1>7
  <2> QED
    BY <1>3, <2>1, <2>2, <2>3, <2>4 DEF Stacked
<1>12. LowsFit(g, ix2, low2, left2, S \cup {node}, O \cup {node})
  <2>1. low2 \in [D \cup {node} -> Nat]
    <3>1. low2 = [x \in D \cup {node} |-> low2[x]]
      BY WithIs, <1>1, <1>3 DEF With
    <3> QED
      BY <3>1, <1>1, <1>2, <1>3
  <2>2. ASSUME NEW o \in O \cup {node} PROVE low2[o] <= ix2[o] /\ \E y \in S \cup {node} : ix2[y] = low2[o] /\ LeadsTo(g, o, y)
    <3>1. CASE o = node
      BY <3>1, LeadsOn, <1>2, <1>3
    <3>2. CASE o \in O
      <4>1. PICK y \in S : ix[y] = low[o] /\ LeadsTo(g, o, y)
        BY <3>2 DEF Searching, LowsFit
      <4>2. low[o] <= ix[o]
        BY <3>2 DEF Searching, LowsFit
      <4>3. low2[o] <= ix2[o] /\ ix2[y] = low2[o]
        BY <4>1, <4>2, <3>2, <1>3, <1>7
      <4> QED
        BY <4>1, <4>3
    <3> QED
      BY <2>2, <3>1, <3>2
  <2>3. ASSUME NEW x \in S \cup {node}, NEW y \in S \cup {node}, <<x, y>> \in g, y \notin left2[x]
        PROVE  \E o \in O \cup {node} : low2[o] <= ix2[y] /\ \A p \in O \cup {node} : ix2[p] <= ix2[x] => ix2[p] <= ix2[o]
    <3>1. x # node /\ x \in S /\ x \in D
      BY <2>3, <1>5, <1>7
    <3>2. y \notin mid[x]
      BY <2>3, <3>1, <1>5
    <3>3. CASE y \in D /\ y \notin left[x]
      <4>1. y \in S
        BY <2>3, <3>3 DEF D
      <4>2. PICK o \in O : low[o] <= ix[y] /\ \A p \in O : ix[p] <= ix[x] => ix[p] <= ix[o]
        BY <4>1, <3>1, <3>3, <2>3 DEF Searching, LowsFit
      <4>3. low2[o] <= ix2[y]
        BY <4>2, <3>3, <1>3, <1>7
      <4>4. ASSUME NEW p \in O \cup {node}, ix2[p] <= ix2[x] PROVE ix2[p] <= ix2[o]
        <5>1. p # node
          BY <4>4, <3>1, <1>1, <1>2, <1>3
        <5> QED
          BY <5>1, <4>2, <4>4, <3>1, <1>3, <1>7
      <4> QED
        BY <4>2, <4>3, <4>4
    <3>4. CASE y = node /\ TakenLast(ix, O, x)
      <4>1. x \in O /\ \A o \in O : ix[o] <= ix[x]
        BY <3>4 DEF TakenLast
      <4>2. low[x] <= ix[x] /\ low[x] \in Nat /\ ix[x] \in Nat /\ ix[x] < N
        BY <4>1, <3>1, <1>1 DEF Searching, LowsFit
      <4>3. low2[x] <= ix2[y]
        BY <4>2, <3>1, <3>4, <1>2, <1>3
      <4>4. ASSUME NEW p \in O \cup {node}, ix2[p] <= ix2[x] PROVE ix2[p] <= ix2[x]
        BY <4>4
      <4> QED
        BY <4>1, <4>3, <4>4
    <3> QED
      BY <1>6, <2>3, <3>1, <3>2, <3>3, <3>4
  <2> QED
    BY <1>3, <2>1, <2>2, <2>3 DEF LowsFit
<1>13. found = CyclesOf(V, g, DOMAIN ix2 \ (S \cup {node}))
  <2>1. D \ S = (D \cup {node}) \ (S \cup {node})
    BY DEF D
  <2> QED
    BY <2>1, <1>3 DEF Searching, D
<1> QED
  BY <1>1, <1>2, <1>3, <1>9, <1>10, <1>11, <1>12, <1>13 DEF Searching, D

(* A node that was met before lowers the lowlink if it is on the stack.     *)
LEMMA MeetsRight ==
  ASSUME NEW V, IsFiniteSet(V), NEW g \in SUBSET (V \X V), NEW ix, NEW low, NEW left, NEW S, NEW O, NEW found,
         Searching(V, g, ix, low, left, S, O, found),
         NEW top, TakenLast(ix, O, top), NEW node \in left[top], node \in DOMAIN ix, NEW low2, NEW left2,
         low2 = [low EXCEPT ![top] = IF node \in S THEN Least(low[top], ix[node]) ELSE low[top]],
         left2 = [left EXCEPT ![top] = @ \ {node}]
  PROVE  Searching(V, g, ix, low2, left2, S, O, found)
<1> DEFINE D == DOMAIN ix
<1>1. /\ ix \in [D -> Nat] /\ D \in SUBSET V /\ low \in [D -> Nat] /\ DOMAIN left = D
      /\ O \subseteq S /\ S \subseteq D
  BY DEF Searching, Numbered, LowsFit, Met, Stacked
<1>2. top \in O /\ top \in S /\ top \in D /\ node \in D /\ \A o \in O : ix[o] <= ix[top]
  BY <1>1 DEF TakenLast
<1>3. <<top, node>> \in g
  BY <1>2 DEF Searching, Met
<1>4. /\ low2 \in [D -> Nat] /\ \A x \in D : low2[x] <= low[x] /\ (x # top => low2[x] = low[x])
      /\ node \in S => low2[top] <= ix[node]
      /\ low2[top] = low[top] \/ (node \in S /\ low2[top] = ix[node])
  <2>1. ix[node] \in Nat /\ low[top] \in Nat /\ \A x \in D : low[x] \in Nat
    BY <1>1, <1>2
  <2>2. low2 \in [D -> Nat] /\ \A x \in D : x # top => low2[x] = low[x]
    BY <1>1, <1>2, <2>1 DEF Least
  <2>3. low2[top] = IF node \in S THEN Least(low[top], ix[node]) ELSE low[top]
    BY <1>1, <1>2
  <2> HIDE DEF D
  <2>4. /\ low2[top] <= low[top] /\ (node \in S => low2[top] <= ix[node])
        /\ low2[top] = low[top] \/ (node \in S /\ low2[top] = ix[node])
    BY ONLY <2>1, <2>3 DEF Least
  <2> QED
    BY <2>1, <2>2, <2>4
<1>5. DOMAIN left2 = D /\ left2[top] = left[top] \ {node} /\ \A x \in D : x # top => left2[x] = left[x]
  BY <1>1, <1>2
<1> HIDE DEF D
<1>6. Met(g, ix, left2, O)
  <2>1. ASSUME NEW x \in D PROVE /\ \A y \in left2[x] : <<x, y>> \in g
                                 /\ x \notin O => left2[x] = {}
                                 /\ \A y : <<x, y>> \in g /\ y \notin left2[x] => y \in D
    <3>1. /\ \A y \in left[x] : <<x, y>> \in g
          /\ x \notin O => left[x] = {}
          /\ \A y : <<x, y>> \in g /\ y \notin left[x] => y \in D
      BY DEF Searching, Met, D
    <3>2. CASE x = top
      BY <3>1, <3>2, <1>2, <1>5
    <3>3. CASE x # top
      BY <3>1, <3>3, <1>5
    <3> QED
      BY <3>2, <3>3
  <2> QED
    BY <2>1, <1>5 DEF Met, D
<1>7. LowsFit(g, ix, low2, left2, S, O)
  <2>1. ASSUME NEW o \in O PROVE low2[o] <= ix[o] /\ \E y \in S : ix[y] = low2[o] /\ LeadsTo(g, o, y)
    <3>1. low[o] <= ix[o] /\ \E y \in S : ix[y] = low[o] /\ LeadsTo(g, o, y)
      BY DEF Searching, LowsFit
    <3>2. low2[o] <= ix[o]
      <4>1. o \in D /\ low2[o] \in Nat /\ low[o] \in Nat /\ ix[o] \in Nat /\ low2[o] <= low[o]
        BY <1>1, <1>4
      <4> QED
        BY <4>1, <3>1
    <3>3. CASE low2[o] = low[o]
      BY <3>1, <3>2, <3>3
    <3>4. CASE o = top /\ node \in S /\ low2[top] = ix[node]
      BY <3>2, <3>4, <1>3, LeadsOn
    <3> QED
      BY <3>3, <3>4, <1>1, <1>4
  <2>2. ASSUME NEW x \in S, NEW y \in S, <<x, y>> \in g, y \notin left2[x]
        PROVE  \E o \in O : low2[o] <= ix[y] /\ \A p \in O : ix[p] <= ix[x] => ix[p] <= ix[o]
    <3>1. CASE y \notin left[x]
      <4>1. PICK o \in O : low[o] <= ix[y] /\ \A p \in O : ix[p] <= ix[x] => ix[p] <= ix[o]
        BY <2>2, <3>1 DEF Searching, LowsFit
      <4>2. o \in D /\ y \in D /\ low2[o] \in Nat /\ low[o] \in Nat /\ ix[y] \in Nat /\ low2[o] <= low[o]
        BY <1>1, <1>4
      <4>3. low2[o] <= ix[y]
        BY <4>1, <4>2
      <4> QED
        BY <4>1, <4>3
    <3>2. CASE y \in left[x]
      <4>1. x = top /\ y = node
        BY <3>2, <2>2, <1>1, <1>5
      <4> QED
        BY <4>1, <1>2, <1>4
    <3> QED
      BY <3>1, <3>2
  <2>3. low2 \in [DOMAIN ix -> Nat]
    BY <1>4 DEF D
  <2> QED
    BY <2>1, <2>2, <2>3 DEF LowsFit
<1> QED
  BY <1>6, <1>7 DEF Searching

(* A node that is done leaves its lowlink to the one that called, and takes *)
(* a cycle with it if it is the first of one.                               *)
Rest(ix, S, top) == {x \in S : ix[x] < ix[top]}
Taken(ix, S, top) == {x \in S : ix[top] <= ix[x]}
HandsOn(ix, low, O, top, low2) ==
    \/ O \ {top} = {} /\ low2 = low
    \/ \E outer : TakenLast(ix, O \ {top}, outer) /\ low2 = [low EXCEPT ![outer] = Least(@, low[top])]

HandedTo(g, ix, low, O, top, low2) ==
    /\ low2 \in [DOMAIN ix -> Nat]
    /\ \A o \in O \ {top} : \/ low2[o] = low[o]
                            \/ low2[o] = low[top] /\ low[top] <= low[o] /\ LeadsTo(g, o, top)
    /\ \A o \in O \ {top} : low2[o] <= low[o]
    /\ \A o \in O \ {top} : ix[o] < ix[top]
    /\ O \ {top} # {} => \E outer : TakenLast(ix, O \ {top}, outer) /\ low2[outer] <= low[top]

LEMMA HandedOn ==
  ASSUME NEW V, NEW g \in SUBSET (V \X V), NEW ix, NEW low, NEW left, NEW S, NEW O, NEW found,
         Searching(V, g, ix, low, left, S, O, found),
         NEW top, TakenLast(ix, O, top), NEW low2, HandsOn(ix, low, O, top, low2)
  PROVE  HandedTo(g, ix, low, O, top, low2)
<1>1. /\ ix \in [DOMAIN ix -> Nat] /\ \A x, y \in DOMAIN ix : ix[x] = ix[y] => x = y
      /\ low \in [DOMAIN ix -> Nat] /\ O \subseteq S /\ S \subseteq DOMAIN ix
      /\ \A x, y \in S : ix[x] <= ix[y] => LeadsTo(g, x, y)
  BY DEF Searching, Numbered, LowsFit, Met, Stacked
<1>2. top \in O /\ top \in DOMAIN ix /\ \A o \in O : ix[o] <= ix[top] /\ LeadsTo(g, o, top) /\ o \in DOMAIN ix
  BY <1>1 DEF TakenLast
<1>3. \A o \in O \ {top} : ix[o] < ix[top]
  BY <1>1, <1>2
<1>4. CASE O \ {top} = {} /\ low2 = low
  BY <1>1, <1>3, <1>4 DEF HandedTo
<1>5. CASE \E outer : TakenLast(ix, O \ {top}, outer) /\ low2 = [low EXCEPT ![outer] = Least(@, low[top])]
  <2>1. PICK outer : TakenLast(ix, O \ {top}, outer) /\ low2 = [low EXCEPT ![outer] = Least(@, low[top])]
    BY <1>5
  <2>2. outer \in O /\ outer \in DOMAIN ix /\ LeadsTo(g, outer, top)
    BY <2>1, <1>2 DEF TakenLast
  <2>3. /\ low2 \in [DOMAIN ix -> Nat] /\ \A x \in DOMAIN ix : x # outer => low2[x] = low[x]
        /\ low2[outer] <= low[top] /\ low2[outer] <= low[outer]
        /\ low2[outer] = low[outer] \/ (low2[outer] = low[top] /\ low[top] <= low[outer])
    <3>1. low[outer] \in Nat /\ low[top] \in Nat
      BY <2>2, <1>1, <1>2
    <3>2. low2[outer] = Least(low[outer], low[top])
      BY <2>1, <2>2, <1>1
    <3>3. Least(low[outer], low[top]) \in Nat
      BY <3>1 DEF Least
    <3>4. low2 \in [DOMAIN ix -> Nat] /\ \A x \in DOMAIN ix : x # outer => low2[x] = low[x]
      BY <2>1, <2>2, <1>1, <3>3
    <3>5. /\ low2[outer] <= low[top] /\ low2[outer] <= low[outer]
          /\ low2[outer] = low[outer] \/ (low2[outer] = low[top] /\ low[top] <= low[outer])
      BY ONLY <3>1, <3>2 DEF Least
    <3> QED
      BY <3>4, <3>5
  <2>4. \A o \in O \ {top} : low[o] <= low[o] /\ o \in DOMAIN ix
    BY <1>1
  <2> QED
    BY <2>1, <2>2, <2>3, <2>4, <1>3 DEF HandedTo
<1> QED
  BY <1>4, <1>5 DEF HandsOn

LEMMA ClosesInside ==
  ASSUME NEW V, NEW g \in SUBSET (V \X V), NEW ix, NEW low, NEW left, NEW S, NEW O, NEW found,
         Searching(V, g, ix, low, left, S, O, found),
         NEW top, TakenLast(ix, O, top), left[top] = {}, low[top] # ix[top], NEW low2, HandsOn(ix, low, O, top, low2)
  PROVE  Searching(V, g, ix, low2, left, S, O \ {top}, found)
<1> DEFINE D == DOMAIN ix
           O2 == O \ {top}
<1>1. /\ ix \in [D -> Nat] /\ D \in SUBSET V /\ low \in [D -> Nat] /\ O \subseteq S /\ S \subseteq D
      /\ \A x, y \in S : ix[x] <= ix[y] => LeadsTo(g, x, y)
  BY DEF Searching, Numbered, LowsFit, Stacked
<1>2. top \in O /\ top \in S /\ top \in D /\ \A o \in O : ix[o] <= ix[top]
  BY <1>1 DEF TakenLast
<1>3. /\ low2 \in [D -> Nat]
      /\ \A o \in O2 : \/ low2[o] = low[o]
                       \/ low2[o] = low[top] /\ low[top] <= low[o] /\ LeadsTo(g, o, top)
      /\ \A o \in O2 : low2[o] <= low[o]
      /\ O2 # {} => \E outer : TakenLast(ix, O2, outer) /\ low2[outer] <= low[top]
  <2>1. HandedTo(g, ix, low, O, top, low2)
    <3> HIDE DEF D, O2
    <3> QED
      BY HandedOn
  <2> QED
    BY <2>1 DEF HandedTo
<1>4. PICK y \in S : ix[y] = low[top] /\ LeadsTo(g, top, y) /\ low[top] < ix[top]
  <2>1. low[top] <= ix[top] /\ \E y \in S : ix[y] = low[top] /\ LeadsTo(g, top, y)
    BY <1>2 DEF Searching, LowsFit
  <2>2. low[top] < ix[top]
    BY <2>1, <1>1, <1>2
  <2> QED
    BY <2>1, <2>2
<1>5. PICK o1 \in O : ix[o1] <= ix[y] /\ LeadsTo(g, y, o1)
  BY DEF Searching, Stacked
<1>6. o1 \in O2 /\ ix[o1] <= ix[top] /\ LeadsTo(g, top, o1)
  BY <1>1, <1>2, <1>4, <1>5, LeadsOn
<1>7. PICK outer : outer \in O2 /\ low2[outer] <= low[top] /\ \A o \in O2 : ix[o] <= ix[outer]
  BY <1>3, <1>6 DEF TakenLast
<1>8. /\ DOMAIN left = D
      /\ \A x \in D : \A z \in left[x] : <<x, z>> \in g
      /\ \A x \in D : x \notin O => left[x] = {}
      /\ \A x \in D : \A z : <<x, z>> \in g /\ z \notin left[x] => z \in D
  BY DEF Searching, Met
<1> HIDE DEF D
<1>9. Met(g, ix, left, O2)
  <2>1. \A x \in D : x \notin O2 => left[x] = {}
    BY <1>8
  <2> HIDE DEF O2
  <2> QED
    BY <1>8, <2>1 DEF Met, D
<1>10. Stacked(g, ix, S, O2)
  <2>1. ASSUME NEW x \in S PROVE \E o \in O2 : ix[o] <= ix[x] /\ LeadsTo(g, x, o)
    <3>1. PICK o \in O : ix[o] <= ix[x] /\ LeadsTo(g, x, o)
      BY DEF Searching, Stacked
    <3>2. CASE o = top
      <4>1. ix[o1] <= ix[x]
        BY <1>1, <1>2, <1>6, <3>1, <3>2
      <4> QED
        BY <4>1, <1>6, <3>1, <3>2, LeadsOn
    <3> QED
      BY <3>1, <3>2
  <2>2. O2 \subseteq S /\ S \subseteq DOMAIN ix
    BY <1>1 DEF D
  <2> HIDE DEF O2
  <2> QED
    BY <2>1, <2>2 DEF Searching, Stacked
<1>11. LowsFit(g, ix, low2, left, S, O2)
  <2>1. ASSUME NEW o \in O2 PROVE low2[o] <= ix[o] /\ \E z \in S : ix[z] = low2[o] /\ LeadsTo(g, o, z)
    <3>1. low[o] <= ix[o] /\ \E z \in S : ix[z] = low[o] /\ LeadsTo(g, o, z)
      BY DEF Searching, LowsFit
    <3>2. o \in D /\ low2[o] \in Nat /\ low[o] \in Nat /\ ix[o] \in Nat /\ low2[o] <= low[o]
      BY <1>1, <1>3
    <3>3. low2[o] <= ix[o]
      BY <3>1, <3>2
    <3>4. CASE low2[o] = low[o]
      BY <3>1, <3>3, <3>4
    <3>5. CASE low2[o] = low[top] /\ LeadsTo(g, o, top)
      BY <3>3, <3>5, <1>4, LeadsOn
    <3> QED
      BY <1>3, <3>4, <3>5
  <2>2. ASSUME NEW x \in S, NEW z \in S, <<x, z>> \in g, z \notin left[x]
        PROVE  \E o \in O2 : low2[o] <= ix[z] /\ \A p \in O2 : ix[p] <= ix[x] => ix[p] <= ix[o]
    <3>1. PICK o \in O : low[o] <= ix[z] /\ \A p \in O : ix[p] <= ix[x] => ix[p] <= ix[o]
      BY <2>2 DEF Searching, LowsFit
    <3>2. z \in D /\ ix[z] \in Nat
      BY <1>1
    <3>3. CASE o = top
      <4>1. low2[outer] \in Nat /\ low[top] \in Nat
        BY <1>1, <1>2, <1>3, <1>7
      <4>2. low2[outer] <= ix[z]
        BY <4>1, <3>1, <3>2, <3>3, <1>7
      <4> QED
        BY <4>2, <1>7
    <3>4. CASE o # top
      <4>1. o \in O2 /\ low2[o] <= low[o] /\ o \in D /\ low2[o] \in Nat /\ low[o] \in Nat
        BY <3>4, <1>1, <1>3
      <4>2. low2[o] <= ix[z]
        BY <4>1, <3>1, <3>2
      <4> QED
        BY <4>1, <4>2, <3>1
    <3> QED
      BY <3>3, <3>4
  <2>3. low2 \in [DOMAIN ix -> Nat]
    BY <1>3 DEF D
  <2> HIDE DEF O2
  <2> QED
    BY <2>1, <2>2, <2>3 DEF LowsFit
<1> QED
  BY <1>9, <1>10, <1>11 DEF Searching

(* What is taken from the stack is all of one cycle.                        *)
LEMMA TakesCycle ==
  ASSUME NEW V, NEW g \in SUBSET (V \X V), NEW ix, NEW low, NEW left, NEW S, NEW O, NEW found,
         Searching(V, g, ix, low, left, S, O, found),
         NEW top, TakenLast(ix, O, top), left[top] = {}, low[top] = ix[top]
  PROVE  /\ Taken(ix, S, top) = Together(V, g, top)
         /\ \A x \in Taken(ix, S, top) : \A y : <<x, y>> \in g => y \in DOMAIN ix /\ y \notin Rest(ix, S, top)
<1> DEFINE D == DOMAIN ix
           cycle == Taken(ix, S, top)
<1>1. /\ ix \in [D -> Nat] /\ D \in SUBSET V /\ low \in [D -> Nat] /\ O \subseteq S /\ S \subseteq D
      /\ \A x, y \in S : ix[x] <= ix[y] => LeadsTo(g, x, y)
      /\ \A x, y \in D : ix[x] = ix[y] => x = y
  BY DEF Searching, Numbered, LowsFit, Stacked
<1>2. top \in O /\ top \in S /\ top \in D /\ \A o \in O : ix[o] <= ix[top]
  BY <1>1 DEF TakenLast
<1>3. ASSUME NEW x \in cycle, NEW y, <<x, y>> \in g PROVE y \in D /\ (y \in S => y \in cycle)
  <2>1. x \in S /\ x \in D /\ ix[top] <= ix[x] /\ ix[x] \in Nat /\ ix[top] \in Nat
    BY <1>1, <1>2 DEF Taken
  <2>2. left[x] = {}
    <3>1. CASE x \in O
      <4>1. ix[x] = ix[top]
        BY <3>1, <1>2, <2>1
      <4> QED
        BY <4>1, <1>1, <1>2, <2>1
    <3>2. CASE x \notin O
      BY <3>2, <2>1 DEF Searching, Met
    <3> QED
      BY <3>1, <3>2
  <2>3. y \in D
    BY <1>3, <2>1, <2>2 DEF Searching, Met
  <2>4. ASSUME y \in S PROVE y \in cycle
    <3>1. PICK o \in O : low[o] <= ix[y] /\ \A p \in O : ix[p] <= ix[x] => ix[p] <= ix[o]
      BY <1>3, <2>1, <2>2, <2>4 DEF Searching, LowsFit
    <3>2. ix[o] <= ix[top] /\ ix[top] <= ix[o] /\ o \in D
      BY <3>1, <1>1, <1>2, <2>1
    <3>3. o = top
      BY <3>2, <1>1, <1>2
    <3>4. ix[top] <= ix[y]
      BY <3>1, <3>3
    <3> QED
      BY <2>4, <3>4 DEF Taken
  <2> QED
    BY <2>3, <2>4
<1>4. ASSUME NEW x \in cycle PROVE x \in Together(V, g, top)
  <2>1. x \in S /\ x \in V /\ ix[top] <= ix[x]
    BY <1>1 DEF Taken
  <2>2. LeadsTo(g, top, x)
    BY <1>1, <1>2, <2>1
  <2>3. PICK o \in O : ix[o] <= ix[x] /\ LeadsTo(g, x, o)
    BY <2>1 DEF Searching, Stacked
  <2>4. LeadsTo(g, o, top)
    BY <1>1, <1>2
  <2>5. LeadsTo(g, x, top)
    BY <2>3, <2>4, LeadsOn
  <2> QED
    BY <2>1, <2>2, <2>5 DEF Together
<1>5. ASSUME NEW l \in g, l[1] \in cycle \cup (D \ S) PROVE l[2] \in cycle \cup (D \ S)
  <2>1. <<l[1], l[2]>> \in g
    OBVIOUS
  <2>2. CASE l[1] \in cycle
    BY <1>3, <2>1, <2>2
  <2>3. CASE l[1] \in D \ S
    BY <2>1, <2>3 DEF Searching, Stacked
  <2> QED
    BY <1>5, <2>2, <2>3
<1>6. ASSUME NEW l \in g, l[1] \in D \ S PROVE l[2] \in D \ S
  <2>1. <<l[1], l[2]>> \in g
    OBVIOUS
  <2> QED
    BY <2>1, <1>6 DEF Searching, Stacked
<1>7. top \in cycle
  BY <1>1, <1>2 DEF Taken
<1> HIDE DEF cycle, D
<1>8. ASSUME NEW x \in Together(V, g, top) PROVE x \in cycle
  <2>1. LeadsTo(g, top, x) /\ LeadsTo(g, x, top)
    BY DEF Together
  <2>2. NoWayOut(g, cycle \cup (D \ S)) /\ NoWayOut(g, D \ S)
    BY <1>5, <1>6 DEF NoWayOut
  <2>3. x \in cycle \cup (D \ S)
    BY <2>1, <2>2, <1>7 DEF LeadsTo
  <2>4. x \notin D \ S
    BY <2>1, <2>2, <1>2 DEF LeadsTo
  <2> QED
    BY <2>3, <2>4
<1>9. \A y \in cycle : y \notin Rest(ix, S, top)
  BY <1>1, <1>2 DEF Taken, Rest, cycle, D
<1>10. \A y : y \notin S => y \notin Rest(ix, S, top)
  BY DEF Rest
<1> QED
  BY <1>3, <1>4, <1>8, <1>9, <1>10 DEF cycle, D

LEMMA ClosesCycle ==
  ASSUME NEW V, IsFiniteSet(V), NEW g \in SUBSET (V \X V), NEW ix, NEW low, NEW left, NEW S, NEW O, NEW found,
         Searching(V, g, ix, low, left, S, O, found),
         NEW top, TakenLast(ix, O, top), left[top] = {}, low[top] = ix[top], NEW low2, HandsOn(ix, low, O, top, low2),
         NEW found2, found2 = IF Cardinality(Taken(ix, S, top)) > 1 \/ <<top, top>> \in g
                              THEN found \cup {Taken(ix, S, top)} ELSE found
  PROVE  Searching(V, g, ix, low2, left, Rest(ix, S, top), O \ {top}, found2)
<1> DEFINE D == DOMAIN ix
           O2 == O \ {top}
           S2 == Rest(ix, S, top)
           cycle == Taken(ix, S, top)
<1>1. /\ ix \in [D -> Nat] /\ D \in SUBSET V /\ low \in [D -> Nat] /\ O \subseteq S /\ S \subseteq D
      /\ \A x, y \in S : ix[x] <= ix[y] => LeadsTo(g, x, y)
      /\ \A x, y \in D : ix[x] = ix[y] => x = y
  BY DEF Searching, Numbered, LowsFit, Stacked
<1>2. top \in O /\ top \in S /\ top \in D /\ \A o \in O : ix[o] <= ix[top]
  BY <1>1 DEF TakenLast
<1>3. /\ low2 \in [D -> Nat]
      /\ \A o \in O2 : \/ low2[o] = low[o]
                       \/ low2[o] = low[top] /\ low[top] <= low[o] /\ LeadsTo(g, o, top)
      /\ \A o \in O2 : low2[o] <= low[o] /\ ix[o] < ix[top]
  <2>1. HandedTo(g, ix, low, O, top, low2)
    <3> HIDE DEF D, O2
    <3> QED
      BY HandedOn
  <2> QED
    BY <2>1 DEF HandedTo
<1>4. /\ cycle = Together(V, g, top)
      /\ \A x \in cycle : \A y : <<x, y>> \in g => y \in D /\ y \notin S2
  BY TakesCycle
<1>5. /\ S2 \cup cycle = S /\ S2 \cap cycle = {} /\ O2 \subseteq S2 /\ S2 \subseteq D /\ S2 \subseteq S
      /\ \A x \in S2 : ix[x] < ix[top]
  <2>1. \A x \in S : ix[x] \in Nat /\ ix[top] \in Nat
    BY <1>1, <1>2
  <2>2. S2 \cup cycle = S /\ S2 \cap cycle = {}
    BY <2>1 DEF Rest, Taken
  <2>3. O2 \subseteq S2
    BY <1>1, <1>3 DEF Rest
  <2> QED
    BY <2>2, <2>3, <1>1 DEF Rest
<1>6. D \ S2 = (D \ S) \cup cycle
  BY <1>1, <1>5
<1>7. /\ DOMAIN left = D
      /\ \A x \in D : \A z \in left[x] : <<x, z>> \in g
      /\ \A x \in D : x \notin O2 => left[x] = {}
      /\ \A x \in D : \A z : <<x, z>> \in g /\ z \notin left[x] => z \in D
  BY DEF Searching, Met
<1> HIDE DEF D, S2, cycle, O2
<1>8. Met(g, ix, left, O2)
  BY <1>7 DEF Met, D
<1>9. Stacked(g, ix, S2, O2)
  <2>1. ASSUME NEW x \in D, NEW y, <<x, y>> \in g, x \notin S2 PROVE y \in D /\ y \notin S2
    <3>1. CASE x \in cycle
      BY <3>1, <2>1, <1>4
    <3>2. CASE x \notin cycle
      <4>1. x \notin S
        BY <3>2, <2>1, <1>5
      <4>2. y \in D /\ y \notin S
        BY <4>1, <2>1 DEF Searching, Stacked, D
      <4> QED
        BY <4>2, <1>5
    <3> QED
      BY <3>1, <3>2
  <2>2. ASSUME NEW x \in S2 PROVE \E o \in O2 : ix[o] <= ix[x] /\ LeadsTo(g, x, o)
    <3>1. PICK o \in O : ix[o] <= ix[x] /\ LeadsTo(g, x, o)
      BY <1>5 DEF Searching, Stacked
    <3>2. o # top
      <4>1. ix[x] < ix[top] /\ ix[x] \in Nat /\ ix[top] \in Nat
        BY <1>1, <1>2, <1>5
      <4> QED
        BY <4>1, <3>1
    <3> QED
      BY <3>1, <3>2 DEF O2
  <2>3. \A x, y \in S2 : ix[x] <= ix[y] => LeadsTo(g, x, y)
    BY <1>1, <1>5
  <2> QED
    BY <2>1, <2>2, <2>3, <1>5 DEF Stacked, D
<1>10. LowsFit(g, ix, low2, left, S2, O2)
  <2>1. ASSUME NEW o \in O2 PROVE low2[o] <= ix[o] /\ \E z \in S2 : ix[z] = low2[o] /\ LeadsTo(g, o, z)
    <3>1. o \in O /\ o \in D /\ ix[o] < ix[top]
      BY <1>1, <1>3 DEF O2
    <3>2. low[o] <= ix[o] /\ \E z \in S : ix[z] = low[o] /\ LeadsTo(g, o, z)
      BY <3>1 DEF Searching, LowsFit
    <3>3. PICK z \in S : ix[z] = low[o] /\ LeadsTo(g, o, z)
      BY <3>2
    <3>4. /\ low2[o] \in Nat /\ low[o] \in Nat /\ ix[o] \in Nat /\ ix[top] \in Nat /\ low[top] = ix[top]
          /\ low2[o] = low[o] \/ (low2[o] = low[top] /\ low[top] <= low[o])
      BY <1>1, <1>2, <1>3, <3>1
    <3>5. low2[o] = low[o] /\ low2[o] <= ix[o] /\ ix[z] < ix[top]
      BY <3>1, <3>2, <3>3, <3>4
    <3>6. z \in S2
      BY <3>5 DEF S2, Rest
    <3> QED
      BY <3>3, <3>5, <3>6
  <2>2. ASSUME NEW x \in S2, NEW z \in S2, <<x, z>> \in g, z \notin left[x]
        PROVE  \E o \in O2 : low2[o] <= ix[z] /\ \A p \in O2 : ix[p] <= ix[x] => ix[p] <= ix[o]
    <3>1. PICK o \in O : low[o] <= ix[z] /\ \A p \in O : ix[p] <= ix[x] => ix[p] <= ix[o]
      BY <2>2, <1>5 DEF Searching, LowsFit
    <3>2. ix[z] < ix[top] /\ ix[z] \in Nat /\ ix[top] \in Nat /\ low[top] = ix[top]
      BY <1>1, <1>2, <1>5
    <3>3. o # top
      BY <3>1, <3>2
    <3>4. o \in O2 /\ low2[o] <= low[o] /\ low2[o] \in Nat /\ low[o] \in Nat
      BY <3>3, <1>1, <1>3 DEF O2
    <3>5. low2[o] <= ix[z]
      BY <3>1, <3>2, <3>4
    <3> QED
      BY <3>1, <3>4, <3>5 DEF O2
  <2> QED
    BY <2>1, <2>2, <1>3 DEF LowsFit, D
<1>11. found2 = CyclesOf(V, g, D \ S2)
  <2>1. top \in V /\ top \in cycle
    BY <1>1, <1>2 DEF cycle, Taken
  <2>2. /\ \A z \in cycle : Together(V, g, z) = cycle
        /\ \A z \in cycle : z # top => OnCycle(g, top) /\ OnCycle(g, z)
        /\ OnCycle(g, top) => <<top, top>> \in g \/ \E z \in cycle : z # top
    BY <2>1, <1>4, OnOneCycle
  <2>3. (Cardinality(cycle) > 1 \/ <<top, top>> \in g) <=> OnCycle(g, top)
    <3>1. IsFiniteSet(cycle)
      <4>1. cycle \in SUBSET V
        BY <1>1 DEF cycle, Taken
      <4> QED
        BY <4>1, FS_Subset
    <3>2. CASE cycle = {top}
      <4>1. Cardinality(cycle) = 1
        BY <3>2, FS_Singleton
      <4>2. <<top, top>> \in g => OnCycle(g, top)
        BY LeadsOn DEF OnCycle
      <4> QED
        BY <3>2, <4>1, <4>2, <2>2
    <3>3. CASE cycle # {top}
      <4>1. OnCycle(g, top)
        BY <2>1, <2>2, <3>3
      <4>2. {top} \in SUBSET cycle /\ Cardinality({top}) = 1
        BY <2>1, FS_Singleton
      <4>3. Cardinality(cycle) > 1
        <5>1. Cardinality({top}) <= Cardinality(cycle) /\ Cardinality({top}) # Cardinality(cycle)
          BY <4>2, <3>1, <3>3, FS_Subset
        <5>2. Cardinality(cycle) \in Nat
          BY <3>1, FS_CardinalityType
        <5> QED
          BY <4>2, <5>1, <5>2
      <4> QED
        BY <4>1, <4>3
    <3> QED
      BY <3>2, <3>3
  <2>4. found2 = IF OnCycle(g, top) THEN found \cup {cycle} ELSE found
    BY <2>3 DEF cycle
  <2>5. found = CyclesOf(V, g, D \ S)
    BY DEF Searching, D
  <2>6. \A z \in cycle : OnCycle(g, z) <=> OnCycle(g, top)
    <3>1. ASSUME NEW z \in cycle, OnCycle(g, z), ~OnCycle(g, top) PROVE FALSE
      BY <3>1, <2>2
    <3>2. ASSUME NEW z \in cycle, ~OnCycle(g, z), OnCycle(g, top) PROVE FALSE
      BY <3>2, <2>2
    <3> QED
      BY <3>1, <3>2
  <2>7. CyclesOf(V, g, (D \ S) \cup cycle) = CyclesOf(V, g, D \ S) \cup CyclesOf(V, g, cycle)
    BY DEF CyclesOf
  <2>8. CyclesOf(V, g, cycle) = IF OnCycle(g, top) THEN {cycle} ELSE {}
    <3>1. CASE OnCycle(g, top)
      <4>1. {z \in cycle : OnCycle(g, z)} = cycle
        BY <3>1, <2>6
      <4>2. {Together(V, g, x) : x \in cycle} = {cycle}
        BY <2>1, <2>2
      <4> QED
        BY <4>1, <4>2, <3>1 DEF CyclesOf
    <3>2. CASE ~OnCycle(g, top)
      <4>1. {z \in cycle : OnCycle(g, z)} = {}
        BY <3>2, <2>6
      <4> QED
        BY <4>1, <3>2 DEF CyclesOf
    <3> QED
      BY <3>1, <3>2
  <2> QED
    BY <2>4, <2>5, <2>7, <2>8, <1>6
<1> QED
  BY <1>8, <1>9, <1>10, <1>11 DEF Searching, D, S2, O2

-----------------------------------------------------------------------------
(* The stack and the open calls as sequences, in the order of the numbers.  *)

Rising(q, w) == \A i, j \in 1..Len(q) : i < j => w[q[i]] < w[q[j]]
StackInOrder(S, q, w) ==
    q \in Seq(S) /\ Rising(q, w) /\ Range(q) \subseteq DOMAIN w /\ \A x \in Range(q) : w[x] \in Nat

LEMMA LastOfRising ==
  ASSUME NEW S, NEW q, NEW w, StackInOrder(S, q, w), q # << >>
  PROVE  /\ Last(q) \in Range(q) /\ \A x \in Range(q) : w[x] <= w[Last(q)]
         /\ StackInOrder(S, Front(q), w) /\ Range(Front(q)) = Range(q) \ {Last(q)}
<1> DEFINE n == Len(q)
           p == Front(q)
<1>1. /\ n \in Nat /\ n > 0 /\ DOMAIN q = 1..n /\ \A i \in 1..n : q[i] \in S /\ w[q[i]] \in Nat
      /\ \A i, j \in 1..n : i < j => w[q[i]] < w[q[j]]
  <2>1. n \in Nat /\ n > 0 /\ DOMAIN q = 1..n /\ \A i \in 1..n : q[i] \in S
    BY LenProperties, ElementOfSeq, EmptySeq DEF StackInOrder
  <2> QED
    BY <2>1 DEF StackInOrder, Rising, Range
<1>2. n \in 1..n /\ Last(q) = q[n] /\ n - 1 \in Nat /\ n - 1 <= n
  BY <1>1 DEF Last
<1>3. p \in Seq(S) /\ Len(p) = n - 1 /\ DOMAIN p = 1..(n - 1) /\ \A i \in 1..(n - 1) : p[i] = q[i]
  <2>1. p = SubSeq(q, 1, n - 1)
    BY DEF Front
  <2>2. q \in Seq(S)
    BY DEF StackInOrder
  <2>3. /\ SubSeq(q, 1, n - 1) \in Seq(S) /\ Len(SubSeq(q, 1, n - 1)) = n - 1
        /\ \A i \in 1..(n - 1) : SubSeq(q, 1, n - 1)[i] = q[i]
    BY <1>1, <1>2, <2>2, SubSeqProperties
  <2> QED
    BY <2>1, <2>3, LenProperties
<1> HIDE DEF n, p
<1>4. Last(q) \in Range(q) /\ \A x \in Range(q) : w[x] <= w[Last(q)]
  <2>1. \A i \in 1..n : i < n \/ i = n
    BY <1>1
  <2>2. \A i \in 1..n : w[q[i]] <= w[q[n]]
    BY <1>1, <1>2, <2>1
  <2> QED
    BY <1>1, <1>2, <2>2 DEF Range
<1>5. \A i \in 1..(n - 1) : i \in 1..n /\ i < n
  BY <1>1
<1>6. Range(p) = Range(q) \ {Last(q)}
  <2>1. ASSUME NEW i \in 1..(n - 1) PROVE q[i] \in Range(q) /\ q[i] # q[n]
    <3>1. w[q[i]] < w[q[n]] /\ w[q[n]] \in Nat
      BY <1>1, <1>2, <1>5
    <3> QED
      BY <3>1, <1>1, <1>5 DEF Range
  <2>2. \A i \in 1..n : i = n \/ i \in 1..(n - 1)
    BY <1>1
  <2> QED
    BY <1>1, <1>2, <1>3, <2>1, <2>2 DEF Range
<1>7. Rising(p, w)
  BY <1>1, <1>3, <1>5 DEF Rising
<1>8. StackInOrder(S, p, w)
  BY <1>3, <1>6, <1>7 DEF StackInOrder
<1> QED
  BY <1>4, <1>6, <1>8 DEF p

LEMMA OneMoreRising ==
  ASSUME NEW S, NEW q, NEW w, StackInOrder(S, q, w), NEW x \in S, NEW w2, w2[x] \in Nat, x \in DOMAIN w2, DOMAIN w \subseteq DOMAIN w2,
         \A y \in DOMAIN w : w2[y] = w[y] /\ w[y] < w2[x]
  PROVE  StackInOrder(S, Append(q, x), w2) /\ Range(Append(q, x)) = Range(q) \cup {x}
<1> DEFINE n == Len(q)
           p == Append(q, x)
<1>1. n \in Nat /\ DOMAIN q = 1..n /\ \A i \in 1..n : q[i] \in S /\ q[i] \in Range(q)
  BY LenProperties, ElementOfSeq DEF StackInOrder, Range
<1>2. p \in Seq(S) /\ Len(p) = n + 1 /\ DOMAIN p = 1..(n + 1) /\ p[n + 1] = x /\ \A i \in 1..n : p[i] = q[i]
  BY <1>1, AppendProperties, LenProperties DEF StackInOrder
<1>3. \A i, j \in 1..n : i < j => w[q[i]] < w[q[j]]
  BY DEF StackInOrder, Rising
<1>4. \A i \in 1..n : q[i] \in DOMAIN w /\ w2[q[i]] = w[q[i]] /\ w2[q[i]] < w2[x] /\ w2[q[i]] \in Nat
  BY <1>1 DEF StackInOrder
<1> HIDE DEF n, p
<1>5. \A i \in 1..(n + 1) : i = n + 1 \/ (i \in 1..n /\ i < n + 1)
  BY <1>1
<1>6. Rising(p, w2)
  <2> SUFFICES ASSUME NEW i \in 1..(n + 1), NEW j \in 1..(n + 1), i < j PROVE w2[p[i]] < w2[p[j]]
    BY <1>2 DEF Rising
  <2>1. i \in 1..n
    BY <1>1
  <2>2. CASE j = n + 1
    BY <2>1, <2>2, <1>2, <1>4
  <2>3. CASE j \in 1..n
    BY <2>1, <2>3, <1>2, <1>3, <1>4
  <2> QED
    BY <2>2, <2>3, <1>5
<1>7. Range(p) = Range(q) \cup {x}
  <2>1. \A i \in 1..n : i \in 1..(n + 1)
    BY <1>1
  <2>2. n + 1 \in 1..(n + 1)
    BY <1>1
  <2> QED
    BY <1>1, <1>2, <1>5, <2>1, <2>2 DEF Range
<1>8. Range(p) \subseteq DOMAIN w2 /\ \A y \in Range(p) : w2[y] \in Nat
  BY <1>7 DEF StackInOrder
<1> QED
  BY <1>2, <1>6, <1>7, <1>8 DEF StackInOrder, p

LEMMA CutRising ==
  ASSUME NEW S, NEW q, NEW w, StackInOrder(S, q, w), NEW d \in DOMAIN q
  PROVE  /\ StackInOrder(S, SubSeq(q, 1, d - 1), w) /\ Range(SubSeq(q, 1, d - 1)) = Rest(w, Range(q), q[d])
         /\ ToSet(SubSeq(q, d, Len(q))) = Taken(w, Range(q), q[d])
<1> DEFINE n == Len(q)
           p == SubSeq(q, 1, d - 1)
           r == SubSeq(q, d, n)
<1>1. /\ q \in Seq(S) /\ n \in Nat /\ DOMAIN q = 1..n
      /\ \A i \in 1..n : q[i] \in S /\ q[i] \in Range(q) /\ w[q[i]] \in Nat
      /\ \A i, j \in 1..n : i < j => w[q[i]] < w[q[j]]
  BY LenProperties, ElementOfSeq DEF StackInOrder, Range, Rising
<1>2. d \in 1..n /\ d - 1 \in Nat /\ d - 1 <= n /\ d >= 1 /\ n - d + 1 \in Nat
  BY <1>1
<1>3. p \in Seq(S) /\ Len(p) = d - 1 /\ DOMAIN p = 1..(d - 1) /\ \A i \in 1..(d - 1) : p[i] = q[i]
  <2>1. p \in Seq(S) /\ Len(p) = d - 1 /\ \A i \in 1..(d - 1) : p[i] = q[i]
    BY <1>1, <1>2, SubSeqProperties
  <2> QED
    BY <2>1, LenProperties
<1>4. Len(r) = n - d + 1 /\ DOMAIN r = 1..(n - d + 1) /\ \A i \in 1..(n - d + 1) : r[i] = q[d + i - 1]
  <2>1. r \in Seq(S) /\ Len(r) = n - d + 1 /\ \A i \in 1..(n - d + 1) : r[i] = q[d + i - 1]
    BY <1>1, <1>2, SubSeqProperties
  <2> QED
    BY <2>1, LenProperties
<1> HIDE DEF n, p, r
<1>5. \A i \in 1..n : i < d => i \in 1..(d - 1)
  BY <1>1, <1>2
<1>6. \A i \in 1..(d - 1) : i \in 1..n /\ i < d
  BY <1>1, <1>2
<1>7. \A i \in 1..(n - d + 1) : d + i - 1 \in 1..n /\ d <= d + i - 1
  BY <1>1, <1>2
<1>8. \A i \in 1..n : d <= i => i - d + 1 \in 1..(n - d + 1) /\ d + (i - d + 1) - 1 = i
  BY <1>1, <1>2
<1>9. \A i \in 1..n : (i < d <=> w[q[i]] < w[q[d]]) /\ (d <= i <=> w[q[d]] <= w[q[i]])
  <2> TAKE i \in 1..n
  <2>1. i \in Nat /\ d \in Nat /\ w[q[i]] \in Nat /\ w[q[d]] \in Nat
    BY <1>1, <1>2
  <2>2. /\ i < d => w[q[i]] < w[q[d]]
        /\ d < i => w[q[d]] < w[q[i]]
        /\ d = i => w[q[d]] = w[q[i]]
    BY <1>1, <1>2
  <2> QED
    BY <2>1, <2>2
<1>10. Range(p) = Rest(w, Range(q), q[d])
  <2>1. ASSUME NEW x \in Range(p) PROVE x \in Rest(w, Range(q), q[d])
    <3>1. PICK i \in 1..(d - 1) : x = q[i]
      BY <1>3 DEF Range
    <3> QED
      BY <3>1, <1>1, <1>6, <1>9 DEF Rest
  <2>2. ASSUME NEW x \in Rest(w, Range(q), q[d]) PROVE x \in Range(p)
    <3>1. PICK i \in 1..n : x = q[i]
      BY <1>1 DEF Range, Rest
    <3>2. i \in 1..(d - 1)
      BY <3>1, <1>5, <1>9 DEF Rest
    <3> QED
      BY <3>1, <3>2, <1>3 DEF Range
  <2> QED
    BY <2>1, <2>2
<1>11. ToSet(r) = Taken(w, Range(q), q[d])
  <2>1. ASSUME NEW x \in ToSet(r) PROVE x \in Taken(w, Range(q), q[d])
    <3>1. PICK i \in 1..(n - d + 1) : x = q[d + i - 1]
      BY <1>4 DEF ToSet
    <3>2. PICK k \in 1..n : x = q[k] /\ d <= k
      BY <3>1, <1>7
    <3> QED
      BY <3>2, <1>1, <1>9 DEF Taken
  <2>2. ASSUME NEW x \in Taken(w, Range(q), q[d]) PROVE x \in ToSet(r)
    <3>1. PICK i \in 1..n : x = q[i]
      BY <1>1 DEF Range, Taken
    <3>2. d <= i
      BY <3>1, <1>9 DEF Taken
    <3>3. PICK k \in 1..(n - d + 1) : d + k - 1 = i
      BY <3>2, <1>8
    <3> QED
      BY <3>1, <3>3, <1>4 DEF ToSet
  <2> QED
    BY <2>1, <2>2
<1>12. Rising(p, w)
  BY <1>1, <1>3, <1>6 DEF Rising
<1>13. StackInOrder(S, p, w)
  BY <1>3, <1>10, <1>12 DEF StackInOrder, Rest
<1> QED
  BY <1>10, <1>11, <1>13 DEF n, p, r

-----------------------------------------------------------------------------
(* What each step of the search keeps.                                      *)

HasFields(s) ==
    s = [indices |-> s.indices, low |-> s.low, stack |-> s.stack, open |-> s.open, left |-> s.left]
SearchFits(V, g, s, found) ==
    /\ HasFields(s) /\ StackInOrder(V, s.stack, s.indices) /\ StackInOrder(V, s.open, s.indices)
    /\ Searching(V, g, s.indices, s.low, s.left, Range(s.stack), Range(s.open), found)
EdgesFit(V, g) == IsFiniteSet(V) /\ g \in SUBSET (V \X V)

LEMMA NodeOpens ==
  ASSUME NEW V, NEW g, EdgesFit(V, g), NEW s, NEW found, SearchFits(V, g, s, found),
         NEW node \in V, node \notin DOMAIN s.indices, NEW mid, NEW callees, CalleesIn(g, node, callees),
         Turned(s.indices, s.left, Range(s.open), node, mid),
         NEW s2, s2 = [indices |-> With(s.indices, node, Cardinality(DOMAIN s.indices)),
                       low |-> With(s.low, node, Cardinality(DOMAIN s.indices)), left |-> With(mid, node, callees),
                       stack |-> Append(s.stack, node), open |-> Append(s.open, node)]
  PROVE  SearchFits(V, g, s2, found)
<1> DEFINE ix == s.indices
           low == s.low
           left == s.left
           S == Range(s.stack)
           O == Range(s.open)
           ix2 == s2.indices
<1>1. /\ IsFiniteSet(V) /\ g \in SUBSET (V \X V) /\ Searching(V, g, ix, low, left, S, O, found)
      /\ StackInOrder(V, s.stack, ix) /\ StackInOrder(V, s.open, ix)
  BY DEF SearchFits, EdgesFit
<1>2. /\ s2.indices = With(ix, node, Cardinality(DOMAIN ix)) /\ s2.low = With(low, node, Cardinality(DOMAIN ix))
      /\ s2.left = With(mid, node, callees) /\ s2.stack = Append(s.stack, node) /\ s2.open = Append(s.open, node)
      /\ HasFields(s2)
  <2> DEFINE a == With(ix, node, Cardinality(DOMAIN ix))
             b == With(low, node, Cardinality(DOMAIN ix))
             c == With(mid, node, callees)
             d == Append(s.stack, node)
             e == Append(s.open, node)
  <2>1. s2 = [indices |-> a, low |-> b, left |-> c, stack |-> d, open |-> e]
    OBVIOUS
  <2> HIDE DEF a, b, c, d, e
  <2>2. s2.indices = a /\ s2.low = b /\ s2.left = c /\ s2.stack = d /\ s2.open = e /\ HasFields(s2)
    BY ONLY <2>1 DEF HasFields
  <2> QED
    BY <2>2 DEF a, b, c, d, e
<1>3. node \notin DOMAIN ix /\ CalleesIn(g, node, callees) /\ Turned(ix, left, O, node, mid)
  OBVIOUS
<1>4. DOMAIN ix2 = DOMAIN ix \cup {node} /\ ix2[node] = Cardinality(DOMAIN ix)
  BY <1>2 DEF With
<1> HIDE DEF ix, low, left, S, O, ix2
<1>5. Searching(V, g, ix2, s2.low, s2.left, S \cup {node}, O \cup {node}, found)
  BY <1>1, <1>2, <1>3, OpensRight DEF ix2
<1>9. \A x \in DOMAIN ix : ix2[x] = ix[x] /\ ix[x] < ix2[node]
  <2>1. \A x \in DOMAIN ix : ix2[x] = ix[x]
    BY <1>2, <1>3 DEF With, ix2
  <2> QED
    BY <2>1, <1>1, <1>4 DEF Searching, Numbered
<1>6. ix2[node] \in Nat
  <2>1. DOMAIN ix \in SUBSET V
    BY <1>1 DEF Searching, Numbered
  <2> QED
    BY <2>1, <1>1, <1>4, FS_Subset, FS_CardinalityType
<1>7. StackInOrder(V, Append(s.stack, node), ix2) /\ Range(Append(s.stack, node)) = S \cup {node}
  <2>1. S = Range(s.stack) /\ node \in DOMAIN ix2 /\ DOMAIN ix \subseteq DOMAIN ix2
    BY <1>4 DEF S
  <2> QED
    BY <2>1, <1>1, <1>9, <1>6, OneMoreRising
<1>8. StackInOrder(V, Append(s.open, node), ix2) /\ Range(Append(s.open, node)) = O \cup {node}
  <2>1. O = Range(s.open) /\ node \in DOMAIN ix2 /\ DOMAIN ix \subseteq DOMAIN ix2
    BY <1>4 DEF O
  <2> QED
    BY <2>1, <1>1, <1>9, <1>6, OneMoreRising
<1> QED
  BY <1>2, <1>5, <1>7, <1>8 DEF SearchFits, ix2

LEMMA NodeMet ==
  ASSUME NEW V, NEW g, EdgesFit(V, g), NEW s, NEW found, SearchFits(V, g, s, found), s.open # << >>,
         NEW node \in s.left[Last(s.open)], node \in DOMAIN s.indices,
         NEW s2, s2 = [indices |-> s.indices, stack |-> s.stack, open |-> s.open,
                       low |-> [s.low EXCEPT ![Last(s.open)] = IF node \in ToSet(s.stack)
                                                               THEN Least(s.low[Last(s.open)], s.indices[node])
                                                               ELSE s.low[Last(s.open)]],
                       left |-> [s.left EXCEPT ![Last(s.open)] = @ \ {node}]]
  PROVE  SearchFits(V, g, s2, found)
<1> DEFINE top == Last(s.open)
<1>1. /\ IsFiniteSet(V) /\ g \in SUBSET (V \X V) /\ StackInOrder(V, s.stack, s.indices) /\ StackInOrder(V, s.open, s.indices)
      /\ Searching(V, g, s.indices, s.low, s.left, Range(s.stack), Range(s.open), found)
  BY DEF SearchFits, EdgesFit
<1>2. TakenLast(s.indices, Range(s.open), top)
  BY <1>1, LastOfRising DEF TakenLast
<1>3. Range(s.stack) = ToSet(s.stack)
  BY DEF Range, ToSet
<1>4. /\ s2.indices = s.indices /\ s2.stack = s.stack /\ s2.open = s.open /\ HasFields(s2)
      /\ s2.left = [s.left EXCEPT ![top] = @ \ {node}]
      /\ s2.low = [s.low EXCEPT ![top] = IF node \in Range(s.stack) THEN Least(s.low[top], s.indices[node]) ELSE s.low[top]]
  BY <1>3 DEF HasFields
<1> HIDE DEF top
<1>5. Searching(V, g, s.indices, s2.low, s2.left, Range(s.stack), Range(s.open), found)
  <2>1. node \in s.left[top]
    BY DEF top
  <2> QED
    BY <2>1, <1>1, <1>2, <1>4, MeetsRight
<1> QED
  BY <1>1, <1>4, <1>5 DEF SearchFits

LEMMA NodeCloses ==
  ASSUME NEW V, NEW g, EdgesFit(V, g), NEW s, NEW found, SearchFits(V, g, s, found), s.open # << >>,
         s.left[Last(s.open)] = {}, NEW depth \in DOMAIN s.stack, s.stack[depth] = Last(s.open),
         NEW s2, HasFields(s2), s2.indices = s.indices, s2.left = s.left, s2.open = Front(s.open),
         s2.low = (IF Front(s.open) = << >> THEN s.low
                   ELSE [s.low EXCEPT ![Last(Front(s.open))] = Least(@, s.low[Last(s.open)])]),
         s2.stack = (IF s.low[Last(s.open)] = s.indices[Last(s.open)] THEN SubSeq(s.stack, 1, depth - 1) ELSE s.stack),
         NEW found2, found2 = IF /\ s.low[Last(s.open)] = s.indices[Last(s.open)]
                                 /\ \/ Cardinality(ToSet(SubSeq(s.stack, depth, Len(s.stack)))) > 1
                                    \/ <<Last(s.open), Last(s.open)>> \in g
                              THEN found \cup {ToSet(SubSeq(s.stack, depth, Len(s.stack)))} ELSE found
  PROVE  SearchFits(V, g, s2, found2)
<1> DEFINE top == Last(s.open)
           outer == Front(s.open)
           ix == s.indices
           S == Range(s.stack)
           O == Range(s.open)
<1>1. /\ IsFiniteSet(V) /\ g \in SUBSET (V \X V) /\ StackInOrder(V, s.stack, ix) /\ StackInOrder(V, s.open, ix)
      /\ Searching(V, g, ix, s.low, s.left, S, O, found)
  BY DEF SearchFits, EdgesFit
<1>2. TakenLast(ix, O, top) /\ StackInOrder(V, outer, ix) /\ Range(outer) = O \ {top}
  BY <1>1, LastOfRising DEF TakenLast
<1>3. /\ StackInOrder(V, SubSeq(s.stack, 1, depth - 1), ix) /\ Range(SubSeq(s.stack, 1, depth - 1)) = Rest(ix, S, top)
      /\ ToSet(SubSeq(s.stack, depth, Len(s.stack))) = Taken(ix, S, top)
  BY <1>1, CutRising
<1>4. HandsOn(ix, s.low, O, top, s2.low)
  <2>1. CASE outer = << >>
    <3>1. O \ {top} = {}
      BY <1>2, <2>1, EmptyQueue
    <3> QED
      BY <2>1, <3>1 DEF HandsOn
  <2>2. CASE outer # << >>
    <3>1. Last(outer) \in Range(outer) /\ \A x \in Range(outer) : ix[x] <= ix[Last(outer)]
      BY <1>2, <2>2, LastOfRising
    <3>2. TakenLast(ix, O \ {top}, Last(outer))
      BY <3>1, <1>2 DEF TakenLast
    <3>3. s2.low = [s.low EXCEPT ![Last(outer)] = Least(@, s.low[top])]
      BY <2>2
    <3> HIDE DEF outer, top, O, ix
    <3> QED
      BY <3>2, <3>3 DEF HandsOn
  <2> QED
    BY <2>1, <2>2
<1>5. /\ s.left[top] = {} /\ s2.indices = ix /\ s2.open = outer /\ s2.left = s.left
      /\ s2.stack = (IF s.low[top] = ix[top] THEN SubSeq(s.stack, 1, depth - 1) ELSE s.stack)
      /\ found2 = IF s.low[top] = ix[top] /\ (Cardinality(Taken(ix, S, top)) > 1 \/ <<top, top>> \in g)
                  THEN found \cup {Taken(ix, S, top)} ELSE found
  BY <1>3
<1> HIDE DEF top, outer, ix, S, O
<1>6. CASE s.low[top] # ix[top]
  <2>1. Searching(V, g, ix, s2.low, s.left, S, O \ {top}, found)
    BY <1>1, <1>2, <1>4, <1>5, <1>6, ClosesInside
  <2>2. s2.stack = s.stack /\ found2 = found
    BY <1>5, <1>6
  <2> QED
    BY <2>1, <2>2, <1>1, <1>2, <1>5 DEF SearchFits, S
<1>7. CASE s.low[top] = ix[top]
  <2>1. /\ found2 = IF Cardinality(Taken(ix, S, top)) > 1 \/ <<top, top>> \in g
                    THEN found \cup {Taken(ix, S, top)} ELSE found
        /\ s2.stack = SubSeq(s.stack, 1, depth - 1)
    BY <1>5, <1>7
  <2>2. Searching(V, g, ix, s2.low, s.left, Rest(ix, S, top), O \ {top}, found2)
    BY <2>1, <1>1, <1>2, <1>4, <1>5, <1>7, ClosesCycle
  <2> QED
    BY <2>1, <2>2, <1>2, <1>3, <1>5 DEF SearchFits
<1> QED
  BY <1>6, <1>7

-----------------------------------------------------------------------------
(* What a search from some names comes to.                                  *)

EdgesArePairs == \A e \in callEdges : e = <<e[1], e[2]>>

LEMMA NodesAre ==
  ASSUME EdgesArePairs
  PROVE  /\ callEdges \in SUBSET (CallNodes \X CallNodes)
         /\ \A q, y : y \in Callees(q) <=> <<q, y>> \in callEdges
         /\ IsFiniteSet(callEdges) => IsFiniteSet(CallNodes)
<1>1. ASSUME NEW e \in callEdges PROVE e = <<e[1], e[2]>> /\ e[1] \in CallNodes /\ e[2] \in CallNodes
  BY DEF EdgesArePairs, CallNodes
<1>2. callEdges \in SUBSET (CallNodes \X CallNodes)
  BY <1>1
<1>3. ASSUME NEW q, NEW y PROVE y \in Callees(q) <=> <<q, y>> \in callEdges
  <2>1. ASSUME y \in Callees(q) PROVE <<q, y>> \in callEdges
    <3>1. PICK e \in callEdges : e[1] = q /\ e[2] = y
      BY <2>1 DEF Callees
    <3> QED
      BY <3>1, <1>1
  <2>2. ASSUME <<q, y>> \in callEdges PROVE y \in Callees(q)
    BY <2>2 DEF Callees
  <2> QED
    BY <2>1, <2>2
<1>4. ASSUME IsFiniteSet(callEdges) PROVE IsFiniteSet(CallNodes)
  <2> DEFINE first == [e \in callEdges |-> e[1]]
             second == [e \in callEdges |-> e[2]]
  <2>1. IsFiniteSet({first[e] : e \in callEdges}) /\ IsFiniteSet({second[e] : e \in callEdges})
    <3>1. DOMAIN first = callEdges /\ DOMAIN second = callEdges
      OBVIOUS
    <3> HIDE DEF first, second
    <3> QED
      BY <3>1, <1>4, FiniteImage
  <2>2. CallNodes = {first[e] : e \in callEdges} \cup {second[e] : e \in callEdges}
    BY DEF CallNodes
  <2> HIDE DEF first, second
  <2> QED
    BY <2>1, <2>2, FS_Union
<1> QED
  BY <1>2, <1>3, <1>4

LEMMA ClosureWalks ==
  ASSUME IsFiniteSet(CallNodes), NEW s
  PROVE  \E f : Walks(callEdges, s, Cardinality(CallNodes), f) /\ Closure(s) = f[Cardinality(CallNodes)]
<1> DEFINE N == Cardinality(CallNodes)
           f == CHOOSE f : Walks(callEdges, s, N, f)
<1>1. N \in Nat
  BY FS_CardinalityType
<1>2. Closure(s) = f[N]
  BY DEF Closure, Walks, NextTo
<1> HIDE DEF N
<1>3. Walks(callEdges, s, N, f)
  BY <1>1, WalksExist
<1> HIDE DEF f
<1> QED
  BY <1>2, <1>3 DEF N

Beyond(V, g, q) == {b \in V : \E y : <<q, y>> \in g /\ LeadsTo(g, y, b)}

LEMMA ClosureIs ==
  ASSUME EdgesArePairs, IsFiniteSet(CallNodes), NEW q
  PROVE  Closure(Callees(q)) = Beyond(CallNodes, callEdges, q)
<1> DEFINE V == CallNodes
           g == callEdges
           s == Callees(q)
           w == Closure(s)
           t == Beyond(V, g, q)
<1>1. /\ g \in SUBSET (V \X V) /\ IsFiniteSet(V) /\ s \in SUBSET V /\ \A y : y \in s <=> <<q, y>> \in g
  <2>1. g \in SUBSET (V \X V) /\ \A y : y \in s <=> <<q, y>> \in g
    BY NodesAre
  <2>2. s \in SUBSET V
    BY DEF Callees, CallNodes
  <2> QED
    BY <2>1, <2>2
<1>2. PICK f : Walks(g, s, Cardinality(V), f) /\ w = f[Cardinality(V)]
  BY ClosureWalks
<1> HIDE DEF V, g, s, w, t
<1>3. s \subseteq w /\ w \in SUBSET V /\ NoWayOut(g, w) /\ \A c : s \subseteq c /\ NoWayOut(g, c) => w \subseteq c
  BY <1>1, <1>2, WalkEnds
<1>4. s \subseteq t
  BY <1>1, LeadsOn DEF t, Beyond
<1>5. NoWayOut(g, t)
  <2> SUFFICES ASSUME NEW l \in g, l[1] \in t PROVE l[2] \in t
    BY DEF NoWayOut
  <2>1. PICK y : <<q, y>> \in g /\ LeadsTo(g, y, l[1])
    BY DEF t, Beyond
  <2>2. <<l[1], l[2]>> \in g /\ l[2] \in V
    BY <1>1
  <2>3. LeadsTo(g, y, l[2])
    BY <2>1, <2>2, <1>1, LeadsOn
  <2> QED
    BY <2>1, <2>2, <2>3 DEF t, Beyond
<1>6. t \subseteq w
  <2> SUFFICES ASSUME NEW b \in t PROVE b \in w
    OBVIOUS
  <2>1. PICK y : <<q, y>> \in g /\ LeadsTo(g, y, b)
    BY DEF t, Beyond
  <2>2. y \in w
    BY <2>1, <1>1, <1>3
  <2> QED
    BY <2>1, <2>2, <1>3 DEF LeadsTo
<1>7. w = t
  BY <1>3, <1>4, <1>5, <1>6
<1> QED
  BY <1>7 DEF w, t, V, g, s

(* The nodes that lead to each other, as CyclesRight has them.              *)
LEMMA CyclesAre ==
  ASSUME NEW V, NEW g \in SUBSET (V \X V)
  PROVE  CyclesOf(V, g, V) =
            {c \in {{r \in Beyond(V, g, q) : q \in Beyond(V, g, r)} : q \in V} : c # {}}
<1> DEFINE K(q) == {r \in Beyond(V, g, q) : q \in Beyond(V, g, r)}
<1>1. ASSUME NEW q \in V, OnCycle(g, q) PROVE K(q) = Together(V, g, q) /\ q \in K(q)
  <2>1. q \in Beyond(V, g, q)
    BY <1>1 DEF OnCycle, Beyond
  <2>2. ASSUME NEW r \in Together(V, g, q) PROVE r \in K(q)
    <3>1. CASE r = q
      BY <2>1, <3>1
    <3>2. CASE r # q
      <4>1. r \in V /\ LeadsTo(g, q, r) /\ LeadsTo(g, r, q)
        BY DEF Together
      <4>2. (\E y : <<q, y>> \in g /\ LeadsTo(g, y, r)) /\ (\E y : <<r, y>> \in g /\ LeadsTo(g, y, q))
        BY <3>2, <4>1, FirstStep
      <4> QED
        BY <4>1, <4>2 DEF Beyond
    <3> QED
      BY <3>1, <3>2
  <2>3. ASSUME NEW r \in K(q) PROVE r \in Together(V, g, q)
    BY LeadsOn DEF Beyond, Together
  <2> QED
    BY <2>1, <2>2, <2>3
<1>2. ASSUME NEW q \in V, K(q) # {} PROVE OnCycle(g, q)
  <2>1. PICK r : r \in Beyond(V, g, q) /\ q \in Beyond(V, g, r)
    BY <1>2
  <2>2. PICK y : <<q, y>> \in g /\ LeadsTo(g, y, r)
    BY <2>1 DEF Beyond
  <2>3. LeadsTo(g, r, q)
    BY <2>1, LeadsOn DEF Beyond
  <2>4. LeadsTo(g, y, q)
    BY <2>2, <2>3, LeadsOn
  <2> QED
    BY <2>2, <2>4 DEF OnCycle
<1> HIDE DEF K
<1>3. CyclesOf(V, g, V) = {c \in {K(q) : q \in V} : c # {}}
  BY <1>1, <1>2 DEF CyclesOf
<1> QED
  BY <1>3 DEF K

-----------------------------------------------------------------------------
(* The call graph, from the documents to the cycles.                        *)

DocumentsOf == {project[f] : f \in Range(CallFiles)}
Modules == {d.module : d \in DocumentsOf}
CallsBefore == {"dynamic", "index", "resolve", "extract"}
NamesFit ==
    /\ \A q \in symbols : Len(q) \in Nat /\ Len(q) > 0
    /\ IsFiniteSet(symbols)
    /\ \A k \in DOMAIN aliases : Len(aliases[k]) \in Nat /\ Len(aliases[k]) > 0 /\ aliases[k] \in Seq(STRING)
EdgesNamed == \A e \in callEdges : e = <<e[1], e[2]>> /\ Len(e[1]) > 0 /\ Len(e[2]) > 0
EdgesExtracted ==
    /\ IsFiniteSet(callEdges)
    /\ \A e \in callEdges : \E d \in DocumentsOf : e[1] = d.module /\ d.calls # {}
GraphInv ==
    /\ project \in Projects /\ callStage \in CallsBefore \cup {"sccs", "done"}
    /\ NamesFit /\ EdgesNamed
    /\ callStage \in CallsBefore => search = NoSearch /\ sccs = {}
    /\ callStage \notin CallsBefore => EdgesExtracted /\ SearchFits(CallNodes, callEdges, search, sccs)
    /\ callStage = "done" => search.open = << >> /\ CallNodes \subseteq DOMAIN search.indices

LEMMA DocumentsAre ==
  ASSUME project \in Projects
  PROVE  /\ ToSet(DocumentsInOrder) = DocumentsOf /\ IsFiniteSet(DocumentsOf)
         /\ \A d \in DocumentsOf :
               /\ d.module \in QualifiedNames /\ d.imports \in Seq(Imports)
               /\ IsFiniteSet(d.defines) /\ d.defines \subseteq STRING /\ d.entries \subseteq d.defines
               /\ IsFiniteSet(d.calls) /\ \A c \in d.calls : c.raw \in QualifiedNames
               /\ \A e \in Dynamic : d.module = <<e[1]>> => d.calls = {}
<1>1. CallFiles \in Seq(Range(CallFiles)) /\ DOMAIN CallFiles = 1..Len(CallFiles) /\ Len(CallFiles) \in Nat
  BY CallGraphsAssumption, LenProperties
<1>2. IsFiniteSet(Range(CallFiles))
  <2>1. IsFiniteSet(DOMAIN CallFiles)
    BY <1>1, FS_Interval
  <2>2. IsFiniteSet({CallFiles[n] : n \in DOMAIN CallFiles})
    BY <2>1, FiniteImage
  <2> QED
    BY <2>2 DEF Range
<1>3. ToSet(DocumentsInOrder) = DocumentsOf
  BY DEF ToSet, DocumentsInOrder, DocumentsOf, Range
<1>4. IsFiniteSet(DocumentsOf)
  <2> DEFINE h == [f \in Range(CallFiles) |-> project[f]]
  <2>1. DOMAIN h = Range(CallFiles) /\ DocumentsOf = {h[f] : f \in Range(CallFiles)}
    BY DEF DocumentsOf
  <2> HIDE DEF h
  <2> QED
    BY <2>1, <1>2, FiniteImage
<1> QED
  BY <1>3, <1>4, CallGraphsAssumption DEF DocumentsOf

LEMMA NamesAre ==
  ASSUME NEW q \in QualifiedNames
  PROVE  q \in Seq(STRING) /\ Len(q) \in Nat /\ Len(q) > 0
BY EmptySeq, LenProperties DEF QualifiedNames

LEMMA SymbolsIndexed ==
  ASSUME GraphInv, IndexSymbols
  PROVE  (\A q \in symbols' : Len(q) \in Nat /\ Len(q) > 0) /\ IsFiniteSet(symbols')
<1>1. symbols' = UNION {{d.module} \cup {Append(d.module, f) : f \in d.defines} : d \in DocumentsOf}
  BY DocumentsAre DEF IndexSymbols, GraphInv
<1> DEFINE Of(d) == {d.module} \cup {Append(d.module, f) : f \in d.defines}
<1>2. ASSUME NEW d \in DocumentsOf PROVE IsFiniteSet(Of(d)) /\ \A q \in Of(d) : Len(q) \in Nat /\ Len(q) > 0
  <2>1. d.module \in Seq(STRING) /\ Len(d.module) \in Nat /\ Len(d.module) > 0 /\ d.defines \subseteq STRING /\ IsFiniteSet(d.defines)
    BY DocumentsAre, NamesAre DEF GraphInv
  <2> DEFINE h == [f \in d.defines |-> Append(d.module, f)]
  <2>2. DOMAIN h = d.defines /\ {Append(d.module, f) : f \in d.defines} = {h[f] : f \in d.defines}
    OBVIOUS
  <2> HIDE DEF h
  <2>3. IsFiniteSet({h[f] : f \in d.defines})
    BY <2>1, <2>2, FiniteImage
  <2>4. IsFiniteSet(Of(d))
    BY <2>2, <2>3, FS_Singleton, FS_Union
  <2>5. ASSUME NEW f \in d.defines PROVE Len(Append(d.module, f)) = Len(d.module) + 1
    BY <2>1, AppendProperties
  <2> QED
    BY <2>1, <2>4, <2>5
<1> DEFINE h == [d \in DocumentsOf |-> Of(d)]
<1>3. DOMAIN h = DocumentsOf /\ symbols' = UNION {h[d] : d \in DocumentsOf} /\ \A d \in DocumentsOf : IsFiniteSet(h[d])
  BY <1>1, <1>2
<1>4. \A q \in symbols' : Len(q) \in Nat /\ Len(q) > 0
  BY <1>1, <1>2
<1> HIDE DEF h, Of
<1>5. IsFiniteSet({h[d] : d \in DocumentsOf})
  BY <1>3, DocumentsAre, FiniteImage DEF GraphInv
<1>6. IsFiniteSet(UNION {h[d] : d \in DocumentsOf})
  BY <1>3, <1>5, FS_UNION
<1> QED
  BY <1>3, <1>4, <1>6

LEMMA ImportsResolved ==
  ASSUME GraphInv, ResolveImports
  PROVE  \A k \in DOMAIN aliases' : Len(aliases'[k]) \in Nat /\ Len(aliases'[k]) > 0 /\ aliases'[k] \in Seq(STRING)
<1> DEFINE keys == UNION {{<<d.module, LocalName(i)>> : i \in ToSet(d.imports)} : d \in ToSet(DocumentsInOrder)}
<1>1. ASSUME NEW i \in Imports
      PROVE  Imported(i) \in Seq(STRING) /\ Len(Imported(i)) \in Nat /\ Len(Imported(i)) > 0
  <2>1. i.target \in QualifiedNames /\ i.name \in STRING
    BY DEF Imports
  <2>2. i.target \in Seq(STRING) /\ Len(i.target) \in Nat /\ Len(i.target) > 0
    BY <2>1, NamesAre
  <2>3. Append(i.target, i.name) \in Seq(STRING) /\ Len(Append(i.target, i.name)) = Len(i.target) + 1
    BY <2>1, <2>2, AppendProperties
  <2>4. CASE i.name # ""
    <3>1. Imported(i) = Append(i.target, i.name)
      BY <2>4 DEF Imported
    <3> QED
      BY <2>2, <2>3, <3>1
  <2>5. CASE i.name = ""
    <3>1. Imported(i) = i.target
      BY <2>5 DEF Imported
    <3> QED
      BY <2>2, <3>1
  <2> QED
    BY <2>4, <2>5
<1>2. ASSUME NEW key \in keys PROVE LastGiving(key) \in Imports
  <2> DEFINE holders == {k \in DOMAIN CallFiles : Giving(k, key) # {}}
             n == Max(holders)
  <2>1. CallFiles \in Seq(Range(CallFiles)) /\ DOMAIN CallFiles = 1..Len(CallFiles) /\ Len(CallFiles) \in Nat
    BY CallGraphsAssumption, LenProperties
  <2>2. ASSUME NEW k \in DOMAIN CallFiles
        PROVE  /\ DocumentsInOrder[k] \in DocumentsOf /\ DocumentsInOrder[k].imports \in Seq(Imports)
               /\ DOMAIN DocumentsInOrder[k].imports = 1..Len(DocumentsInOrder[k].imports)
               /\ Len(DocumentsInOrder[k].imports) \in Nat
    <3>1. DocumentsInOrder[k] \in DocumentsOf
      BY DEF DocumentsInOrder, DocumentsOf, Range
    <3>2. DocumentsInOrder[k].imports \in Seq(Imports)
      BY <3>1, DocumentsAre DEF GraphInv
    <3> QED
      BY <3>1, <3>2, LenProperties
  <2>3. holders # {}
    <3>1. PICK d \in ToSet(DocumentsInOrder) : key \in {<<d.module, LocalName(i)>> : i \in ToSet(d.imports)}
      OBVIOUS
    <3>2. PICK m \in DOMAIN d.imports : key = <<d.module, LocalName(d.imports[m])>>
      BY <3>1 DEF ToSet
    <3>3. PICK k \in DOMAIN CallFiles : d = DocumentsInOrder[k]
      BY DEF ToSet, DocumentsInOrder
    <3>4. m \in Giving(k, key)
      BY <3>2, <3>3 DEF Giving
    <3> QED
      BY <3>4
  <2>4. n \in holders
    <3>1. holders \subseteq Nat /\ \A k \in holders : k <= Len(CallFiles)
      BY <2>1
    <3> HIDE DEF holders
    <3> QED
      BY <2>1, <2>3, <3>1, GreatestExists
  <2> HIDE DEF n
  <2>5. Max(Giving(n, key)) \in Giving(n, key)
    <3>1. Giving(n, key) \subseteq DOMAIN DocumentsInOrder[n].imports /\ Giving(n, key) # {}
      BY <2>4 DEF Giving
    <3>2. Giving(n, key) \subseteq Nat /\ \A m \in Giving(n, key) : m <= Len(DocumentsInOrder[n].imports)
      BY <2>2, <2>4, <3>1
    <3> QED
      BY <2>2, <2>4, <3>1, <3>2, GreatestExists
  <2>6. LastGiving(key) = DocumentsInOrder[n].imports[Max(Giving(n, key))]
    BY DEF LastGiving, n
  <2>7. Max(Giving(n, key)) \in DOMAIN DocumentsInOrder[n].imports
    BY <2>5 DEF Giving
  <2> QED
    BY <2>2, <2>4, <2>6, <2>7, ElementOfSeq
<1>3. aliases' = [key \in keys |-> Imported(LastGiving(key))]
  BY DEF ResolveImports
<1> HIDE DEF keys
<1> QED
  BY <1>1, <1>2, <1>3

LEMMA BuiltinNamed ==
  ASSUME NEW raw \in Seq(STRING)
  PROVE  Len(<<"builtins">> \o raw) = 1 + Len(raw)
BY SMT

LEMMA CandidatesAre ==
  ASSUME GraphInv, NEW module \in QualifiedNames, NEW raw \in QualifiedNames
  PROVE  IsFiniteSet(Candidates(module, raw)) /\ \A q \in Candidates(module, raw) : Len(q) \in Nat /\ Len(q) > 0
<1> DEFINE local == module \o raw
           key == <<module, Head(raw)>>
           full == aliases[key] \o Tail(raw)
<1>1. raw \in Seq(STRING) /\ Len(raw) \in Nat /\ Len(raw) > 0 /\ module \in Seq(STRING) /\ Len(module) \in Nat /\ Len(module) > 0
  BY NamesAre
<1>2. CASE raw \in {<<b>> : b \in Builtins}
  <2>1. Candidates(module, raw) = {<<"builtins">> \o raw}
    BY <1>2 DEF Candidates
  <2>2. Len(<<"builtins">> \o raw) = 1 + Len(raw)
    BY <1>1, BuiltinNamed
  <2>3. PICK q : q = <<"builtins">> \o raw
    OBVIOUS
  <2>4. Candidates(module, raw) = {q} /\ Len(q) = 1 + Len(raw)
    BY <2>1, <2>2, <2>3
  <2>5. Len(q) \in Nat /\ Len(q) > 0
    BY <1>1, <2>4
  <2> QED
    BY <2>4, <2>5, FS_Singleton
<1>3. CASE raw \notin {<<b>> : b \in Builtins} /\ local \in symbols
  <2>1. Candidates(module, raw) = {local}
    BY <1>3 DEF Candidates
  <2>2. Len(local) \in Nat /\ Len(local) > 0
    BY <1>3 DEF GraphInv, NamesFit
  <2> HIDE DEF local
  <2> QED
    BY <2>1, <2>2, FS_Singleton
<1>4. CASE /\ raw \notin {<<b>> : b \in Builtins} /\ local \notin symbols
           /\ key \in DOMAIN aliases /\ (full \in symbols \/ Len(raw) = 1)
  <2>1. Candidates(module, raw) = {full}
    BY <1>4 DEF Candidates
  <2>2. aliases[key] \in Seq(STRING) /\ Len(aliases[key]) \in Nat /\ Len(aliases[key]) > 0
    BY <1>4 DEF GraphInv, NamesFit
  <2>3. Tail(raw) \in Seq(STRING) /\ Len(Tail(raw)) = Len(raw) - 1
    BY <1>1, HeadTailProperties
  <2>4. Len(full) = Len(aliases[key]) + Len(Tail(raw))
    BY <2>2, <2>3, ConcatProperties
  <2> HIDE DEF full
  <2>5. Len(full) \in Nat /\ Len(full) > 0
    BY <1>1, <2>2, <2>3, <2>4
  <2> QED
    BY <2>1, <2>5, FS_Singleton
<1>5. CASE /\ raw \notin {<<b>> : b \in Builtins} /\ local \notin symbols
           /\ ~(key \in DOMAIN aliases /\ (full \in symbols \/ Len(raw) = 1))
  <2>1. Candidates(module, raw) = {q \in symbols : EndsWith(q, raw)}
    BY <1>5 DEF Candidates
  <2>2. {q \in symbols : EndsWith(q, raw)} \in SUBSET symbols /\ IsFiniteSet(symbols)
    BY DEF GraphInv, NamesFit
  <2> QED
    BY <2>1, <2>2, FS_Subset DEF GraphInv, NamesFit
<1> QED
  BY <1>2, <1>3, <1>4, <1>5

LEMMA CallsExtracted ==
  ASSUME GraphInv, ExtractCalls
  PROVE  /\ IsFiniteSet(callEdges')
         /\ \A e \in callEdges' : /\ e = <<e[1], e[2]>> /\ Len(e[1]) > 0 /\ Len(e[2]) > 0
                                  /\ \E d \in DocumentsOf : e[1] = d.module /\ d.calls # {}
<1> DEFINE To(d, c) == {<<d.module, q>> : q \in Candidates(d.module, c.raw)}
           Of(d) == UNION {To(d, c) : c \in d.calls}
           from == [d \in DocumentsOf |-> Of(d)]
<1>1. callEdges' = UNION {Of(d) : d \in DocumentsOf}
  BY DocumentsAre DEF ExtractCalls, GraphInv, CallerOf
<1>2. ASSUME NEW d \in DocumentsOf, NEW c \in d.calls
      PROVE  IsFiniteSet(To(d, c)) /\ \A e \in To(d, c) : e = <<e[1], e[2]>> /\ Len(e[1]) > 0 /\ Len(e[2]) > 0 /\ e[1] = d.module
  <2> DEFINE all == Candidates(d.module, c.raw)
             h == [q \in all |-> <<d.module, q>>]
  <2>1. d.module \in QualifiedNames /\ c.raw \in QualifiedNames /\ Len(d.module) > 0
    BY DocumentsAre, NamesAre DEF GraphInv
  <2>2. IsFiniteSet(all) /\ \A q \in all : Len(q) > 0
    BY <2>1, CandidatesAre
  <2>3. DOMAIN h = all /\ To(d, c) = {h[q] : q \in all}
    OBVIOUS
  <2>4. \A e \in To(d, c) : e = <<e[1], e[2]>> /\ Len(e[1]) > 0 /\ Len(e[2]) > 0 /\ e[1] = d.module
    BY <2>1, <2>2
  <2> HIDE DEF h, all, To
  <2> QED
    BY <2>2, <2>3, <2>4, FiniteImage
<1>3. ASSUME NEW d \in DocumentsOf PROVE IsFiniteSet(Of(d))
  <2> DEFINE h == [c \in d.calls |-> To(d, c)]
  <2>1. DOMAIN h = d.calls /\ Of(d) = UNION {h[c] : c \in d.calls} /\ \A c \in d.calls : IsFiniteSet(h[c])
    BY <1>2
  <2> HIDE DEF h, To, Of
  <2>2. IsFiniteSet(d.calls)
    BY DocumentsAre DEF GraphInv
  <2>3. IsFiniteSet({h[c] : c \in d.calls})
    BY <2>1, <2>2, FiniteImage
  <2>4. IsFiniteSet(UNION {h[c] : c \in d.calls})
    BY <2>1, <2>3, FS_UNION
  <2> QED
    BY <2>1, <2>4
<1>4. ASSUME NEW e \in callEdges'
      PROVE  /\ e = <<e[1], e[2]>> /\ Len(e[1]) > 0 /\ Len(e[2]) > 0
             /\ \E d \in DocumentsOf : e[1] = d.module /\ d.calls # {}
  <2>1. PICK d \in DocumentsOf : e \in Of(d)
    BY <1>1
  <2>2. PICK c \in d.calls : e \in To(d, c)
    BY <2>1
  <2> HIDE DEF To, Of
  <2> QED
    BY <2>2, <1>2
<1>5. DOMAIN from = DocumentsOf /\ callEdges' = UNION {from[d] : d \in DocumentsOf} /\ \A d \in DocumentsOf : IsFiniteSet(from[d])
  BY <1>1, <1>3
<1> HIDE DEF from, Of, To
<1>6. IsFiniteSet({from[d] : d \in DocumentsOf})
  BY <1>5, DocumentsAre, FiniteImage DEF GraphInv
<1>7. IsFiniteSet(UNION {from[d] : d \in DocumentsOf})
  BY <1>5, <1>6, FS_UNION
<1> QED
  BY <1>4, <1>5, <1>7

-----------------------------------------------------------------------------
(* Every step of the call graph keeps what is known of it.                  *)

LEMMA GraphBegins ==
  ASSUME GraphInit
  PROVE  GraphInv
BY FS_EmptySet DEF GraphInit, GraphInv, CallsBefore, NamesFit, EdgesNamed

LEMMA DynamicAdded ==
  ASSUME GraphInv, AddDynamic
  PROVE  GraphInv'
<1>1. NamesFit'
  BY DEF GraphInv, NamesFit, AddDynamic
<1>2. EdgesNamed'
  <2>1. ASSUME NEW e \in callEdges' \ callEdges PROVE e = <<e[1], e[2]>> /\ Len(e[1]) > 0 /\ Len(e[2]) > 0
    <3>1. PICK d \in Dynamic : e = <<<<d[1]>>, d[2]>>
      BY <2>1 DEF AddDynamic
    <3>2. d[2] \in QualifiedNames
      BY CallGraphsAssumption
    <3> QED
      BY <3>1, <3>2, NamesAre
  <2> QED
    BY <2>1 DEF GraphInv, EdgesNamed
<1> QED
  BY <1>1, <1>2 DEF GraphInv, AddDynamic, CallsBefore

LEMMA SymbolsKeep ==
  ASSUME GraphInv, IndexSymbols
  PROVE  GraphInv'
<1>1. NamesFit'
  BY SymbolsIndexed DEF NamesFit, IndexSymbols
<1> QED
  BY <1>1 DEF GraphInv, IndexSymbols, CallsBefore, EdgesNamed

LEMMA ImportsKeep ==
  ASSUME GraphInv, ResolveImports
  PROVE  GraphInv'
<1>1. NamesFit'
  BY ImportsResolved DEF GraphInv, NamesFit, ResolveImports
<1> QED
  BY <1>1 DEF GraphInv, ResolveImports, CallsBefore, EdgesNamed

LEMMA NothingSearched ==
  ASSUME NEW V, NEW g
  PROVE  SearchFits(V, g, NoSearch, {})
<1> DEFINE s == NoSearch
<1>1. /\ HasFields(s) /\ s.indices = << >> /\ s.low = << >> /\ s.left = << >> /\ s.stack = << >> /\ s.open = << >>
  BY DEF HasFields, NoSearch
<1> HIDE DEF s
<1>2. Range(s.stack) = {} /\ Range(s.open) = {} /\ DOMAIN s.indices = {} /\ DOMAIN s.low = {} /\ DOMAIN s.left = {}
  BY <1>1 DEF Range
<1>3. StackInOrder(V, s.stack, s.indices) /\ StackInOrder(V, s.open, s.indices)
  BY <1>1, <1>2, EmptySeq DEF StackInOrder, Rising
<1>f. s.indices \in [DOMAIN s.indices -> Nat] /\ s.low \in [DOMAIN s.indices -> Nat]
  <2>1. << >> \in Seq(Nat) /\ Len(<< >>) = 0
    BY EmptySeq
  <2>2. << >> \in [1..0 -> Nat] /\ DOMAIN << >> = 1..0
    BY <2>1, LenProperties
  <2> QED
    BY <2>2, <1>1
<1>4. Numbered(V, s.indices)
  BY <1>2, <1>f DEF Numbered
<1>5. Met(g, s.indices, s.left, Range(s.open)) /\ Stacked(g, s.indices, Range(s.stack), Range(s.open))
  BY <1>2 DEF Met, Stacked
<1>6. LowsFit(g, s.indices, s.low, s.left, Range(s.stack), Range(s.open))
  BY <1>2, <1>f DEF LowsFit
<1>7. CyclesOf(V, g, DOMAIN s.indices \ Range(s.stack)) = {}
  BY <1>2 DEF CyclesOf
<1> QED
  BY <1>1, <1>3, <1>4, <1>5, <1>6, <1>7 DEF SearchFits, Searching, s

LEMMA CallsKeep ==
  ASSUME GraphInv, ExtractCalls
  PROVE  GraphInv'
<1>1. NamesFit'
  BY DEF GraphInv, NamesFit, ExtractCalls
<1>2. EdgesNamed'
  BY CallsExtracted DEF EdgesNamed
<1>3. EdgesExtracted'
  <2>1. DocumentsOf' = DocumentsOf
    BY DEF ExtractCalls, DocumentsOf
  <2> QED
    BY <2>1, CallsExtracted DEF EdgesExtracted
<1>4. SearchFits(CallNodes, callEdges, search, sccs)'
  <2>1. search' = NoSearch /\ sccs' = {}
    BY DEF GraphInv, ExtractCalls, CallsBefore
  <2>2. SearchFits(CallNodes', callEdges', NoSearch, {})
    BY NothingSearched
  <2> QED
    BY <2>1, <2>2
<1> QED
  BY <1>1, <1>2, <1>3, <1>4 DEF GraphInv, ExtractCalls, CallsBefore

LEMMA InSearch ==
  ASSUME GraphInv, callStage = "sccs"
  PROVE  /\ EdgesFit(CallNodes, callEdges) /\ SearchFits(CallNodes, callEdges, search, sccs)
         /\ \A q : CalleesIn(callEdges, q, Callees(q))
<1>1. EdgesArePairs /\ EdgesExtracted /\ SearchFits(CallNodes, callEdges, search, sccs)
  BY DEF GraphInv, EdgesNamed, EdgesArePairs, CallsBefore
<1>2. IsFiniteSet(callEdges)
  BY <1>1 DEF EdgesExtracted
<1> QED
  BY <1>1, <1>2, NodesAre DEF EdgesFit, CalleesIn

LEMMA SearchKeeps ==
  ASSUME GraphInv, callStage = "sccs", UNCHANGED <<project, callStage, symbols, aliases, callEdges>>,
         SearchFits(CallNodes, callEdges, search', sccs')
  PROVE  GraphInv'
<1>1. DocumentsOf' = DocumentsOf /\ CallNodes' = CallNodes
  BY DEF DocumentsOf, CallNodes
<1>2. NamesFit' /\ EdgesNamed' /\ EdgesExtracted'
  BY <1>1 DEF GraphInv, NamesFit, EdgesNamed, EdgesExtracted, CallsBefore
<1>3. SearchFits(CallNodes, callEdges, search, sccs)'
  BY <1>1
<1> QED
  BY <1>2, <1>3 DEF GraphInv, CallsBefore

LEMMA RootKeeps ==
  ASSUME GraphInv, NEW node \in CallNodes, OpenRoot(node)
  PROVE  GraphInv'
<1>1. /\ callStage = "sccs" /\ search.open = << >> /\ node \notin DOMAIN search.indices
      /\ search' = Opened(search, node) /\ sccs' = sccs
  BY DEF OpenRoot
<1>2. Turned(search.indices, search.left, Range(search.open), node, search.left)
  BY <1>1 DEF Turned, Range
<1>3. CalleesIn(callEdges, node, Callees(node))
  BY <1>1, InSearch
<1>4. search' = [indices |-> With(search.indices, node, Cardinality(DOMAIN search.indices)),
                 low |-> With(search.low, node, Cardinality(DOMAIN search.indices)),
                 left |-> With(search.left, node, Callees(node)),
                 stack |-> Append(search.stack, node), open |-> Append(search.open, node)]
  BY <1>1 DEF Opened
<1>5. SearchFits(CallNodes, callEdges, search', sccs)
  BY <1>1, <1>2, <1>3, <1>4, InSearch, NodeOpens
<1> QED
  BY <1>1, <1>5, SearchKeeps DEF OpenRoot

LEMMA PassedIs ==
  ASSUME HasFields(search), NEW node
  PROVE  /\ Passed(search, node).indices = search.indices /\ Passed(search, node).low = search.low
         /\ Passed(search, node).stack = search.stack /\ Passed(search, node).open = search.open
         /\ Passed(search, node).left = [search.left EXCEPT ![Last(search.open)] = @ \ {node}]
         /\ \A low : [Passed(search, node) EXCEPT !.low = low] =
                        [indices |-> search.indices, low |-> low, stack |-> search.stack, open |-> search.open,
                         left |-> [search.left EXCEPT ![Last(search.open)] = @ \ {node}]]
<1> DEFINE top == Last(search.open)
           left == [search.left EXCEPT ![top] = @ \ {node}]
           p == Passed(search, node)
<1>1. p = [indices |-> search.indices, low |-> search.low, stack |-> search.stack, open |-> search.open, left |-> left]
  BY DEF HasFields, Passed
<1> HIDE DEF left, p
<1>2. /\ p.indices = search.indices /\ p.low = search.low /\ p.stack = search.stack /\ p.open = search.open /\ p.left = left
      /\ \A low : [p EXCEPT !.low = low] = [indices |-> search.indices, low |-> low, stack |-> search.stack,
                                            open |-> search.open, left |-> left]
  BY <1>1
<1> QED
  BY <1>2 DEF left, p

LEMMA MeetingKeeps ==
  ASSUME GraphInv, NEW node \in CallNodes, MeetNeighbour(node)
  PROVE  GraphInv'
<1> DEFINE top == Last(search.open)
           p == Passed(search, node)
           mid == [search.left EXCEPT ![top] = @ \ {node}]
<1>1. /\ callStage = "sccs" /\ search.open # << >> /\ node \in search.left[top] /\ sccs' = sccs
      /\ UNCHANGED <<project, callStage, symbols, aliases, callEdges>>
  BY DEF MeetNeighbour
<1>2. search' = IF node \notin DOMAIN search.indices THEN Opened(p, node)
                ELSE [p EXCEPT !.low[top] = LowWith(search, top, node)]
  BY DEF MeetNeighbour
<1>3. /\ EdgesFit(CallNodes, callEdges) /\ SearchFits(CallNodes, callEdges, search, sccs)
      /\ CalleesIn(callEdges, node, Callees(node)) /\ HasFields(search)
  BY <1>1, InSearch DEF SearchFits
<1>4. /\ p.indices = search.indices /\ p.low = search.low /\ p.stack = search.stack /\ p.open = search.open /\ p.left = mid
      /\ \A low : [p EXCEPT !.low = low] =
                     [indices |-> search.indices, low |-> low, stack |-> search.stack, open |-> search.open, left |-> mid]
  BY <1>3, PassedIs
<1>5. CASE node \notin DOMAIN search.indices
  <2>1. search' = [indices |-> With(search.indices, node, Cardinality(DOMAIN search.indices)),
                   low |-> With(search.low, node, Cardinality(DOMAIN search.indices)),
                   left |-> With(mid, node, Callees(node)),
                   stack |-> Append(search.stack, node), open |-> Append(search.open, node)]
    <3>1. search' = Opened(p, node)
      BY <1>2, <1>5
    <3> HIDE DEF p, mid
    <3> QED
      BY <3>1, <1>4 DEF Opened
  <2>2. TakenLast(search.indices, Range(search.open), top)
    BY <1>1, <1>3, LastOfRising DEF SearchFits, TakenLast
  <2>3. Turned(search.indices, search.left, Range(search.open), node, mid)
    BY <1>1, <2>2 DEF Turned
  <2> HIDE DEF mid, top, p
  <2>4. SearchFits(CallNodes, callEdges, search', sccs)
    BY <1>3, <1>5, <2>1, <2>3, NodeOpens
  <2> QED
    BY <1>1, <2>4, SearchKeeps
<1>6. CASE node \in DOMAIN search.indices
  <2> DEFINE value == IF node \in ToSet(search.stack) THEN Least(search.low[top], search.indices[node]) ELSE search.low[top]
             low2 == [search.low EXCEPT ![top] = value]
  <2>1. LowWith(search, top, node) = value
    BY DEF LowWith
  <2>2. search' = [p EXCEPT !.low = low2]
    <3>1. search' = [p EXCEPT !.low[top] = value]
      BY <1>2, <1>6, <2>1
    <3>2. [p EXCEPT !.low[top] = value] = [p EXCEPT !.low = [p.low EXCEPT ![top] = value]]
      <4> HIDE DEF p, value, top
      <4> QED
        OBVIOUS
    <3> QED
      BY <3>1, <3>2, <1>4
  <2>3. search' = [indices |-> search.indices, low |-> low2, stack |-> search.stack, open |-> search.open, left |-> mid]
    BY <2>2, <1>4
  <2>4. search' = [indices |-> search.indices, stack |-> search.stack, open |-> search.open, low |-> low2, left |-> mid]
    <3> HIDE DEF low2, mid
    <3> QED
      BY <2>3
  <2> HIDE DEF p
  <2>5. SearchFits(CallNodes, callEdges, search', sccs)
    BY <1>1, <1>3, <1>6, <2>4, NodeMet
  <2> QED
    BY <1>1, <2>5, SearchKeeps
<1> QED
  BY <1>5, <1>6

LEMMA ClosingKeeps ==
  ASSUME GraphInv, CloseNode
  PROVE  GraphInv'
<1> DEFINE top == Last(search.open)
           outer == Front(search.open)
           depth == CHOOSE i \in DOMAIN search.stack : search.stack[i] = top
           root == search.low[top] = search.indices[top]
           scc == ToSet(SubSeq(search.stack, depth, Len(search.stack)))
           stack2 == IF root THEN SubSeq(search.stack, 1, depth - 1) ELSE search.stack
           low2 == IF outer = << >> THEN search.low
                   ELSE [search.low EXCEPT ![Last(outer)] = Least(@, search.low[top])]
<1>1. /\ callStage = "sccs" /\ search.open # << >> /\ search.left[top] = {}
      /\ UNCHANGED <<project, callStage, symbols, aliases, callEdges>>
      /\ sccs' = IF root /\ (Cardinality(scc) > 1 \/ top \in Callees(top)) THEN sccs \cup {scc} ELSE sccs
  BY DEF CloseNode
<1>2. search' = [search EXCEPT !.open = outer, !.stack = stack2, !.low = low2]
  BY DEF CloseNode
<1>3. /\ EdgesFit(CallNodes, callEdges) /\ SearchFits(CallNodes, callEdges, search, sccs)
      /\ CalleesIn(callEdges, top, Callees(top)) /\ HasFields(search)
  BY <1>1, InSearch DEF SearchFits
<1>4. depth \in DOMAIN search.stack /\ search.stack[depth] = top
  <2>1. top \in Range(search.open)
    BY <1>1, <1>3, LastOfRising DEF SearchFits
  <2>2. Range(search.open) \subseteq Range(search.stack)
    BY <1>3 DEF SearchFits, Searching, Stacked
  <2>3. \E i \in DOMAIN search.stack : search.stack[i] = top
    BY <2>1, <2>2 DEF Range
  <2> HIDE DEF top
  <2> QED
    BY <2>3
<1>5. /\ search'.indices = search.indices /\ search'.left = search.left /\ search'.open = outer
      /\ search'.stack = stack2 /\ search'.low = low2 /\ HasFields(search')
  <2> HIDE DEF outer, stack2, low2
  <2>1. search' = [indices |-> search.indices, low |-> low2, stack |-> stack2, open |-> outer, left |-> search.left]
    BY <1>2, <1>3 DEF HasFields
  <2> QED
    BY <2>1 DEF HasFields
<1>6. top \in Callees(top) <=> <<top, top>> \in callEdges
  BY <1>3 DEF CalleesIn
<1>7. PICK s2 : s2 = search'
  OBVIOUS
<1>8. PICK found2 : found2 = sccs'
  OBVIOUS
<1>9. /\ s2.indices = search.indices /\ s2.left = search.left /\ s2.open = outer
      /\ s2.stack = stack2 /\ s2.low = low2 /\ HasFields(s2)
  BY <1>5, <1>7
<1>10. found2 = IF root /\ (Cardinality(scc) > 1 \/ <<top, top>> \in callEdges) THEN sccs \cup {scc} ELSE sccs
  BY <1>1, <1>6, <1>8
<1> HIDE DEF depth
<1>11. SearchFits(CallNodes, callEdges, s2, found2)
  BY <1>1, <1>3, <1>4, <1>9, <1>10, NodeCloses
<1> QED
  BY <1>1, <1>7, <1>8, <1>11, SearchKeeps

LEMMA GraphKeeps ==
  ASSUME GraphInv, [GraphNext]_graphVars
  PROVE  GraphInv'
<1>1. CASE Searched
  <2>1. DocumentsOf' = DocumentsOf /\ CallNodes' = CallNodes
    BY <1>1 DEF DocumentsOf, CallNodes, Searched
  <2>2. NamesFit' /\ EdgesNamed' /\ EdgesExtracted'
    BY <1>1, <2>1 DEF GraphInv, NamesFit, EdgesNamed, EdgesExtracted, CallsBefore, Searched
  <2>3. SearchFits(CallNodes, callEdges, search, sccs)'
    BY <1>1, <2>1 DEF GraphInv, CallsBefore, Searched
  <2> QED
    BY <1>1, <2>1, <2>2, <2>3 DEF GraphInv, CallsBefore, Searched
<1>2. CASE UNCHANGED graphVars
  <2>1. DocumentsOf' = DocumentsOf /\ CallNodes' = CallNodes
    BY <1>2 DEF DocumentsOf, CallNodes, graphVars
  <2>2. NamesFit' /\ EdgesNamed' /\ (EdgesExtracted' <=> EdgesExtracted)
    BY <1>2, <2>1 DEF GraphInv, NamesFit, EdgesNamed, EdgesExtracted, graphVars
  <2>3. SearchFits(CallNodes, callEdges, search, sccs)' <=> SearchFits(CallNodes, callEdges, search, sccs)
    BY <1>2, <2>1 DEF graphVars
  <2> QED
    BY <1>2, <2>1, <2>2, <2>3 DEF GraphInv, graphVars
<1> QED
  BY <1>1, <1>2, DynamicAdded, SymbolsKeep, ImportsKeep, CallsKeep, RootKeeps, MeetingKeeps, ClosingKeeps DEF GraphNext

-----------------------------------------------------------------------------
(* What is known of the call graph says that its answers are right.         *)

LEMMA GraphTyped ==
  ASSUME GraphInv
  PROVE  GraphTypeOK
<1>1. \A e \in callEdges : Len(e[1]) > 0 /\ Len(e[2]) > 0
  BY DEF GraphInv, EdgesNamed
<1>2. SearchFits(CallNodes, callEdges, search, sccs)
  BY NothingSearched DEF GraphInv
<1>3. /\ DOMAIN search.low = DOMAIN search.indices /\ DOMAIN search.left = DOMAIN search.indices
      /\ ToSet(search.stack) \subseteq DOMAIN search.indices
  BY <1>2 DEF SearchFits, Searching, Met, LowsFit, StackInOrder, ToSet, Range
<1>4. IsInjective(search.stack)
  <2> DEFINE q == search.stack
             w == search.indices
  <2>1. q \in Seq(CallNodes) /\ Rising(q, w) /\ \A x \in Range(q) : w[x] \in Nat
    BY <1>2 DEF SearchFits, StackInOrder
  <2> HIDE DEF q, w
  <2>2. DOMAIN q = 1..Len(q) /\ Len(q) \in Nat
    BY <2>1, LenProperties
  <2>3. ASSUME NEW i \in DOMAIN q, NEW j \in DOMAIN q, q[i] = q[j], i # j PROVE FALSE
    <3>1. w[q[i]] \in Nat /\ w[q[j]] \in Nat
      BY <2>1 DEF Range
    <3>2. w[q[i]] < w[q[j]] \/ w[q[j]] < w[q[i]]
      BY <2>1, <2>2, <2>3 DEF Rising
    <3> QED
      BY <3>1, <3>2, <2>3
  <2>4. IsInjective(q)
    BY <2>3 DEF IsInjective
  <2> QED
    BY <2>4 DEF q
<1> QED
  BY <1>1, <1>3, <1>4 DEF GraphInv, GraphTypeOK, CallsBefore

LEMMA CyclesFound ==
  ASSUME GraphInv
  PROVE  CyclesRight
<1> SUFFICES ASSUME callStage = "done"
             PROVE  sccs = {c \in {{r \in Closure(Callees(q)) : q \in Closure(Callees(r))} : q \in CallNodes} : c # {}}
  BY DEF CyclesRight
<1> DEFINE V == CallNodes
           g == callEdges
           K(q) == {r \in Beyond(V, g, q) : q \in Beyond(V, g, r)}
<1>1. /\ EdgesArePairs /\ IsFiniteSet(callEdges) /\ SearchFits(V, g, search, sccs)
      /\ search.open = << >> /\ V \subseteq DOMAIN search.indices
  BY DEF GraphInv, EdgesExtracted, EdgesNamed, EdgesArePairs, CallsBefore
<1>2. IsFiniteSet(V) /\ g \in SUBSET (V \X V)
  BY <1>1, NodesAre
<1>3. Range(search.open) = {}
  BY <1>1 DEF Range
<1>4. Range(search.stack) = {} /\ DOMAIN search.indices = V
  BY <1>1, <1>3 DEF SearchFits, Searching, Stacked, Numbered
<1>5. sccs = CyclesOf(V, g, V)
  BY <1>1, <1>4 DEF SearchFits, Searching
<1>6. CyclesOf(V, g, V) = {c \in {K(q) : q \in V} : c # {}}
  BY <1>2, CyclesAre
<1>7. \A q : Closure(Callees(q)) = Beyond(V, g, q)
  BY <1>1, <1>2, ClosureIs
<1>8. \A q : K(q) = {r \in Closure(Callees(q)) : q \in Closure(Callees(r))}
  BY <1>7
<1> QED
  BY <1>5, <1>6, <1>8

LEMMA WalkRests ==
  ASSUME NEW g, NEW s, NEW n \in Nat, NEW f, Walks(g, s, n, f), NoWayOut(g, s)
  PROVE  f[n] = s
<1> DEFINE G == {k \in 0..n : f[k] = s}
<1>1. \A k \in 0..n : f[k] = IF k = 0 THEN s ELSE f[k - 1] \cup NextTo(g, f[k - 1])
  BY DEF Walks
<1>2. 0 \in G
  <2>1. 0 \in 0..n
    OBVIOUS
  <2> QED
    BY <2>1, <1>1
<1>3. ASSUME NEW k \in 1..n, k - 1 \in G PROVE k \in G
  <2>1. k \in 0..n /\ k # 0
    OBVIOUS
  <2>2. f[k] = s \cup NextTo(g, s)
    BY <1>1, <1>3, <2>1
  <2>3. NextTo(g, s) \subseteq s
    BY DEF NextTo, NoWayOut
  <2> QED
    BY <2>1, <2>2, <2>3
<1> HIDE DEF G
<1>4. n \in G
  BY <1>2, <1>3, CountTo
<1> QED
  BY <1>4 DEF G

LEMMA NothingLeadsOn ==
  ASSUME GraphInv, callStage = "done", NEW q, q \notin Modules
  PROVE  Closure({q}) = {q}
<1>1. EdgesArePairs /\ IsFiniteSet(callEdges) /\ \A e \in callEdges : e[1] \in Modules
  BY DEF GraphInv, EdgesExtracted, EdgesNamed, EdgesArePairs, CallsBefore, Modules
<1>2. IsFiniteSet(CallNodes)
  BY <1>1, NodesAre
<1> DEFINE N == Cardinality(CallNodes)
<1>3. N \in Nat
  BY <1>2, FS_CardinalityType
<1>4. PICK f : Walks(callEdges, {q}, N, f) /\ Closure({q}) = f[N]
  BY <1>2, ClosureWalks
<1>5. NoWayOut(callEdges, {q})
  BY <1>1 DEF NoWayOut
<1> HIDE DEF N
<1> QED
  BY <1>3, <1>4, <1>5, WalkRests

LEMMA ReachIsExplained ==
  ASSUME GraphInv
  PROVE  ReachExplained
<1> SUFFICES ASSUME callStage = "done" PROVE ReachExplained
  BY DEF ReachExplained
<1>1. {d.module : d \in ToSet(DocumentsInOrder)} = Modules
  BY DocumentsAre DEF GraphInv, Modules
<1>2. ASSUME NEW e, NEW s, Reaches(e, s), e \notin Modules PROVE Names(e, s)
  <2>1. Closure({e}) = {e}
    BY <1>2, NothingLeadsOn
  <2> QED
    BY <1>2, <2>1 DEF Reaches
<1>3. ASSUME NEW d \in Dynamic, <<<<d[1]>>, d[2]>> \in callEdges PROVE FALSE
  <2>1. PICK document \in DocumentsOf : <<<<d[1]>>, d[2]>>[1] = document.module /\ document.calls # {}
    BY <1>3 DEF GraphInv, EdgesExtracted, CallsBefore
  <2>2. document.module = <<d[1]>>
    BY <2>1
  <2> QED
    BY <2>1, <2>2, DocumentsAre DEF GraphInv
<1> QED
  BY <1>1, <1>2, <1>3 DEF ReachExplained

-----------------------------------------------------------------------------
(* Whatever the documents call and in whatever order the sets are walked,   *)
(* the cycles that Tarjan's algorithm reports are the strongly connected    *)
(* components of the call edges, and an entry point that is said to reach a *)
(* sink names it itself, unless its name is also that of a module.          *)
THEOREM CallGraphAlwaysRight == GraphSpec => [](GraphTypeOK /\ CyclesRight /\ ReachExplained)
<1>1. GraphInit => GraphInv
  BY GraphBegins
<1>2. GraphInv /\ [GraphNext]_graphVars => GraphInv'
  BY GraphKeeps
<1>3. GraphInv => GraphTypeOK /\ CyclesRight /\ ReachExplained
  BY GraphTyped, CyclesFound, ReachIsExplained
<1> QED
  BY <1>1, <1>2, <1>3, PTL DEF GraphSpec

-----------------------------------------------------------------------------
(* Reading the lines of a file: what has been found after each.             *)

NothingRead == [found |-> << >>, current |-> << >>]
Reads(module, lines, N, h) ==
    h = [n \in 0..N |-> IF n = 0 THEN NothingRead ELSE ReadLine(module, h[n - 1], lines[n])]

LEMMA ReadsExist ==
  ASSUME NEW module, NEW lines, NEW n \in Nat
  PROVE  \E h : Reads(module, lines, n, h)
<1> DEFINE G == {m \in Nat : \E h : Reads(module, lines, m, h)}
<1>1. ASSUME NEW m \in Nat, \A k \in Nat : k < m => k \in G PROVE m \in G
  <2>1. CASE m = 0
    <3>1. Reads(module, lines, 0, [k \in 0..0 |-> NothingRead])
      BY DEF Reads
    <3> QED
      BY <2>1, <3>1
  <2>2. CASE m # 0
    <3>1. m - 1 \in Nat /\ m - 1 < m
      BY <2>2
    <3>2. PICK f : Reads(module, lines, m - 1, f)
      BY <1>1, <3>1
    <3> DEFINE h == [k \in 0..m |-> IF k < m THEN f[k] ELSE ReadLine(module, f[m - 1], lines[m])]
    <3>0. m \in 0..m /\ m > 0 /\ \A k \in 0..m : k \in Nat /\ (k < m => k \in 0..(m - 1)) /\ (k > 0 => k - 1 \in 0..(m - 1))
      BY <2>2
    <3>3. \A k \in 0..(m - 1) : f[k] = IF k = 0 THEN NothingRead ELSE ReadLine(module, f[k - 1], lines[k])
      BY <3>2 DEF Reads
    <3>4. ASSUME NEW k \in 0..m PROVE h[k] = IF k = 0 THEN NothingRead ELSE ReadLine(module, h[k - 1], lines[k])
      <4>1. CASE k < m
        <5>1. h[k] = f[k]
          BY <4>1
        <5>2. ASSUME k # 0 PROVE h[k - 1] = f[k - 1]
          <6>1. k - 1 \in 0..m /\ k - 1 < m
            BY <5>2, <4>1, <3>0
          <6> QED
            BY <6>1
        <5> QED
          BY <5>1, <5>2, <3>0, <3>3, <4>1
      <4>2. CASE k = m
        <5>1. m - 1 \in 0..m /\ m - 1 < m /\ ~(m < m)
          BY <3>0
        <5>2. h[m - 1] = f[m - 1] /\ h[m] = ReadLine(module, f[m - 1], lines[m])
          BY <5>1, <3>0
        <5> QED
          BY <4>2, <2>2, <5>2
      <4> QED
        BY <4>1, <4>2, <3>0
    <3>5. h = [k \in 0..m |-> h[k]]
      OBVIOUS
    <3> HIDE DEF h
    <3>6. Reads(module, lines, m, h)
      BY <3>4, <3>5 DEF Reads
    <3> QED
      BY <3>6
  <2> QED
    BY <2>1, <2>2
<1> HIDE DEF G
<1>2. \A m \in Nat : m \in G
  BY <1>1, CountUp
<1> QED
  BY <1>2 DEF G

(* What is found in the first n lines: the last definition of every name,   *)
(* with the calls between it and the definition that follows.               *)
DefAt(lines, n, k) == k \in 1..n /\ IsDef(lines[k])
LastOfName(lines, n, k) == DefAt(lines, n, k) /\ \A j \in (k + 1)..n : IsDef(lines[j]) => lines[j].def # lines[k].def
LinesAfter(lines, n, k) == {m \in (k + 1)..n : \A j \in (k + 1)..m : ~IsDef(lines[j])}
BodyTo(lines, n, k) == {lines[m].call : m \in LinesAfter(lines, n, k)}
FunctionIn(lines, n, k) == [endpoint |-> lines[k].endpoint, calls |-> BodyTo(lines, n, k)]
NameAt(module, lines, k) == <<module, lines[k].def>>
ReadFits(module, lines, n, r) ==
    /\ r = [found |-> r.found, current |-> r.current]
    /\ \A k : DefAt(lines, n, k) => NameAt(module, lines, k) \in DOMAIN r.found
    /\ \A q \in DOMAIN r.found : \E k : LastOfName(lines, n, k) /\ q = NameAt(module, lines, k)
    /\ \A k : LastOfName(lines, n, k) => r.found[NameAt(module, lines, k)] = FunctionIn(lines, n, k)
    /\ \/ r.current = << >> /\ \A k : ~DefAt(lines, n, k)
       \/ \E k : /\ DefAt(lines, n, k) /\ r.current = NameAt(module, lines, k)
                 /\ \A j \in (k + 1)..n : ~IsDef(lines[j])

LEMMA ReadsDefinition ==
  ASSUME NEW module, NEW lines, NEW n \in Nat, n # 0, NEW r, ReadFits(module, lines, n - 1, r), IsDef(lines[n])
  PROVE  ReadFits(module, lines, n, ReadLine(module, r, lines[n]))
<1> DEFINE name == NameAt(module, lines, n)
           new == Having(r.found, name, [endpoint |-> lines[n].endpoint, calls |-> {}])
           r2 == ReadLine(module, r, lines[n])
<1>1. r2 = [found |-> new, current |-> name]
  BY DEF ReadLine, NameAt
<1>2. /\ DOMAIN new = DOMAIN r.found \cup {name} /\ new[name] = [endpoint |-> lines[n].endpoint, calls |-> {}]
      /\ \A q \in DOMAIN r.found : q # name => new[q] = r.found[q]
  BY DEF Having
<1> HIDE DEF new, r2
<1>3. r2.found = new /\ r2.current = name /\ r2 = [found |-> r2.found, current |-> r2.current]
  BY <1>1
<1>4. DefAt(lines, n, n) /\ LastOfName(lines, n, n) /\ \A j \in (n + 1)..n : ~IsDef(lines[j])
  BY DEF DefAt, LastOfName
<1>5. \A k : DefAt(lines, n, k) <=> DefAt(lines, n - 1, k) \/ k = n
  BY DEF DefAt
<1>6. \A k : LastOfName(lines, n, k) /\ k # n <=> LastOfName(lines, n - 1, k) /\ lines[k].def # lines[n].def
  <2>1. \A k \in 1..(n - 1) : \A j : j \in (k + 1)..n <=> j \in (k + 1)..(n - 1) \/ j = n
    OBVIOUS
  <2> QED
    BY <2>1, <1>5 DEF LastOfName, DefAt
<1>7. BodyTo(lines, n, n) = {}
  BY DEF BodyTo, LinesAfter
<1>8. ASSUME NEW k, DefAt(lines, n - 1, k) PROVE BodyTo(lines, n, k) = BodyTo(lines, n - 1, k)
  <2>1. k \in 1..(n - 1)
    BY <1>8 DEF DefAt
  <2>2. n \notin LinesAfter(lines, n, k)
    BY <2>1 DEF LinesAfter
  <2>3. LinesAfter(lines, n, k) = LinesAfter(lines, n - 1, k)
    BY <2>1, <2>2 DEF LinesAfter
  <2> QED
    BY <2>3 DEF BodyTo
<1>9. \A k : NameAt(module, lines, k) = name <=> lines[k].def = lines[n].def
  BY DEF NameAt
<1>10. \A k : DefAt(lines, n, k) => NameAt(module, lines, k) \in DOMAIN new
  BY <1>2, <1>5 DEF ReadFits
<1>11. ASSUME NEW q \in DOMAIN new PROVE \E k : LastOfName(lines, n, k) /\ q = NameAt(module, lines, k)
  <2>1. CASE q = name
    BY <2>1, <1>4
  <2>2. CASE q # name
    <3>1. PICK k : LastOfName(lines, n - 1, k) /\ q = NameAt(module, lines, k)
      BY <2>2, <1>2 DEF ReadFits
    <3>2. lines[k].def # lines[n].def
      BY <3>1, <2>2, <1>9
    <3> QED
      BY <3>1, <3>2, <1>6
  <2> QED
    BY <2>1, <2>2
<1>12. ASSUME NEW k, LastOfName(lines, n, k) PROVE new[NameAt(module, lines, k)] = FunctionIn(lines, n, k)
  <2>1. CASE k = n
    BY <2>1, <1>2, <1>7 DEF FunctionIn
  <2>2. CASE k # n
    <3>1. LastOfName(lines, n - 1, k) /\ lines[k].def # lines[n].def
      BY <2>2, <1>6, <1>12
    <3>2. DefAt(lines, n - 1, k)
      BY <3>1 DEF LastOfName
    <3>3. r.found[NameAt(module, lines, k)] = FunctionIn(lines, n - 1, k) /\ NameAt(module, lines, k) \in DOMAIN r.found
      BY <3>1, <3>2 DEF ReadFits
    <3>4. NameAt(module, lines, k) # name
      BY <3>1, <1>9
    <3>5. FunctionIn(lines, n, k) = FunctionIn(lines, n - 1, k)
      BY <3>2, <1>8 DEF FunctionIn
    <3> QED
      BY <3>3, <3>4, <3>5, <1>2
  <2> QED
    BY <2>1, <2>2
<1>13. ReadFits(module, lines, n, r2)
  BY <1>3, <1>4, <1>10, <1>11, <1>12 DEF ReadFits
<1> QED
  BY <1>13 DEF r2

LEMMA LastIsOne ==
  ASSUME NEW lines, NEW n \in Nat, NEW j, NEW k, LastOfName(lines, n, j), LastOfName(lines, n, k), lines[j].def = lines[k].def
  PROVE  j = k
<1>1. j \in 1..n /\ k \in 1..n /\ IsDef(lines[j]) /\ IsDef(lines[k])
  BY DEF LastOfName, DefAt
<1>2. j \notin (k + 1)..n /\ k \notin (j + 1)..n
  BY <1>1 DEF LastOfName
<1> QED
  BY <1>1, <1>2

LEMMA ReadsCall ==
  ASSUME NEW module, NEW lines, NEW n \in Nat, n # 0, NEW r, ReadFits(module, lines, n - 1, r), ~IsDef(lines[n])
  PROVE  ReadFits(module, lines, n, ReadLine(module, r, lines[n]))
<1> DEFINE r2 == ReadLine(module, r, lines[n])
<1>1. \A k : DefAt(lines, n, k) <=> DefAt(lines, n - 1, k)
  BY DEF DefAt
<1>2. \A k : LastOfName(lines, n, k) <=> LastOfName(lines, n - 1, k)
  <2>1. \A k \in 1..(n - 1) : \A j : j \in (k + 1)..n <=> j \in (k + 1)..(n - 1) \/ j = n
    OBVIOUS
  <2> QED
    BY <2>1, <1>1 DEF LastOfName, DefAt
<1>3. CASE r.current = << >> /\ \A k : ~DefAt(lines, n - 1, k)
  <2>1. r2 = r
    BY <1>3 DEF ReadLine
  <2>2. \A k : ~LastOfName(lines, n, k) /\ ~LastOfName(lines, n - 1, k)
    BY <1>1, <1>3 DEF LastOfName
  <2> HIDE DEF r2
  <2>3. ReadFits(module, lines, n, r2)
    BY <1>1, <1>3, <2>1, <2>2 DEF ReadFits
  <2> QED
    BY <2>3 DEF r2
<1>4. CASE \E k : /\ DefAt(lines, n - 1, k) /\ r.current = NameAt(module, lines, k)
                  /\ \A j \in (k + 1)..(n - 1) : ~IsDef(lines[j])
  <2>1. PICK last : /\ DefAt(lines, n - 1, last) /\ r.current = NameAt(module, lines, last)
                    /\ \A j \in (last + 1)..(n - 1) : ~IsDef(lines[j])
    BY <1>4
  <2> DEFINE name == NameAt(module, lines, last)
             old == FunctionIn(lines, n - 1, last)
             function == [endpoint |-> lines[last].endpoint, calls |-> BodyTo(lines, n - 1, last) \cup {lines[n].call}]
             new == Having(r.found, name, function)
  <2>2. LastOfName(lines, n - 1, last)
    BY <2>1 DEF LastOfName
  <2>3. name \in DOMAIN r.found /\ r.found[name] = old
    BY <2>1, <2>2 DEF ReadFits
  <2>4. r2 = [found |-> new, current |-> name]
    <3>1. r.current # << >>
      BY <2>1 DEF NameAt
    <3>2. r2 = [r EXCEPT !.found = Having(r.found, name, [r.found[name] EXCEPT !.calls = @ \cup {lines[n].call}])]
      BY <3>1, <2>1 DEF ReadLine
    <3>3. [r.found[name] EXCEPT !.calls = @ \cup {lines[n].call}] = function
      <4> DEFINE before == BodyTo(lines, n - 1, last)
                 starts == lines[last].endpoint
      <4>1. r.found[name] = [endpoint |-> starts, calls |-> before]
        BY <2>3 DEF FunctionIn
      <4>2. function = [endpoint |-> starts, calls |-> before \cup {lines[n].call}]
        OBVIOUS
      <4> HIDE DEF before, starts, name, function
      <4> QED
        BY ONLY <4>1, <4>2
    <3>4. r2 = [r EXCEPT !.found = new]
      BY <3>2, <3>3
    <3>5. r = [found |-> r.found, current |-> name]
      BY <2>1 DEF ReadFits
    <3> HIDE DEF name, new, r2
    <3> QED
      BY ONLY <3>4, <3>5
  <2>5. /\ DOMAIN new = DOMAIN r.found /\ \A q \in DOMAIN r.found : q # name => new[q] = r.found[q]
        /\ new[name] = function
    BY <2>3 DEF Having
  <2>6. LinesAfter(lines, n, last) = LinesAfter(lines, n - 1, last) \cup {n}
    <3>1. last \in 1..(n - 1) /\ \A j \in (last + 1)..n : ~IsDef(lines[j])
      <4>1. \A j \in (last + 1)..n : j \in (last + 1)..(n - 1) \/ j = n
        BY <2>1 DEF DefAt
      <4> QED
        BY <2>1, <4>1 DEF DefAt
    <3> QED
      BY <3>1 DEF LinesAfter
  <2>7. new[name] = FunctionIn(lines, n, last)
    <3>1. BodyTo(lines, n, last) = BodyTo(lines, n - 1, last) \cup {lines[n].call}
      BY <2>6 DEF BodyTo
    <3> QED
      BY <2>5, <3>1 DEF FunctionIn
  <2>8. ASSUME NEW k, DefAt(lines, n - 1, k), k # last PROVE FunctionIn(lines, n, k) = FunctionIn(lines, n - 1, k)
    <3>1. k \in 1..(n - 1) /\ last \in (k + 1)..(n - 1) /\ IsDef(lines[last])
      BY <2>1, <2>8 DEF DefAt
    <3>2. n \notin LinesAfter(lines, n, k)
      BY <3>1 DEF LinesAfter
    <3>3. LinesAfter(lines, n, k) = LinesAfter(lines, n - 1, k)
      BY <3>1, <3>2 DEF LinesAfter
    <3> QED
      BY <3>3 DEF FunctionIn, BodyTo
  <2> HIDE DEF new, r2, old
  <2>9. r2.found = new /\ r2.current = name /\ r2 = [found |-> r2.found, current |-> r2.current]
    BY <2>4
  <2>10. /\ \A k : DefAt(lines, n, k) => NameAt(module, lines, k) \in DOMAIN new
         /\ \A q \in DOMAIN new : \E k : LastOfName(lines, n, k) /\ q = NameAt(module, lines, k)
    BY <1>1, <1>2, <2>5 DEF ReadFits
  <2>11. ASSUME NEW k, LastOfName(lines, n, k) PROVE new[NameAt(module, lines, k)] = FunctionIn(lines, n, k)
    <3>1. CASE k = last
      BY <3>1, <2>7
    <3>2. CASE k # last
      <4>1. LastOfName(lines, n - 1, k) /\ DefAt(lines, n - 1, k)
        BY <2>11, <1>2 DEF LastOfName
      <4>2. NameAt(module, lines, k) # name
        <5>1. n - 1 \in Nat
          OBVIOUS
        <5>2. lines[k].def # lines[last].def
          BY <3>2, <4>1, <2>2, <5>1, LastIsOne
        <5> QED
          BY <5>2 DEF NameAt
      <4>3. r.found[NameAt(module, lines, k)] = FunctionIn(lines, n - 1, k) /\ NameAt(module, lines, k) \in DOMAIN r.found
        BY <4>1 DEF ReadFits
      <4> QED
        BY <4>1, <4>2, <4>3, <3>2, <2>5, <2>8
    <3> QED
      BY <3>1, <3>2
  <2>12. \E k : DefAt(lines, n, k) /\ r2.current = NameAt(module, lines, k) /\ \A j \in (k + 1)..n : ~IsDef(lines[j])
    <3>1. \A j \in (last + 1)..n : j \in (last + 1)..(n - 1) \/ j = n
      BY <2>1 DEF DefAt
    <3> QED
      BY <3>1, <1>1, <2>1, <2>9
  <2>13. ReadFits(module, lines, n, r2)
    BY <2>9, <2>10, <2>11, <2>12 DEF ReadFits
  <2> QED
    BY <2>13 DEF r2
<1> QED
  BY <1>3, <1>4 DEF ReadFits

LEMMA FunctionsAre ==
  ASSUME NEW file, Len(texts[file]) \in Nat
  PROVE  \E r : FunctionsOf(file) = r.found /\ ReadFits(BaseNameOf[file], texts[file], Len(texts[file]), r)
<1> DEFINE N == Len(texts[file])
           lines == texts[file]
           module == BaseNameOf[file]
           h == CHOOSE h : Reads(module, lines, N, h)
           G == {n \in 0..N : ReadFits(module, lines, n, h[n])}
<1>1. FunctionsOf(file) = h[N].found
  BY DEF FunctionsOf, Reads, NothingRead
<1> HIDE DEF h, N, lines, module
<1>2. N \in Nat
  BY DEF N
<1>3. Reads(module, lines, N, h)
  BY <1>2, ReadsExist DEF h
<1>4. \A n \in 0..N : h[n] = IF n = 0 THEN NothingRead ELSE ReadLine(module, h[n - 1], lines[n])
  BY <1>3 DEF Reads
<1>5. 0 \in G
  <2>1. h[0] = NothingRead /\ 0 \in 0..N
    BY <1>2, <1>4
  <2>2. ReadFits(module, lines, 0, NothingRead)
    BY DEF ReadFits, NothingRead, DefAt, LastOfName
  <2> QED
    BY <2>1, <2>2
<1>6. ASSUME NEW n \in 1..N, n - 1 \in G PROVE n \in G
  <2>1. n \in Nat /\ n # 0 /\ n \in 0..N /\ h[n] = ReadLine(module, h[n - 1], lines[n])
    BY <1>2, <1>4
  <2>2. PICK r : r = h[n - 1]
    OBVIOUS
  <2>3. ReadFits(module, lines, n - 1, r) /\ h[n] = ReadLine(module, r, lines[n])
    BY <1>6, <2>1, <2>2
  <2> QED
    BY <2>1, <2>3, ReadsCall, ReadsDefinition
<1> HIDE DEF G
<1>7. N \in G
  BY <1>2, <1>5, <1>6, CountTo
<1> QED
  BY <1>1, <1>7 DEF G, N, lines, module

-----------------------------------------------------------------------------
(* Reading the files: a file takes the place of those of its base name.     *)

WalkedLast(w, f) ==
    \E n \in DOMAIN w : w[n] = f /\ \A m \in DOMAIN w : BaseNameOf[w[m]] = BaseNameOf[f] => m <= n
LastDef(d) == LastOfName(texts[d[1]], Len(texts[d[1]]), d[2])
FunctionOf(d) == [endpoint |-> texts[d[1]][d[2]].endpoint, calls |-> BodyOf(d)]
FilesFit(w, known) ==
    /\ \A q \in DOMAIN known : \E d \in Definitions : WalkedLast(w, d[1]) /\ LastDef(d) /\ q = QualifiedName(d)
    /\ \A d \in Definitions : WalkedLast(w, d[1]) /\ LastDef(d) =>
           QualifiedName(d) \in DOMAIN known /\ known[QualifiedName(d)] = FunctionOf(d)

LEMMA DefinitionsAre ==
  ASSUME texts \in SourceTexts
  PROVE  /\ \A f \in SourceFiles : DOMAIN texts[f] = 1..Len(texts[f]) /\ Len(texts[f]) \in Nat
         /\ \A f \in SourceFiles : \A k : DefAt(texts[f], Len(texts[f]), k) => <<f, k>> \in Definitions
         /\ \A d \in Definitions : /\ d = <<d[1], d[2]>> /\ d[1] \in SourceFiles
                                   /\ DefAt(texts[d[1]], Len(texts[d[1]]), d[2])
<1>1. ASSUME NEW f \in SourceFiles PROVE DOMAIN texts[f] = 1..Len(texts[f]) /\ Len(texts[f]) \in Nat
  <2>1. texts[f] \in Seq(Range(texts[f]))
    BY ProgramFlowsAssumption
  <2> QED
    BY <2>1, LenProperties
<1>2. ASSUME NEW f \in SourceFiles, NEW k, DefAt(texts[f], Len(texts[f]), k) PROVE <<f, k>> \in Definitions
  BY <1>1, <1>2 DEF DefAt, Definitions
<1>3. ASSUME NEW d \in Definitions
      PROVE  d = <<d[1], d[2]>> /\ d[1] \in SourceFiles /\ DefAt(texts[d[1]], Len(texts[d[1]]), d[2])
  <2>1. PICK f \in SourceFiles : d \in {<<f, n>> : n \in {n \in DOMAIN texts[f] : IsDef(texts[f][n])}}
    BY DEF Definitions
  <2>2. PICK n \in DOMAIN texts[f] : IsDef(texts[f][n]) /\ d = <<f, n>>
    BY <2>1
  <2> QED
    BY <2>2, <1>1 DEF DefAt
<1> QED
  BY <1>1, <1>2, <1>3

LEMMA BodiesAre ==
  ASSUME texts \in SourceTexts, NEW d \in Definitions
  PROVE  BodyOf(d) = BodyTo(texts[d[1]], Len(texts[d[1]]), d[2])
<1> DEFINE lines == texts[d[1]]
           N == Len(lines)
           after == {n \in DOMAIN lines : n > d[2] /\ ~IsDef(lines[n]) /\ \A k \in (d[2] + 1)..n : ~IsDef(lines[k])}
<1>1. DOMAIN lines = 1..N /\ N \in Nat /\ d[2] \in 1..N
  BY DefinitionsAre DEF DefAt
<1>2. BodyOf(d) = {lines[n].call : n \in after}
  BY DEF BodyOf
<1> HIDE DEF lines, N
<1>3. after = LinesAfter(lines, N, d[2])
  BY <1>1 DEF LinesAfter
<1> HIDE DEF after
<1>4. BodyOf(d) = BodyTo(lines, N, d[2])
  BY <1>2, <1>3 DEF BodyTo
<1> QED
  BY <1>4 DEF N, lines

LEMMA KeptMeans ==
  ASSUME texts \in SourceTexts, NEW d \in Definitions
  PROVE  Kept(d) <=> WalkedLast(walked, d[1]) /\ LastDef(d)
<1> DEFINE N == Len(texts[d[1]])
           Last2 == \A e \in Definitions : e[1] = d[1] /\ QualifiedName(e) = QualifiedName(d) => e[2] <= d[2]
<1>1. d = <<d[1], d[2]>> /\ d[1] \in SourceFiles /\ d[2] \in 1..N /\ N \in Nat /\ IsDef(texts[d[1]][d[2]])
  BY DefinitionsAre DEF DefAt
<1>2. ASSUME LastDef(d), NEW e \in Definitions, e[1] = d[1], QualifiedName(e) = QualifiedName(d) PROVE e[2] <= d[2]
  <2>1. e[2] \in 1..N /\ IsDef(texts[d[1]][e[2]]) /\ texts[d[1]][e[2]].def = texts[d[1]][d[2]].def
    BY <1>2, DefinitionsAre DEF DefAt, QualifiedName
  <2>2. e[2] \notin (d[2] + 1)..N
    BY <1>2, <2>1 DEF LastDef, LastOfName
  <2> QED
    BY <1>1, <2>1, <2>2
<1>3. ASSUME Last2 PROVE LastDef(d)
  <2>1. DefAt(texts[d[1]], N, d[2])
    BY DefinitionsAre
  <2>2. ASSUME NEW j \in (d[2] + 1)..N, IsDef(texts[d[1]][j]), texts[d[1]][j].def = texts[d[1]][d[2]].def PROVE FALSE
    <3>1. DefAt(texts[d[1]], N, j)
      BY <1>1, <2>2 DEF DefAt
    <3>2. <<d[1], j>> \in Definitions
      BY <1>1, <3>1, DefinitionsAre
    <3>3. QualifiedName(<<d[1], j>>) = QualifiedName(d)
      BY <2>2 DEF QualifiedName
    <3>4. j <= d[2]
      BY <1>3, <3>2, <3>3
    <3> QED
      BY <1>1, <3>4
  <2> QED
    BY <2>1, <2>2 DEF LastDef, LastOfName
<1>4. Kept(d) <=> WalkedLast(walked, d[1]) /\ Last2
  BY DEF Kept, WalkedLast
<1> QED
  BY <1>2, <1>3, <1>4

LEMMA WalkedOnceMore ==
  ASSUME NEW w \in Seq(SourceFiles), NEW f \in SourceFiles, f \notin Range(w), NEW x
  PROVE  WalkedLast(Append(w, f), x) <=> x = f \/ (BaseNameOf[x] # BaseNameOf[f] /\ WalkedLast(w, x))
<1> DEFINE a == Append(w, f)
           N == Len(w)
<1>1. /\ N \in Nat /\ DOMAIN w = 1..N /\ DOMAIN a = 1..(N + 1) /\ a[N + 1] = f /\ \A n \in 1..N : a[n] = w[n]
  BY AppendProperties, LenProperties
<1>2. \A n \in 1..(N + 1) : n \in 1..N \/ n = N + 1
  BY <1>1
<1> HIDE DEF a, N
<1>3. WalkedLast(a, f)
  <2>1. N + 1 \in 1..(N + 1) /\ \A m \in 1..(N + 1) : m <= N + 1
    BY <1>1
  <2> QED
    BY <2>1, <1>1 DEF WalkedLast
<1>4. ASSUME WalkedLast(a, x), x # f PROVE BaseNameOf[x] # BaseNameOf[f] /\ WalkedLast(w, x)
  <2>1. PICK n \in DOMAIN a : a[n] = x /\ \A m \in DOMAIN a : BaseNameOf[a[m]] = BaseNameOf[x] => m <= n
    BY <1>4 DEF WalkedLast
  <2>2. n \in 1..N
    BY <1>1, <1>2, <1>4, <2>1
  <2>3. BaseNameOf[x] # BaseNameOf[f]
    <3>1. N + 1 \in DOMAIN a /\ ~(N + 1 <= n)
      BY <1>1, <2>2
    <3> QED
      BY <3>1, <2>1, <1>1
  <2>4. \A m \in 1..N : m \in DOMAIN a
    BY <1>1
  <2> QED
    BY <1>1, <2>1, <2>2, <2>3, <2>4 DEF WalkedLast
<1>5. ASSUME BaseNameOf[x] # BaseNameOf[f], WalkedLast(w, x) PROVE WalkedLast(a, x)
  <2>1. PICK n \in DOMAIN w : w[n] = x /\ \A m \in DOMAIN w : BaseNameOf[w[m]] = BaseNameOf[x] => m <= n
    BY <1>5 DEF WalkedLast
  <2>2. n \in DOMAIN a /\ a[n] = x
    BY <1>1, <2>1
  <2>3. ASSUME NEW m \in DOMAIN a, BaseNameOf[a[m]] = BaseNameOf[x] PROVE m <= n
    <3>1. m # N + 1
      BY <2>3, <1>1, <1>5
    <3> QED
      BY <3>1, <2>1, <2>3, <1>1, <1>2
  <2> QED
    BY <2>2, <2>3 DEF WalkedLast
<1> QED
  BY <1>3, <1>4, <1>5 DEF a

LEMMA OneFileMore ==
  ASSUME texts \in SourceTexts, NEW w \in Seq(SourceFiles), NEW f \in SourceFiles, f \notin Range(w),
         NEW known, FilesFit(w, known), NEW new, new = Added(known, BaseNameOf[f], FunctionsOf(f))
  PROVE  FilesFit(Append(w, f), new)
<1> DEFINE N == Len(texts[f])
           w2 == Append(w, f)
           base == BaseNameOf[f]
<1>1. N \in Nat
  BY DefinitionsAre
<1>2. PICK r : FunctionsOf(f) = r.found /\ ReadFits(base, texts[f], N, r)
  BY <1>1, FunctionsAre
<1> DEFINE found == r.found
<1>3. /\ DOMAIN new = DOMAIN found \cup {p \in DOMAIN known : p[1] # base}
      /\ \A q \in DOMAIN new : new[q] = IF q \in DOMAIN found THEN found[q] ELSE known[q]
  BY <1>2 DEF Added
<1>4. \A x : WalkedLast(w2, x) <=> x = f \/ (BaseNameOf[x] # base /\ WalkedLast(w, x))
  BY WalkedOnceMore
<1>5. \A d : QualifiedName(d)[1] = BaseNameOf[d[1]] /\ QualifiedName(d) = NameAt(BaseNameOf[d[1]], texts[d[1]], d[2])
  BY DEF QualifiedName, NameAt
<1>6. \A q \in DOMAIN found : q[1] = base
  BY <1>2 DEF ReadFits, NameAt
<1> HIDE DEF w2
<1>7. ASSUME NEW d \in Definitions, WalkedLast(w2, d[1]), LastDef(d)
      PROVE  QualifiedName(d) \in DOMAIN new /\ new[QualifiedName(d)] = FunctionOf(d)
  <2> DEFINE q == QualifiedName(d)
  <2>1. CASE d[1] = f
    <3>1. LastOfName(texts[f], N, d[2]) /\ DefAt(texts[f], N, d[2])
      BY <1>7, <2>1 DEF LastDef, LastOfName
    <3>2. q = NameAt(base, texts[f], d[2])
      BY <1>5, <2>1
    <3>3. q \in DOMAIN found /\ found[q] = FunctionIn(texts[f], N, d[2])
      BY <1>2, <3>1, <3>2 DEF ReadFits
    <3>4. BodyOf(d) = BodyTo(texts[f], N, d[2])
      BY <2>1, BodiesAre
    <3>5. FunctionOf(d) = FunctionIn(texts[f], N, d[2])
      BY <2>1, <3>4 DEF FunctionOf, FunctionIn
    <3> QED
      BY <1>3, <3>3, <3>5
  <2>2. CASE d[1] # f
    <3>1. BaseNameOf[d[1]] # base /\ WalkedLast(w, d[1])
      BY <1>4, <1>7, <2>2
    <3>2. q \in DOMAIN known /\ known[q] = FunctionOf(d)
      BY <1>7, <3>1 DEF FilesFit
    <3>3. q[1] # base /\ q \notin DOMAIN found
      BY <1>5, <1>6, <3>1
    <3> QED
      BY <1>3, <3>2, <3>3
  <2> QED
    BY <2>1, <2>2
<1>8. ASSUME NEW q \in DOMAIN new
      PROVE  \E d \in Definitions : WalkedLast(w2, d[1]) /\ LastDef(d) /\ q = QualifiedName(d)
  <2>1. CASE q \in DOMAIN found
    <3>1. PICK k : LastOfName(texts[f], N, k) /\ q = NameAt(base, texts[f], k)
      BY <1>2, <2>1 DEF ReadFits
    <3>2. DefAt(texts[f], N, k)
      BY <3>1 DEF LastOfName
    <3>3. <<f, k>> \in Definitions
      BY <3>2, DefinitionsAre
    <3>4. LastDef(<<f, k>>) /\ q = QualifiedName(<<f, k>>) /\ WalkedLast(w2, <<f, k>>[1])
      BY <3>1, <1>4, <1>5 DEF LastDef
    <3> QED
      BY <3>3, <3>4
  <2>2. CASE q \in DOMAIN known /\ q[1] # base
    <3>1. PICK d \in Definitions : WalkedLast(w, d[1]) /\ LastDef(d) /\ q = QualifiedName(d)
      BY <2>2 DEF FilesFit
    <3>2. WalkedLast(w2, d[1])
      BY <3>1, <2>2, <1>4, <1>5
    <3> QED
      BY <3>1, <3>2
  <2> QED
    BY <1>3, <2>1, <2>2
<1> QED
  BY <1>7, <1>8 DEF FilesFit, w2

-----------------------------------------------------------------------------
(* Ways through the calls that close no cycle, of at most m steps.          *)

CallWay(V, g, m, w) ==
    /\ w \in Seq(V) /\ w # << >> /\ Len(w) <= m + 1 /\ IsInjective(w)
    /\ \A i \in 1..(Len(w) - 1) : <<w[i], w[i + 1]>> \in g

LEMMA WayHas ==
  ASSUME NEW V, NEW g, NEW m \in Nat, NEW w, CallWay(V, g, m, w)
  PROVE  /\ Len(w) \in Nat /\ Len(w) > 0 /\ DOMAIN w = 1..Len(w) /\ \A i \in 1..Len(w) : w[i] \in V
         /\ Last(w) = w[Len(w)] /\ Last(w) \in V /\ w[1] \in V
<1>1. w \in Seq(V) /\ w # << >>
  BY DEF CallWay
<1>2. Len(w) \in Nat /\ Len(w) > 0 /\ DOMAIN w = 1..Len(w) /\ \A i \in 1..Len(w) : w[i] \in V
  BY <1>1, LenProperties, ElementOfSeq, EmptySeq
<1> QED
  BY <1>1, <1>2 DEF Last

LEMMA WayBegins ==
  ASSUME NEW V, NEW g, NEW m \in Nat, NEW q \in V
  PROVE  CallWay(V, g, m, <<q>>) /\ <<q>>[1] = q /\ Last(<<q>>) = q
<1>1. <<q>> \in Seq(V) /\ Len(<<q>>) = 1 /\ <<q>>[1] = q /\ <<q>> # << >> /\ DOMAIN <<q>> = {1}
  OBVIOUS
<1> QED
  BY <1>1 DEF CallWay, IsInjective, Last

LEMMA WayGoesOn ==
  ASSUME NEW V, NEW g, NEW m \in Nat, NEW w, CallWay(V, g, m, w), Len(w) <= m,
         NEW r \in V, <<Last(w), r>> \in g, r \notin Range(w)
  PROVE  /\ CallWay(V, g, m, Append(w, r)) /\ Append(w, r)[1] = w[1] /\ Last(Append(w, r)) = r
         /\ Len(Append(w, r)) = Len(w) + 1
<1> DEFINE N == Len(w)
           a == Append(w, r)
<1>1. N \in Nat /\ N > 0 /\ DOMAIN w = 1..N /\ w \in Seq(V) /\ <<w[N], r>> \in g
  BY WayHas DEF CallWay
<1>2. a \in Seq(V) /\ a # << >> /\ Len(a) = N + 1 /\ a[N + 1] = r /\ \A i \in 1..N : a[i] = w[i]
  BY <1>1, AppendProperties
<1>3. DOMAIN a = 1..(N + 1)
  BY <1>2, LenProperties
<1> HIDE DEF a
<1>4. ASSUME NEW i \in 1..(N + 1), NEW j \in 1..(N + 1), a[i] = a[j] PROVE i = j
  <2>1. \A k \in 1..N : a[k] \in Range(w)
    BY <1>1, <1>2 DEF Range
  <2>2. (i \in 1..N \/ i = N + 1) /\ (j \in 1..N \/ j = N + 1)
    BY <1>1
  <2>3. \A k, l \in 1..N : a[k] = a[l] => k = l
    BY <1>1, <1>2 DEF CallWay, IsInjective
  <2> QED
    BY <2>1, <2>2, <2>3, <1>2, <1>4
<1>5. IsInjective(a)
  BY <1>3, <1>4 DEF IsInjective
<1>6. ASSUME NEW i \in 1..N PROVE <<a[i], a[i + 1]>> \in g
  <2>1. CASE i = N
    BY <2>1, <1>1, <1>2
  <2>2. CASE i # N
    <3>1. N \in Nat
      BY <1>1
    <3>2. \A n \in Nat : \A k \in 1..n : k # n => k \in 1..(n - 1) /\ k + 1 \in 1..n
      OBVIOUS
    <3>3. i \in 1..(N - 1) /\ i + 1 \in 1..N
      BY <2>2, <3>1, <3>2
    <3> QED
      BY <3>3, <1>2 DEF CallWay
  <2> QED
    BY <2>1, <2>2
<1>7. Last(a) = r /\ a[1] = w[1]
  BY <1>1, <1>2 DEF Last
<1>8. CallWay(V, g, m, a)
  BY <1>1, <1>2, <1>5, <1>6 DEF CallWay
<1> QED
  BY <1>2, <1>7, <1>8 DEF a

LEMMA WayEndsEarlier ==
  ASSUME NEW V, NEW g, NEW m \in Nat, NEW w, CallWay(V, g, m, w), NEW n \in 1..Len(w)
  PROVE  /\ CallWay(V, g, m, SubSeq(w, 1, n)) /\ SubSeq(w, 1, n)[1] = w[1] /\ Last(SubSeq(w, 1, n)) = w[n]
         /\ Len(SubSeq(w, 1, n)) = n
<1> DEFINE N == Len(w)
           p == SubSeq(w, 1, n)
<1>1. N \in Nat /\ N > 0 /\ DOMAIN w = 1..N /\ w \in Seq(V) /\ n \in 1..N /\ n \in Nat /\ n > 0
  BY WayHas DEF CallWay
<1>2. p \in Seq(V) /\ Len(p) = n /\ \A i \in 1..n : p[i] = w[i]
  BY <1>1, SubSeqProperties
<1>3. IsInjective(p)
  BY <1>1, TheFirstOnes DEF CallWay
<1> HIDE DEF p
<1>4. p # << >> /\ p[1] = w[1] /\ Last(p) = w[n]
  BY <1>1, <1>2, EmptySeq DEF Last
<1>5. \A i \in 1..(n - 1) : <<p[i], p[i + 1]>> \in g
  <2>1. \A i \in 1..(n - 1) : i \in 1..(N - 1) /\ i \in 1..n /\ i + 1 \in 1..n
    BY <1>1
  <2> QED
    BY <2>1, <1>2 DEF CallWay
<1>6. n <= m + 1
  BY <1>1 DEF CallWay
<1> QED
  BY <1>2, <1>3, <1>4, <1>5, <1>6 DEF CallWay, p

LEMMA WalkGrows ==
  ASSUME NEW g, NEW s, NEW n \in Nat, NEW f, Walks(g, s, n, f), NEW m \in 0..n
  PROVE  f[m] \subseteq f[n]
<1> DEFINE G == {k \in 0..n : m <= k => f[m] \subseteq f[k]}
<1>1. \A k \in 0..n : f[k] = IF k = 0 THEN s ELSE f[k - 1] \cup NextTo(g, f[k - 1])
  BY DEF Walks
<1>2. 0 \in G
  OBVIOUS
<1>3. ASSUME NEW k \in 1..n, k - 1 \in G PROVE k \in G
  <2>0. k \in 0..n /\ k # 0
    OBVIOUS
  <2>1. f[k - 1] \subseteq f[k]
    BY <1>1, <2>0
  <2>2. m <= k => m <= k - 1 \/ m = k
    OBVIOUS
  <2> QED
    BY <2>0, <2>1, <2>2, <1>3
<1> HIDE DEF G
<1>4. n \in G
  BY <1>2, <1>3, CountTo
<1> QED
  BY <1>4 DEF G

(* A walk over the definitions comes to just those that a way over their    *)
(* names leads to.                                                          *)
NamesOneEach(D, L, V, g, N) ==
    /\ L \in SUBSET (D \X D) /\ g \in SUBSET (V \X V) /\ N \in [D -> V]
    /\ \A d, e \in D : N[d] = N[e] => d = e
    /\ \A q \in V : \E d \in D : N[d] = q
    /\ \A d, e \in D : <<d, e>> \in L <=> <<N[d], N[e]>> \in g
Comes(V, g, m, q, r) == \E w : CallWay(V, g, m, w) /\ w[1] = q /\ Last(w) = r

LEMMA WaysGiven ==
  ASSUME NEW D, NEW L, NEW V, NEW g, NEW N, NamesOneEach(D, L, V, g, N), NEW M \in Nat, NEW d \in D,
         NEW f, Walks(L, {d}, M, f)
  PROVE  \A e \in f[M] : e \in D /\ Comes(V, g, M, N[d], N[e])
<1> DEFINE G == {k \in 0..M : \A e \in f[k] : e \in D /\ Comes(V, g, k, N[d], N[e])}
<1>1. \A k \in 0..M : f[k] = IF k = 0 THEN {d} ELSE f[k - 1] \cup NextTo(L, f[k - 1])
  BY DEF Walks
<1>2. 0 \in G
  <2>0. 0 \in 0..M
    OBVIOUS
  <2>1. f[0] = {d} /\ N[d] \in V
    <3>1. f[0] = {d}
      BY <1>1, <2>0
    <3>2. N[d] \in V
      BY DEF NamesOneEach
    <3> QED
      BY <3>1, <3>2
  <2>2. Comes(V, g, 0, N[d], N[d])
    BY <2>1, WayBegins DEF Comes
  <2> QED
    BY <2>0, <2>1, <2>2
<1>3. ASSUME NEW k \in 1..M, k - 1 \in G PROVE k \in G
  <2>1. k \in 0..M /\ k # 0 /\ k \in Nat /\ k - 1 \in Nat
    OBVIOUS
  <2>2. ASSUME NEW w, CallWay(V, g, k - 1, w) PROVE CallWay(V, g, k, w) /\ Len(w) <= k
    BY <2>1, <2>2, WayHas DEF CallWay
  <2>3. ASSUME NEW e \in f[k - 1] PROVE e \in D /\ Comes(V, g, k, N[d], N[e])
    BY <1>3, <2>2 DEF Comes
  <2>4. ASSUME NEW e \in NextTo(L, f[k - 1]) PROVE e \in D /\ Comes(V, g, k, N[d], N[e])
    <3>1. PICK l \in L : l[1] \in f[k - 1] /\ l[2] = e
      BY DEF NextTo
    <3>2. l = <<l[1], e>> /\ l[1] \in D /\ e \in D
      BY <3>1 DEF NamesOneEach
    <3>3. PICK w : CallWay(V, g, k - 1, w) /\ w[1] = N[d] /\ Last(w) = N[l[1]]
      BY <1>3, <3>1 DEF Comes
    <3>4. CallWay(V, g, k, w) /\ Len(w) <= k
      BY <2>2, <3>3
    <3>5. <<Last(w), N[e]>> \in g /\ N[e] \in V
      BY <3>1, <3>2, <3>3 DEF NamesOneEach
    <3>6. CASE N[e] \notin Range(w)
      <4>1. PICK r : r = N[e]
        OBVIOUS
      <4>2. r \in V /\ <<Last(w), r>> \in g /\ r \notin Range(w)
        BY <3>5, <3>6, <4>1
      <4>3. CallWay(V, g, k, Append(w, r)) /\ Append(w, r)[1] = w[1] /\ Last(Append(w, r)) = r
        BY <2>1, <3>4, <4>2, WayGoesOn
      <4> QED
        BY <3>2, <3>3, <4>1, <4>3 DEF Comes
    <3>7. CASE N[e] \in Range(w)
      <4>1. PICK n \in 1..Len(w) : w[n] = N[e]
        BY <2>1, <3>4, <3>7, WayHas DEF Range
      <4>2. CallWay(V, g, k, SubSeq(w, 1, n)) /\ SubSeq(w, 1, n)[1] = w[1] /\ Last(SubSeq(w, 1, n)) = w[n]
        BY <2>1, <3>4, WayEndsEarlier
      <4> QED
        BY <3>2, <3>3, <4>1, <4>2 DEF Comes
    <3> QED
      BY <3>6, <3>7
  <2>5. f[k] = f[k - 1] \cup NextTo(L, f[k - 1])
    BY <1>1, <2>1
  <2> QED
    BY <2>1, <2>3, <2>4, <2>5
<1> HIDE DEF G
<1>4. M \in G
  BY <1>2, <1>3, CountTo
<1> QED
  BY <1>4 DEF G

LEMMA WaysTaken ==
  ASSUME NEW D, NEW L, NEW V, NEW g, NEW N, NamesOneEach(D, L, V, g, N), NEW M \in Nat, NEW d \in D,
         NEW f, Walks(L, {d}, M, f), NEW e \in D, Comes(V, g, M, N[d], N[e])
  PROVE  e \in f[M]
<1>1. PICK w : CallWay(V, g, M, w) /\ w[1] = N[d] /\ Last(w) = N[e]
  BY DEF Comes
<1> DEFINE K == Len(w) - 1
           G == {k \in 0..K : \E x \in f[k] : x \in D /\ N[x] = w[k + 1]}
<1>2. /\ Len(w) \in Nat /\ Len(w) > 0 /\ Len(w) <= M + 1 /\ Last(w) = w[Len(w)]
      /\ \A i \in 1..Len(w) : w[i] \in V
  BY <1>1, WayHas DEF CallWay
<1>3. K \in Nat /\ K <= M /\ K + 1 = Len(w)
  BY <1>2
<1>4. \A i \in 1..K : <<w[i], w[i + 1]>> \in g
  BY <1>1 DEF CallWay
<1>5. \A k \in 0..M : f[k] = IF k = 0 THEN {d} ELSE f[k - 1] \cup NextTo(L, f[k - 1])
  BY DEF Walks
<1> HIDE DEF K
<1>6. 0 \in G
  <2>1. 0 \in 0..M /\ 0 \in 0..K /\ 0 + 1 = 1
    BY <1>3
  <2>2. f[0] = {d}
    BY <1>5, <2>1
  <2> QED
    BY <1>1, <2>1, <2>2
<1>7. ASSUME NEW k \in 1..K, k - 1 \in G PROVE k \in G
  <2>1. k \in 0..M /\ k # 0 /\ k \in 0..K /\ k - 1 + 1 = k /\ k + 1 \in 1..Len(w)
    BY <1>3
  <2>2. PICK x \in f[k - 1] : x \in D /\ N[x] = w[k]
    BY <1>7, <2>1
  <2>3. <<N[x], w[k + 1]>> \in g /\ w[k + 1] \in V
    BY <1>2, <1>4, <2>1, <2>2
  <2>4. PICK y \in D : N[y] = w[k + 1]
    BY <2>3 DEF NamesOneEach
  <2>5. <<x, y>> \in L
    BY <2>2, <2>3, <2>4 DEF NamesOneEach
  <2>6. y \in NextTo(L, f[k - 1])
    BY <2>2, <2>5 DEF NextTo
  <2>7. y \in f[k]
    BY <1>5, <2>1, <2>6
  <2> QED
    BY <2>1, <2>4, <2>7
<1> HIDE DEF G
<1>8. K \in G
  BY <1>3, <1>6, <1>7, CountTo
<1>9. PICK x \in f[K] : x \in D /\ N[x] = w[K + 1]
  BY <1>8 DEF G
<1>10. x = e
  BY <1>1, <1>2, <1>3, <1>9 DEF NamesOneEach
<1>11. K \in 0..M
  BY <1>3
<1> QED
  BY <1>9, <1>10, <1>11, WalkGrows

-----------------------------------------------------------------------------
(* The search: whatever is not told yet is told by a call that is pending.  *)

AskedFor(w, s, n) == [source |-> s, path |-> SubSeq(w, 1, n)]
SinksTold(snk, evid, w) == \A k \in snk[Last(w)] : \E v \in evid : v.path = w /\ v.sink = k
Waits(pend, w, s) == \E n \in 1..Len(w) : AskedFor(w, s, n) \in pend
Follows(V, g, m, src, p) == CallWay(V, g, m, p.path) /\ p.source \in src[p.path[1]]
Following(V, g, m, src, snk, pend, evid) ==
    /\ \A p \in pend : p = [source |-> p.source, path |-> p.path] /\ Follows(V, g, m, src, p)
    /\ \A v \in evid : Follows(V, g, m, src, v) /\ v.sink \in snk[Last(v.path)]
    /\ \A w : CallWay(V, g, m, w) => \A s \in src[w[1]] : Waits(pend, w, s) \/ SinksTold(snk, evid, w)

LEMMA FirstAlone ==
  ASSUME NEW S, NEW w \in Seq(S), Len(w) > 0
  PROVE  1 \in 1..Len(w) /\ SubSeq(w, 1, 1) = <<w[1]>>
<1>1. Len(w) \in Nat /\ 1 \in 1..Len(w) /\ w[1] \in S
  <2>1. Len(w) \in Nat
    BY LenProperties
  <2>2. 1 \in 1..Len(w)
    BY <2>1
  <2> QED
    BY <2>1, <2>2, ElementOfSeq
<1>2. SubSeq(w, 1, 1) \in Seq(S) /\ Len(SubSeq(w, 1, 1)) = 1 /\ SubSeq(w, 1, 1)[1] = w[1]
  BY <1>1, SubSeqProperties
<1>3. <<w[1]>> \in Seq(S) /\ Len(<<w[1]>>) = 1 /\ <<w[1]>>[1] = w[1]
  BY <1>1
<1>4. \A i \in 1..1 : SubSeq(w, 1, 1)[i] = <<w[1]>>[i]
  BY <1>2, <1>3
<1> QED
  BY <1>1, <1>2, <1>3, <1>4, SeqEqual

LEMMA OneLonger ==
  ASSUME NEW S, NEW w \in Seq(S), NEW n \in 1..(Len(w) - 1)
  PROVE  SubSeq(w, 1, n + 1) = Append(SubSeq(w, 1, n), w[n + 1])
<1> DEFINE p == SubSeq(w, 1, n)
           q == SubSeq(w, 1, n + 1)
           a == Append(p, w[n + 1])
<1>1. Len(w) \in Nat /\ \A i \in 1..Len(w) : w[i] \in S
  BY LenProperties, ElementOfSeq
<1>2. n \in Nat /\ n + 1 \in 1..Len(w) /\ \A i \in 1..(n + 1) : i \in 1..Len(w)
  BY <1>1
<1>3. q \in Seq(S) /\ Len(q) = n + 1 /\ \A i \in 1..(n + 1) : q[i] = w[i]
  BY <1>1, <1>2, SubSeqProperties
<1>4. p \in Seq(S) /\ Len(p) = n /\ \A i \in 1..n : p[i] = w[i]
  BY <1>1, <1>2, SubSeqProperties
<1> HIDE DEF p, q
<1>5. w[n + 1] \in S
  BY <1>1, <1>2
<1>6. a \in Seq(S) /\ Len(a) = n + 1 /\ a[n + 1] = w[n + 1] /\ \A i \in 1..n : a[i] = w[i]
  BY <1>2, <1>4, <1>5, AppendProperties
<1> HIDE DEF a
<1>7. \A i \in 1..(n + 1) : q[i] = a[i]
  <2>1. \A i \in 1..(n + 1) : i \in 1..n \/ i = n + 1
    BY <1>2
  <2> QED
    BY <2>1, <1>3, <1>6
<1>8. q = a
  BY <1>3, <1>6, <1>7, SeqEqual
<1> QED
  BY <1>8 DEF p, q, a

LEMMA SearchBegins ==
  ASSUME NEW V, NEW g, NEW m \in Nat, NEW src, NEW snk, NEW pend,
         pend = UNION {{[source |-> s, path |-> <<q>>] : s \in src[q]} : q \in V}
  PROVE  Following(V, g, m, src, snk, pend, {})
<1>1. ASSUME NEW p \in pend PROVE p = [source |-> p.source, path |-> p.path] /\ Follows(V, g, m, src, p)
  <2>1. PICK q \in V : p \in {[source |-> s, path |-> <<q>>] : s \in src[q]}
    OBVIOUS
  <2>2. PICK s \in src[q] : p = [source |-> s, path |-> <<q>>]
    BY <2>1
  <2>3. CallWay(V, g, m, <<q>>) /\ <<q>>[1] = q
    BY WayBegins
  <2> QED
    BY <2>2, <2>3 DEF Follows
<1>2. ASSUME NEW w, CallWay(V, g, m, w), NEW s \in src[w[1]] PROVE Waits(pend, w, s)
  <2>1. w \in Seq(V) /\ Len(w) \in Nat /\ Len(w) > 0 /\ w[1] \in V
    BY <1>2, WayHas DEF CallWay
  <2>2. 1 \in 1..Len(w) /\ SubSeq(w, 1, 1) = <<w[1]>>
    BY <2>1, FirstAlone
  <2>3. AskedFor(w, s, 1) = [source |-> s, path |-> <<w[1]>>]
    BY <2>2 DEF AskedFor
  <2>4. AskedFor(w, s, 1) \in pend
    BY <2>1, <2>3
  <2> QED
    BY <2>2, <2>4 DEF Waits
<1> QED
  BY <1>1, <1>2 DEF Following

Beyonds(p, m, callees) ==
    {[p EXCEPT !.path = Append(@, r)] : r \in {r \in callees : Len(p.path) <= m /\ r \notin ToSet(p.path)}}

LEMMA BeyondsAre ==
  ASSUME NEW m \in Nat, NEW callees, NEW p, p = [source |-> p.source, path |-> p.path], NEW x
  PROVE  x \in Beyonds(p, m, callees) <=>
            \E r \in callees : /\ Len(p.path) <= m /\ r \notin Range(p.path)
                               /\ x = [source |-> p.source, path |-> Append(p.path, r)]
<1>1. ASSUME NEW r PROVE [p EXCEPT !.path = Append(@, r)] = [source |-> p.source, path |-> Append(p.path, r)]
  <2> DEFINE longer == Append(p.path, r)
             from == p.source
             way == p.path
  <2>1. p = [source |-> from, path |-> way]
    OBVIOUS
  <2> HIDE DEF longer, from, way
  <2>2. [p EXCEPT !.path = longer] = [source |-> from, path |-> longer]
    BY ONLY <2>1
  <2> QED
    BY <2>2 DEF longer, from
<1>2. ToSet(p.path) = Range(p.path)
  BY DEF ToSet, Range
<1> QED
  BY <1>1, <1>2 DEF Beyonds

Weighs(snk, p, fresh) ==
    /\ \A v \in fresh : v.path = p.path /\ v.source = p.source /\ v.sink \in snk[Last(p.path)]
    /\ \A k \in snk[Last(p.path)] : \E v \in fresh : v.sink = k

LEMMA BeginningOf ==
  ASSUME NEW S, NEW w \in Seq(S), NEW n \in 1..Len(w)
  PROVE  Len(SubSeq(w, 1, n)) = n /\ Last(SubSeq(w, 1, n)) = w[n]
<1>1. /\ Len(w) \in Nat /\ n \in Nat /\ n > 0 /\ n <= Len(w)
      /\ \A i \in 1..Len(w) : w[i] \in S
  BY LenProperties, ElementOfSeq
<1> DEFINE p == SubSeq(w, 1, n)
<1>2. p \in Seq(S) /\ Len(p) = n /\ \A i \in 1..n : p[i] = w[i]
  BY <1>1, SubSeqProperties
<1> HIDE DEF p
<1>3. Last(p) = p[n]
  BY <1>2 DEF Last
<1> QED
  BY <1>1, <1>2, <1>3 DEF p


LEMMA SearchGoesOn ==
  ASSUME NEW V, NEW g \in SUBSET (V \X V), NEW m \in Nat, NEW src, NEW snk, NEW pend, NEW evid,
         Following(V, g, m, src, snk, pend, evid), NEW p \in pend,
         NEW callees, \A r : r \in callees <=> <<Last(p.path), r>> \in g, NEW fresh, Weighs(snk, p, fresh),
         NEW pend2, pend2 = (pend \ {p}) \cup Beyonds(p, m, callees)
  PROVE  Following(V, g, m, src, snk, pend2, evid \cup fresh)
<1>1. p = [source |-> p.source, path |-> p.path] /\ CallWay(V, g, m, p.path) /\ p.source \in src[p.path[1]]
  BY DEF Following, Follows
<1>2. \A x : x \in Beyonds(p, m, callees) <=>
                \E r \in callees : /\ Len(p.path) <= m /\ r \notin Range(p.path)
                                   /\ x = [source |-> p.source, path |-> Append(p.path, r)]
  BY <1>1, BeyondsAre
<1>3. ASSUME NEW x \in Beyonds(p, m, callees)
      PROVE  x = [source |-> x.source, path |-> x.path] /\ Follows(V, g, m, src, x)
  <2>1. PICK r \in callees : /\ Len(p.path) <= m /\ r \notin Range(p.path)
                             /\ x = [source |-> p.source, path |-> Append(p.path, r)]
    BY <1>2
  <2>2. <<Last(p.path), r>> \in g /\ r \in V
    BY <2>1
  <2>3. CallWay(V, g, m, Append(p.path, r)) /\ Append(p.path, r)[1] = p.path[1]
    BY <1>1, <2>1, <2>2, WayGoesOn
  <2> QED
    BY <1>1, <2>1, <2>3 DEF Follows
<1>4. ASSUME NEW x \in pend2 PROVE x = [source |-> x.source, path |-> x.path] /\ Follows(V, g, m, src, x)
  BY <1>3 DEF Following
<1>5. ASSUME NEW v \in evid \cup fresh PROVE Follows(V, g, m, src, v) /\ v.sink \in snk[Last(v.path)]
  BY <1>1 DEF Following, Follows, Weighs
<1>6. ASSUME NEW w, CallWay(V, g, m, w), NEW s \in src[w[1]], ~SinksTold(snk, evid \cup fresh, w) PROVE Waits(pend2, w, s)
  <2>1. ~SinksTold(snk, evid, w)
    BY <1>6 DEF SinksTold
  <2>2. PICK n \in 1..Len(w) : AskedFor(w, s, n) \in pend
    BY <1>6, <2>1 DEF Following, Waits
  <2>3. CASE AskedFor(w, s, n) # p
    BY <2>2, <2>3 DEF Waits
  <2>4. CASE AskedFor(w, s, n) = p
    <3>1. p.source = s /\ p.path = SubSeq(w, 1, n)
      BY <2>4 DEF AskedFor
    <3>2. /\ Len(w) \in Nat /\ w \in Seq(V) /\ DOMAIN w = 1..Len(w) /\ \A i \in 1..Len(w) : w[i] \in V
          /\ IsInjective(w) /\ Len(w) <= m + 1 /\ \A i \in 1..(Len(w) - 1) : <<w[i], w[i + 1]>> \in g
      BY <1>6, WayHas DEF CallWay
    <3>3. Len(p.path) = n /\ Last(p.path) = w[n]
      <4>1. m \in Nat /\ n \in 1..Len(w) /\ CallWay(V, g, m, w)
        BY <1>6, <2>2
      <4>2. Len(SubSeq(w, 1, n)) = n /\ Last(SubSeq(w, 1, n)) = w[n]
        BY <3>2, BeginningOf
      <4> QED
        BY <3>1, <4>2
    <3>4. n # Len(w)
      <4> SUFFICES ASSUME n = Len(w) PROVE FALSE
        OBVIOUS
      <4>2. p.path = w
        BY <3>1, <3>2, SubSeqFull
      <4>3. SinksTold(snk, fresh, w)
        BY <4>2 DEF SinksTold, Weighs
      <4> QED
        BY <4>3, <1>6 DEF SinksTold
    <3>5. n \in 1..(Len(w) - 1) /\ n + 1 \in 1..Len(w) /\ n <= m
      <4>1. \A N \in Nat : \A k \in 1..N : k # N /\ N <= m + 1 => k \in 1..(N - 1) /\ k + 1 \in 1..N /\ k <= m
        OBVIOUS
      <4> QED
        BY <2>2, <3>2, <3>4, <4>1
    <3>6. w[n + 1] \in callees
      BY <3>2, <3>3, <3>5
    <3>7. w[n + 1] \notin Range(p.path)
      <4>1. \A i \in 1..n : p.path[i] = w[i] /\ i \in 1..Len(w) /\ i # n + 1
        BY <3>1, <3>2, <3>5, SubSeqProperties
      <4>2. DOMAIN p.path = 1..n
        BY <1>1, <3>3, WayHas
      <4> QED
        BY <3>2, <3>5, <4>1, <4>2 DEF Range, IsInjective
    <3>8. SubSeq(w, 1, n + 1) = Append(SubSeq(w, 1, n), w[n + 1])
      BY <3>2, <3>5, OneLonger
    <3>9. AskedFor(w, s, n + 1) = [source |-> p.source, path |-> Append(p.path, w[n + 1])]
      BY <3>1, <3>8 DEF AskedFor
    <3>10. AskedFor(w, s, n + 1) \in Beyonds(p, m, callees)
      BY <1>2, <3>3, <3>5, <3>6, <3>7, <3>9
    <3> QED
      BY <3>5, <3>10 DEF Waits
  <2> QED
    BY <2>3, <2>4
<1> QED
  BY <1>4, <1>5, <1>6 DEF Following

-----------------------------------------------------------------------------
(* What is known of the scan after every step.                              *)

CallEdgesOf == {e \in (DOMAIN functions) \X (DOMAIN functions) : e[2] \in CalleesOf(e[1])}
SourcesGiven == [q \in DOMAIN functions |-> SourcesOf(q)]
SinksGiven == [q \in DOMAIN functions |-> functions[q].calls \cap DOMAIN SinkCategory]
SearchKnown ==
    Following(DOMAIN functions, CallEdgesOf, MaxCallDepth, SourcesGiven, SinksGiven, pending, evidence)
FlowInv ==
    /\ texts \in SourceTexts /\ flowStage \in {"read", "propagate"}
    /\ walked \in Seq(SourceFiles) /\ IsInjective(walked)
    /\ FilesFit(walked, functions)
    /\ flowStage = "read" => pending = {} /\ evidence = {}
    /\ flowStage = "propagate" => Range(walked) = SourceFiles /\ SearchKnown
    /\ \A v \in evidence : v.sanitized = (SinkCategory[v.sink] \in Sanitizing(v.path))

LEMMA CalleesKnown ==
  ASSUME NEW q \in DOMAIN functions
  PROVE  CalleesOf(q) \subseteq DOMAIN functions /\ \A r : r \in CalleesOf(q) <=> <<q, r>> \in CallEdgesOf
<1>1. ASSUME NEW c PROVE Resolved(DOMAIN functions, q, c) \subseteq DOMAIN functions
  BY DEF Resolved
<1>2. CalleesOf(q) \subseteq DOMAIN functions
  BY <1>1 DEF CalleesOf
<1> QED
  BY <1>2 DEF CallEdgesOf

LEMMA FlowsBegin ==
  ASSUME FlowInit
  PROVE  FlowInv
<1>1. walked \in Seq(SourceFiles) /\ IsInjective(walked) /\ DOMAIN walked = {} /\ DOMAIN functions = {}
  BY EmptySeq DEF FlowInit, IsInjective
<1>2. FilesFit(walked, functions)
  BY <1>1 DEF FilesFit, WalkedLast
<1> QED
  BY <1>1, <1>2 DEF FlowInit, FlowInv

LEMMA SameFlows ==
  ASSUME functions' = functions, texts' = texts
  PROVE  /\ \A q : SourcesOf(q)' = SourcesOf(q) /\ CalleesOf(q)' = CalleesOf(q)
         /\ \A w : Sanitizing(w)' = Sanitizing(w)
         /\ CallEdgesOf' = CallEdgesOf /\ SourcesGiven' = SourcesGiven /\ SinksGiven' = SinksGiven
         /\ walked' = walked => (FilesFit(walked, functions)' <=> FilesFit(walked, functions))
<1>1. \A q : SourcesOf(q)' = SourcesOf(q) /\ CalleesOf(q)' = CalleesOf(q)
  BY DEF SourcesOf, CalleesOf
<1>2. \A w : Sanitizing(w)' = Sanitizing(w)
  BY DEF Sanitizing
<1>3. CallEdgesOf' = CallEdgesOf /\ SourcesGiven' = SourcesGiven /\ SinksGiven' = SinksGiven
  BY <1>1 DEF CallEdgesOf, SourcesGiven, SinksGiven
<1>4. Definitions' = Definitions
  BY DEF Definitions
<1>5. \A d : QualifiedName(d)' = QualifiedName(d) /\ BodyOf(d)' = BodyOf(d) /\ (LastDef(d)' <=> LastDef(d))
  BY DEF QualifiedName, BodyOf, LastDef
<1>6. \A d : FunctionOf(d)' = FunctionOf(d)
  BY <1>5 DEF FunctionOf
<1>7. ASSUME walked' = walked PROVE FilesFit(walked, functions)' <=> FilesFit(walked, functions)
  BY <1>4, <1>5, <1>6, <1>7 DEF FilesFit
<1> QED
  BY <1>1, <1>2, <1>3, <1>7

LEMMA ReadingKeeps ==
  ASSUME FlowInv, NEW f \in SourceFiles, ReadSource(f)
  PROVE  FlowInv'
<1>1. /\ flowStage = "read" /\ f \notin Range(walked) /\ walked' = Append(walked, f)
      /\ functions' = Added(functions, BaseNameOf[f], FunctionsOf(f))
      /\ UNCHANGED <<texts, pending, evidence, flowStage>>
  BY DEF ReadSource, ToSet, Range
<1>2. walked' \in Seq(SourceFiles) /\ IsInjective(walked')
  <2>1. walked \in Seq(SourceFiles) /\ IsInjective(walked)
    BY DEF FlowInv
  <2> QED
    BY <1>1, <2>1, AppendOne
<1>3. PICK new : new = functions'
  OBVIOUS
<1>4. FilesFit(Append(walked, f), new)
  <2>1. /\ walked \in Seq(SourceFiles) /\ FilesFit(walked, functions) /\ texts \in SourceTexts
        /\ new = Added(functions, BaseNameOf[f], FunctionsOf(f))
    BY <1>1, <1>3 DEF FlowInv
  <2> QED
    BY <1>1, <2>1, OneFileMore
<1>5. FilesFit(walked, functions)'
  <2>1. Definitions' = Definitions
    BY <1>1 DEF Definitions
  <2>2. \A d : QualifiedName(d)' = QualifiedName(d) /\ BodyOf(d)' = BodyOf(d) /\ (LastDef(d)' <=> LastDef(d))
    BY <1>1 DEF QualifiedName, BodyOf, LastDef
  <2>3. \A d : FunctionOf(d)' = FunctionOf(d)
    BY <1>1, <2>2 DEF FunctionOf
  <2>4. FilesFit(walked', functions')
    BY <1>1, <1>3, <1>4
  <2>5. PICK w : w = walked'
    OBVIOUS
  <2>6. \A q \in DOMAIN new : \E d \in Definitions : WalkedLast(w, d[1]) /\ LastDef(d) /\ q = QualifiedName(d)
    BY <1>3, <2>4, <2>5 DEF FilesFit
  <2>7. \A d \in Definitions : WalkedLast(w, d[1]) /\ LastDef(d) =>
            QualifiedName(d) \in DOMAIN new /\ new[QualifiedName(d)] = FunctionOf(d)
    BY <1>3, <2>4, <2>5 DEF FilesFit
  <2> QED
    BY <2>1, <2>2, <2>3, <2>5, <2>6, <2>7, <1>3 DEF FilesFit
<1> QED
  BY <1>1, <1>2, <1>5 DEF FlowInv

LEMMA BeginningKeeps ==
  ASSUME FlowInv, BeginSearch
  PROVE  FlowInv'
<1>1. /\ flowStage = "read" /\ Range(walked) = SourceFiles /\ flowStage' = "propagate"
      /\ pending' = UNION {{[source |-> s, path |-> <<q>>] : s \in SourcesOf(q)} : q \in DOMAIN functions}
      /\ UNCHANGED <<texts, walked, functions, evidence>> /\ evidence = {}
  BY DEF BeginSearch, ToSet, Range, FlowInv
<1>2. PICK pend : pend = pending'
  OBVIOUS
<1>3. pend = UNION {{[source |-> s, path |-> <<q>>] : s \in SourcesGiven[q]} : q \in DOMAIN functions}
  BY <1>1, <1>2 DEF SourcesGiven
<1>4. MaxCallDepth \in Nat
  BY ProgramFlowsAssumption
<1>5. Following(DOMAIN functions, CallEdgesOf, MaxCallDepth, SourcesGiven, SinksGiven, pend, {})
  BY <1>3, <1>4, SearchBegins
<1>6. SearchKnown'
  BY <1>1, <1>2, <1>5, SameFlows DEF SearchKnown
<1>7. FilesFit(walked, functions)'
  BY <1>1, SameFlows DEF FlowInv
<1> QED
  BY <1>1, <1>6, <1>7 DEF FlowInv

LEMMA PropagatingKeeps ==
  ASSUME FlowInv, NEW p \in pending, Propagate(p)
  PROVE  FlowInv'
<1> DEFINE q == Last(p.path)
           fresh == {Weighed(p, s) : s \in functions[q].calls \cap DOMAIN SinkCategory}
           V == DOMAIN functions
<1>1. /\ flowStage = "propagate" /\ UNCHANGED <<texts, walked, functions, flowStage>>
      /\ evidence' = evidence \cup fresh /\ pending' = (pending \ {p}) \cup Beyonds(p, MaxCallDepth, CalleesOf(q))
  BY DEF Propagate, Beyonds
<1>2. Following(V, CallEdgesOf, MaxCallDepth, SourcesGiven, SinksGiven, pending, evidence)
  BY <1>1 DEF FlowInv, SearchKnown
<1>3. MaxCallDepth \in Nat /\ CallEdgesOf \in SUBSET (V \X V)
  BY ProgramFlowsAssumption DEF CallEdgesOf
<1>4. CallWay(V, CallEdgesOf, MaxCallDepth, p.path)
  BY <1>2 DEF Following, Follows
<1>5. q \in V
  BY <1>3, <1>4, WayHas
<1>6. \A r : r \in CalleesOf(q) <=> <<q, r>> \in CallEdgesOf
  BY <1>5, CalleesKnown
<1>7. \A s : /\ Weighed(p, s).path = p.path /\ Weighed(p, s).source = p.source /\ Weighed(p, s).sink = s
             /\ Weighed(p, s).sanitized = (SinkCategory[s] \in Sanitizing(p.path))
  BY DEF Weighed
<1>8. Weighs(SinksGiven, p, fresh)
  <2>1. SinksGiven[q] = functions[q].calls \cap DOMAIN SinkCategory
    BY <1>5 DEF SinksGiven
  <2> QED
    BY <2>1, <1>7 DEF Weighs
<1>9. \A v \in fresh : v.sanitized = (SinkCategory[v.sink] \in Sanitizing(v.path))
  BY <1>7
<1>10. PICK pend2 : pend2 = pending'
  OBVIOUS
<1>11. pend2 = (pending \ {p}) \cup Beyonds(p, MaxCallDepth, CalleesOf(q))
  BY <1>1, <1>10
<1> HIDE DEF fresh
<1>12. Following(V, CallEdgesOf, MaxCallDepth, SourcesGiven, SinksGiven, pend2, evidence \cup fresh)
  BY <1>2, <1>3, <1>6, <1>8, <1>11, SearchGoesOn
<1>13. SearchKnown'
  BY <1>1, <1>10, <1>12, SameFlows DEF SearchKnown
<1>14. FilesFit(walked, functions)'
  BY <1>1, SameFlows DEF FlowInv
<1>15. \A v \in evidence \cup fresh : v.sanitized = (SinkCategory[v.sink] \in Sanitizing(v.path))
  BY <1>9 DEF FlowInv
<1>16. \A v \in evidence' : v.sanitized = (SinkCategory[v.sink] \in Sanitizing(v.path)')
  BY <1>1, <1>15, SameFlows
<1> QED
  BY <1>1, <1>13, <1>14, <1>16 DEF FlowInv

LEMMA FlowsKeep ==
  ASSUME FlowInv, [FlowNext]_flowVars
  PROVE  FlowInv'
<1>1. CASE UNCHANGED flowVars
  <2>1. functions' = functions /\ texts' = texts /\ walked' = walked /\ pending' = pending /\ evidence' = evidence
        /\ flowStage' = flowStage
    BY <1>1 DEF flowVars
  <2>2. FilesFit(walked, functions)'
    BY <2>1, SameFlows DEF FlowInv
  <2>3. SearchKnown' <=> SearchKnown
    BY <2>1, SameFlows DEF SearchKnown
  <2>4. \A v \in evidence' : v.sanitized = (SinkCategory[v.sink] \in Sanitizing(v.path)')
    BY <2>1, SameFlows DEF FlowInv
  <2> QED
    BY <2>1, <2>2, <2>3, <2>4 DEF FlowInv
<1> QED
  BY <1>1, ReadingKeeps, BeginningKeeps, PropagatingKeeps DEF FlowNext

-----------------------------------------------------------------------------
(* What is known says that the flows that are told are those there are.     *)

LEMMA FlowsTyped ==
  ASSUME FlowInv
  PROVE  FlowTypeOK
<1>1. IsInjective(walked) /\ ToSet(walked) \subseteq SourceFiles
  <2>1. walked \in Seq(SourceFiles) /\ IsInjective(walked)
    BY DEF FlowInv
  <2> QED
    BY <2>1, LenProperties, ElementOfSeq DEF ToSet
<1>2. ASSUME NEW p \in pending \cup evidence PROVE IsInjective(p.path) /\ Len(p.path) \in 1..(MaxCallDepth + 1)
  <2>1. flowStage = "propagate" /\ SearchKnown
    BY <1>2 DEF FlowInv
  <2>2. CallWay(DOMAIN functions, CallEdgesOf, MaxCallDepth, p.path)
    BY <1>2, <2>1 DEF SearchKnown, Following, Follows
  <2>3. MaxCallDepth \in Nat
    BY ProgramFlowsAssumption
  <2>4. Len(p.path) \in Nat /\ Len(p.path) > 0
    BY <2>2, <2>3, WayHas
  <2> QED
    BY <2>2, <2>3, <2>4 DEF CallWay
<1> QED
  BY <1>1, <1>2 DEF FlowInv, FlowTypeOK

LEMMA DefinitionsNamed ==
  ASSUME FlowInv, flowStage = "propagate"
  PROVE  /\ DOMAIN functions = {QualifiedName(d) : d \in KeptDefinitions}
         /\ \A d \in KeptDefinitions : functions[QualifiedName(d)] = FunctionOf(d)
         /\ \A d, e \in KeptDefinitions : QualifiedName(d) = QualifiedName(e) => d = e
<1>1. texts \in SourceTexts /\ FilesFit(walked, functions)
  BY DEF FlowInv
<1>2. \A d : d \in KeptDefinitions <=> d \in Definitions /\ WalkedLast(walked, d[1]) /\ LastDef(d)
  BY <1>1, KeptMeans DEF KeptDefinitions
<1>3. ASSUME NEW d \in KeptDefinitions
      PROVE  QualifiedName(d) \in DOMAIN functions /\ functions[QualifiedName(d)] = FunctionOf(d)
  BY <1>1, <1>2 DEF FilesFit
<1>4. ASSUME NEW q \in DOMAIN functions PROVE \E d \in KeptDefinitions : q = QualifiedName(d)
  BY <1>1, <1>2 DEF FilesFit
<1>5. ASSUME NEW d \in KeptDefinitions, NEW e \in KeptDefinitions, QualifiedName(d) = QualifiedName(e) PROVE d = e
  <2>1. BaseNameOf[d[1]] = BaseNameOf[e[1]] /\ texts[d[1]][d[2]].def = texts[e[1]][e[2]].def
    BY <1>5 DEF QualifiedName
  <2>2. PICK n \in DOMAIN walked : walked[n] = d[1] /\ \A m \in DOMAIN walked : BaseNameOf[walked[m]] = BaseNameOf[d[1]] => m <= n
    BY <1>2 DEF WalkedLast
  <2>3. PICK m \in DOMAIN walked : walked[m] = e[1] /\ \A k \in DOMAIN walked : BaseNameOf[walked[k]] = BaseNameOf[e[1]] => k <= m
    BY <1>2 DEF WalkedLast
  <2>4. n = m
    <3>1. walked \in Seq(SourceFiles)
      BY DEF FlowInv
    <3>2. DOMAIN walked = 1..Len(walked) /\ Len(walked) \in Nat
      BY <3>1, LenProperties
    <3>3. n <= m /\ m <= n
      BY <2>1, <2>2, <2>3
    <3> QED
      BY <2>2, <2>3, <3>2, <3>3
  <2>5. d[1] = e[1]
    BY <2>2, <2>3, <2>4
  <2>6. LastDef(d) /\ LastDef(e) /\ d = <<d[1], d[2]>> /\ e = <<e[1], e[2]>> /\ Len(texts[d[1]]) \in Nat
    BY <1>1, <1>2, DefinitionsAre
  <2>7. d[2] = e[2]
    <3>1. PICK lines, i, j : lines = texts[d[1]] /\ i = d[2] /\ j = e[2]
      OBVIOUS
    <3>2. LastOfName(lines, Len(lines), i) /\ LastOfName(lines, Len(lines), j) /\ lines[i].def = lines[j].def /\ Len(lines) \in Nat
      BY <2>1, <2>5, <2>6, <3>1 DEF LastDef
    <3>3. i = j
      BY ONLY <3>2, LastIsOne
    <3> QED
      BY <3>1, <3>3
  <2> QED
    BY <2>5, <2>6, <2>7
<1> QED
  BY <1>3, <1>4, <1>5

LEMMA LinksAre ==
  ASSUME FlowInv, flowStage = "propagate"
  PROVE  NamesOneEach(KeptDefinitions, CallLinks, DOMAIN functions, CallEdgesOf, [d \in KeptDefinitions |-> QualifiedName(d)])
<1> DEFINE D == KeptDefinitions
           V == DOMAIN functions
           N == [d \in D |-> QualifiedName(d)]
<1>1. /\ V = {QualifiedName(d) : d \in D} /\ \A d \in D : functions[QualifiedName(d)] = FunctionOf(d)
      /\ \A d, e \in D : QualifiedName(d) = QualifiedName(e) => d = e
  BY DefinitionsNamed
<1>2. N \in [D -> V] /\ \A d \in D : N[d] = QualifiedName(d)
  BY <1>1
<1> HIDE DEF D, N
<1>3. \A d \in D : functions[QualifiedName(d)].calls = BodyOf(d)
  <2>1. ASSUME NEW d \in D PROVE FunctionOf(d).calls = BodyOf(d)
    <3>1. PICK body, starts : body = BodyOf(d) /\ starts = texts[d[1]][d[2]].endpoint
      OBVIOUS
    <3>2. FunctionOf(d) = [endpoint |-> starts, calls |-> body]
      BY <3>1 DEF FunctionOf
    <3> QED
      BY <3>1, <3>2
  <2> QED
    BY <1>1, <2>1
<1>4. ASSUME NEW d \in D, NEW e \in D PROVE <<d, e>> \in CallLinks <=> <<N[d], N[e]>> \in CallEdgesOf
  <2>1. <<d, e>> \in CallLinks <=> \E c \in BodyOf(d) : QualifiedName(e) \in Resolved(V, QualifiedName(d), c)
    BY <1>1 DEF CallLinks, D
  <2>2. QualifiedName(e) \in CalleesOf(QualifiedName(d)) <=>
            \E c \in BodyOf(d) : QualifiedName(e) \in Resolved(V, QualifiedName(d), c)
    BY <1>3 DEF CalleesOf
  <2>3. QualifiedName(d) \in V
    BY <1>1
  <2>4. QualifiedName(e) \in CalleesOf(QualifiedName(d)) <=> <<QualifiedName(d), QualifiedName(e)>> \in CallEdgesOf
    BY <2>3, CalleesKnown
  <2> QED
    BY <2>1, <2>2, <2>4, <1>2
<1>5. CallLinks \in SUBSET (D \X D) /\ CallEdgesOf \in SUBSET (V \X V)
  BY DEF CallLinks, CallEdgesOf, D
<1>6. NamesOneEach(D, CallLinks, V, CallEdgesOf, N)
  BY <1>1, <1>2, <1>4, <1>5 DEF NamesOneEach
<1> QED
  BY <1>6 DEF D, N

LEMMA WithinIs ==
  ASSUME FlowInv, flowStage = "propagate", NEW d \in KeptDefinitions
  PROVE  \A e : e \in CalledWithin(d) <=>
            /\ e \in KeptDefinitions
            /\ Comes(DOMAIN functions, CallEdgesOf, MaxCallDepth, QualifiedName(d), QualifiedName(e))
<1> DEFINE M == MaxCallDepth
           f == CHOOSE f : Walks(CallLinks, {d}, M, f)
           N == [e \in KeptDefinitions |-> QualifiedName(e)]
           V == DOMAIN functions
<1>1. M \in Nat
  BY ProgramFlowsAssumption
<1>2. CalledWithin(d) = f[M]
  BY DEF CalledWithin, Walks, NextTo
<1> HIDE DEF M
<1>3. Walks(CallLinks, {d}, M, f)
  BY <1>1, WalksExist
<1> HIDE DEF f
<1>4. NamesOneEach(KeptDefinitions, CallLinks, V, CallEdgesOf, N)
  BY LinksAre
<1>5. \A e \in KeptDefinitions : N[e] = QualifiedName(e)
  OBVIOUS
<1> HIDE DEF N, V
<1>6. \A e \in f[M] : e \in KeptDefinitions /\ Comes(V, CallEdgesOf, M, N[d], N[e])
  BY <1>1, <1>3, <1>4, WaysGiven
<1>7. ASSUME NEW e \in KeptDefinitions, Comes(V, CallEdgesOf, M, N[d], N[e]) PROVE e \in f[M]
  BY <1>1, <1>3, <1>4, <1>7, WaysTaken
<1> QED
  BY <1>2, <1>5, <1>6, <1>7 DEF V, M

(* A sink that is reached counts as cleaned by what its own definition calls. *)
Cleans(e, s) == \E c \in BodyOf(e) \cap DOMAIN CleanedBy : SinkCategory[s] \in CleanedBy[c]
Begins(d) == texts[d[1]][d[2]].endpoint \/ BodyOf(d) \cap SourceCalls # {}
FlowOf(d, e, s, cleaned) ==
    /\ d \in KeptDefinitions /\ Begins(d) /\ e \in CalledWithin(d) /\ s \in BodyOf(e) \cap DOMAIN SinkCategory
    /\ cleaned = Cleans(e, s)

LEMMA FunctionHas ==
  ASSUME FlowInv, flowStage = "propagate", NEW d \in KeptDefinitions
  PROVE  /\ QualifiedName(d) \in DOMAIN functions
         /\ functions[QualifiedName(d)].calls = BodyOf(d)
         /\ functions[QualifiedName(d)].endpoint = texts[d[1]][d[2]].endpoint
<1>1. QualifiedName(d) \in DOMAIN functions /\ functions[QualifiedName(d)] = FunctionOf(d)
  BY DefinitionsNamed
<1>2. PICK body, starts : body = BodyOf(d) /\ starts = texts[d[1]][d[2]].endpoint
  OBVIOUS
<1>3. FunctionOf(d) = [endpoint |-> starts, calls |-> body]
  BY <1>2 DEF FunctionOf
<1> QED
  BY <1>1, <1>2, <1>3

LEMMA SourcesAre ==
  ASSUME FlowInv, flowStage = "propagate", NEW d \in KeptDefinitions
  PROVE  Begins(d) <=> \E s : s \in SourcesGiven[QualifiedName(d)]
<1> DEFINE q == QualifiedName(d)
<1>1. q \in DOMAIN functions /\ functions[q].calls = BodyOf(d) /\ functions[q].endpoint = texts[d[1]][d[2]].endpoint
  BY FunctionHas
<1> HIDE DEF q
<1>2. SourcesGiven[q] = SourcesOf(q)
  BY <1>1 DEF SourcesGiven
<1>3. (\E s : s \in SourcesOf(q)) <=> functions[q].endpoint \/ \E c \in functions[q].calls : c \in SourceCalls
  BY DEF SourcesOf
<1>4. Begins(d) <=> texts[d[1]][d[2]].endpoint \/ \E c \in BodyOf(d) : c \in SourceCalls
  BY DEF Begins
<1> QED
  BY <1>1, <1>2, <1>3, <1>4 DEF q

LEMMA CleanedAre ==
  ASSUME FlowInv, flowStage = "propagate", NEW e \in KeptDefinitions, NEW w, Last(w) = QualifiedName(e), NEW s
  PROVE  (SinkCategory[s] \in Sanitizing(w)) <=> Cleans(e, s)
<1>1. functions[Last(w)].calls = BodyOf(e)
  BY FunctionHas
<1> QED
  BY <1>1 DEF Sanitizing, Cleans

LEMMA EvidenceIsFlow ==
  ASSUME FlowInv, flowStage = "propagate", NEW v \in evidence
  PROVE  \E d, e : /\ FlowOf(d, e, v.sink, v.sanitized)
                   /\ v.path[1] = QualifiedName(d) /\ Last(v.path) = QualifiedName(e)
<1>1. /\ CallWay(DOMAIN functions, CallEdgesOf, MaxCallDepth, v.path) /\ v.source \in SourcesGiven[v.path[1]]
      /\ v.sink \in SinksGiven[Last(v.path)] /\ v.sanitized = (SinkCategory[v.sink] \in Sanitizing(v.path))
  BY DEF FlowInv, SearchKnown, Following, Follows
<1>2. v.path[1] \in DOMAIN functions /\ Last(v.path) \in DOMAIN functions
  <2>1. MaxCallDepth \in Nat
    BY ProgramFlowsAssumption
  <2> QED
    BY <1>1, <2>1, WayHas
<1>3. PICK d \in KeptDefinitions : v.path[1] = QualifiedName(d)
  BY <1>2, DefinitionsNamed
<1>4. PICK e \in KeptDefinitions : Last(v.path) = QualifiedName(e)
  BY <1>2, DefinitionsNamed
<1>5. Begins(d)
  BY <1>1, <1>3, SourcesAre
<1>6. Comes(DOMAIN functions, CallEdgesOf, MaxCallDepth, QualifiedName(d), QualifiedName(e))
  BY <1>1, <1>3, <1>4 DEF Comes
<1>7. e \in CalledWithin(d)
  BY <1>6, WithinIs
<1>8. v.sink \in BodyOf(e) \cap DOMAIN SinkCategory
  BY <1>1, <1>2, <1>4, FunctionHas DEF SinksGiven
<1>9. v.sanitized = Cleans(e, v.sink)
  <2>1. (SinkCategory[v.sink] \in Sanitizing(v.path)) <=> Cleans(e, v.sink)
    BY <1>4, CleanedAre
  <2>2. Cleans(e, v.sink) \in BOOLEAN
    BY DEF Cleans
  <2> QED
    BY <1>1, <2>1, <2>2
<1> QED
  BY <1>3, <1>4, <1>5, <1>7, <1>8, <1>9 DEF FlowOf

LEMMA FlowIsEvidence ==
  ASSUME FlowInv, flowStage = "propagate", pending = {},
         NEW d, NEW e, NEW s, NEW cleaned, FlowOf(d, e, s, cleaned)
  PROVE  \E v \in evidence : /\ v.path[1] = QualifiedName(d) /\ Last(v.path) = QualifiedName(e)
                             /\ v.sink = s /\ v.sanitized = cleaned
<1>1. /\ d \in KeptDefinitions /\ Begins(d) /\ e \in CalledWithin(d) /\ s \in BodyOf(e) \cap DOMAIN SinkCategory
      /\ cleaned = Cleans(e, s)
  BY DEF FlowOf
<1>2. e \in KeptDefinitions /\ Comes(DOMAIN functions, CallEdgesOf, MaxCallDepth, QualifiedName(d), QualifiedName(e))
  BY <1>1, WithinIs
<1>3. PICK w : /\ CallWay(DOMAIN functions, CallEdgesOf, MaxCallDepth, w)
               /\ w[1] = QualifiedName(d) /\ Last(w) = QualifiedName(e)
  BY <1>2 DEF Comes
<1>4. PICK c : c \in SourcesGiven[w[1]]
  BY <1>1, <1>3, SourcesAre
<1>5. ~Waits(pending, w, c)
  BY DEF Waits
<1>6. SinksTold(SinksGiven, evidence, w)
  BY <1>3, <1>4, <1>5 DEF FlowInv, SearchKnown, Following
<1>7. s \in SinksGiven[Last(w)]
  BY <1>1, <1>2, <1>3, FunctionHas DEF SinksGiven
<1>8. PICK v \in evidence : v.path = w /\ v.sink = s
  BY <1>6, <1>7 DEF SinksTold
<1>9. v.sanitized = Cleans(e, s)
  <2>1. v.sanitized = (SinkCategory[s] \in Sanitizing(w))
    BY <1>8 DEF FlowInv
  <2>2. (SinkCategory[s] \in Sanitizing(w)) <=> Cleans(e, s)
    BY <1>2, <1>3, CleanedAre
  <2>3. Cleans(e, s) \in BOOLEAN
    BY DEF Cleans
  <2> QED
    BY <2>1, <2>2, <2>3
<1> QED
  BY <1>1, <1>3, <1>8, <1>9

LEMMA FlowsAreTold ==
  ASSUME FlowInv
  PROVE  FlowsTell
<1> SUFFICES ASSUME flowStage = "propagate", pending = {} PROVE FlowsTell
  BY DEF FlowsTell
<1> DEFINE told == {<<v.path[1], Last(v.path), v.sink, v.sanitized>> : v \in evidence}
           beginnings == {d \in KeptDefinitions : Begins(d)}
           meant == UNION {UNION {{<<QualifiedName(d), QualifiedName(e), s, Cleans(e, s)>> :
                                     s \in BodyOf(e) \cap DOMAIN SinkCategory} : e \in CalledWithin(d)} :
                           d \in beginnings}
<1>1. ASSUME NEW x \in told PROVE x \in meant
  <2>1. PICK v \in evidence : x = <<v.path[1], Last(v.path), v.sink, v.sanitized>>
    OBVIOUS
  <2>2. PICK d, e : /\ FlowOf(d, e, v.sink, v.sanitized)
                    /\ v.path[1] = QualifiedName(d) /\ Last(v.path) = QualifiedName(e)
    BY EvidenceIsFlow
  <2>3. x = <<QualifiedName(d), QualifiedName(e), v.sink, Cleans(e, v.sink)>>
    BY <2>1, <2>2 DEF FlowOf
  <2> QED
    BY <2>2, <2>3 DEF FlowOf
<1>2. ASSUME NEW x \in meant PROVE x \in told
  <2>1. PICK d \in beginnings : \E e \in CalledWithin(d) : \E s \in BodyOf(e) \cap DOMAIN SinkCategory :
                                    x = <<QualifiedName(d), QualifiedName(e), s, Cleans(e, s)>>
    OBVIOUS
  <2>2. PICK e \in CalledWithin(d) : \E s \in BodyOf(e) \cap DOMAIN SinkCategory :
                                    x = <<QualifiedName(d), QualifiedName(e), s, Cleans(e, s)>>
    BY <2>1
  <2>3. PICK s \in BodyOf(e) \cap DOMAIN SinkCategory : x = <<QualifiedName(d), QualifiedName(e), s, Cleans(e, s)>>
    BY <2>2
  <2>4. FlowOf(d, e, s, Cleans(e, s))
    BY DEF FlowOf
  <2>5. PICK v \in evidence : /\ v.path[1] = QualifiedName(d) /\ Last(v.path) = QualifiedName(e)
                              /\ v.sink = s /\ v.sanitized = Cleans(e, s)
    BY <2>4, FlowIsEvidence
  <2> QED
    BY <2>3, <2>5
<1>3. told = meant
  BY <1>1, <1>2
<1> QED
  BY <1>3 DEF FlowsTell, Begins, Cleans

(* Every reachable state of the analysis of the flows is typed, and when it *)
(* has ended it reports just the flows of the definitions that are kept:    *)
(* whatever the files hold, in whatever order they are walked and whatever  *)
(* cycles the calls close (SemanticModelBuilder, CallGraph2,                *)
(* InterproceduralEngine._propagate_taint).                                 *)
THEOREM FlowsAlwaysTold == FlowSpec => [](FlowTypeOK /\ FlowsTell)
<1>1. FlowInit => FlowInv
  BY FlowsBegin
<1>2. FlowInv /\ [FlowNext]_flowVars => FlowInv'
  BY FlowsKeep
<1>3. FlowInv => FlowTypeOK /\ FlowsTell
  BY FlowsTyped, FlowsAreTold
<1> QED
  BY <1>1, <1>2, <1>3, PTL DEF FlowSpec

-----------------------------------------------------------------------------
(* The attack paths.                                                        *)
Nodes == ToSet(GraphNodes)
PathLists == Seq(SimplePaths)
Steps == Len(GraphNodes)

LEMMA PathTypes ==
  /\ Steps \in Nat /\ GraphNodes \in [1..Steps -> Nodes] /\ DOMAIN GraphNodes = 1..Steps
  /\ \A i, j \in 1..Steps : GraphNodes[i] = GraphNodes[j] => i = j
  /\ \A n \in Nodes : \E i \in 1..Steps : GraphNodes[i] = n
  /\ NodeRisk \in [Nodes -> Nat] /\ MaxDepth \in Nat /\ MaxDepth > 0 /\ MaxPaths \in Nat /\ MaxPaths > 0
  /\ MaxResults \in Nat /\ MaxResults > 0
<1>1. GraphNodes \in Seq(Nodes) /\ IsInjective(GraphNodes)
  BY AttackPathsAssumption DEF Nodes
<1>2. /\ Steps \in Nat /\ GraphNodes \in [1..Steps -> Nodes] /\ DOMAIN GraphNodes = 1..Steps
  BY <1>1, LenProperties DEF Steps
<1>3. \A i, j \in 1..Steps : GraphNodes[i] = GraphNodes[j] => i = j
  BY <1>1, <1>2 DEF IsInjective
<1>4. \A n \in Nodes : \E i \in 1..Steps : GraphNodes[i] = n
  BY <1>2 DEF Nodes, ToSet
<1> QED
  BY <1>2, <1>3, <1>4, AttackPathsAssumption DEF Nodes

LEMMA SimplePathIs ==
  ASSUME NEW p
  PROVE  p \in SimplePaths <=> /\ p \in Seq(Nodes) /\ Len(p) \in 1..MaxDepth
                               /\ \A i, j \in 1..Len(p) : p[i] = p[j] => i = j
<1>1. ASSUME p \in SimplePaths
      PROVE  /\ p \in Seq(Nodes) /\ Len(p) \in 1..MaxDepth /\ \A i, j \in 1..Len(p) : p[i] = p[j] => i = j
  <2>1. PICK k \in 1..MaxDepth : p \in [1..k -> Nodes] /\ IsInjective(p)
    BY <1>1 DEF SimplePaths, Nodes
  <2>2. k \in Nat
    BY PathTypes
  <2>3. p \in Seq(Nodes) /\ Len(p) = k /\ DOMAIN p = 1..k
    BY <2>1, <2>2
  <2> QED
    BY <2>1, <2>3 DEF IsInjective
<1>2. ASSUME p \in Seq(Nodes), Len(p) \in 1..MaxDepth, \A i, j \in 1..Len(p) : p[i] = p[j] => i = j
      PROVE  p \in SimplePaths
  <2>1. p \in [1..Len(p) -> Nodes] /\ DOMAIN p = 1..Len(p)
    BY <1>2, LenProperties
  <2>2. IsInjective(p)
    BY <1>2, <2>1 DEF IsInjective
  <2> QED
    BY <1>2, <2>1, <2>2 DEF SimplePaths, Nodes
<1> QED
  BY <1>1, <1>2

(* A path goes on to the target: it is the beginning of one that leads there*)
(* over edges, through nodes that are left, and not through the target.     *)
GoesOnTo(p, q, target, gone) ==
    /\ q \in SimplePaths /\ Len(p) <= Len(q) /\ Last(q) = target
    /\ \A i \in 1..Len(p) : q[i] = p[i]
    /\ \A i \in 1..Len(q) : i > Len(p) => q[i] \notin gone
    /\ \A i \in 1..(Len(q) - 1) : i >= Len(p) => <<q[i], q[i + 1]>> \in links /\ q[i] # target

LEMMA LastNode ==
  ASSUME NEW p \in SimplePaths
  PROVE  /\ p \in Seq(Nodes) /\ Len(p) \in Nat /\ Len(p) > 0 /\ Len(p) <= MaxDepth /\ DOMAIN p = 1..Len(p)
         /\ Last(p) = p[Len(p)] /\ Last(p) \in Nodes
         /\ \A i \in 1..Len(p) : p[i] \in Nodes
         /\ \A i, j \in 1..Len(p) : p[i] = p[j] => i = j
<1>1. p \in Seq(Nodes) /\ Len(p) \in 1..MaxDepth /\ \A i, j \in 1..Len(p) : p[i] = p[j] => i = j
  BY SimplePathIs
<1>2. Len(p) \in Nat /\ DOMAIN p = 1..Len(p) /\ \A i \in 1..Len(p) : p[i] \in Nodes
  BY <1>1, LenProperties, ElementOfSeq
<1> QED
  BY <1>1, <1>2, PathTypes DEF Last

(* A step further.                                                          *)
LEMMA OneNodeMore ==
  ASSUME NEW p \in SimplePaths, Len(p) < MaxDepth, NEW gone, NEW x \in Neighbours(p, gone)
  PROVE  /\ Append(p, x) \in SimplePaths /\ Len(Append(p, x)) = Len(p) + 1
         /\ Append(p, x)[Len(p) + 1] = x /\ \A i \in 1..Len(p) : Append(p, x)[i] = p[i]
         /\ x \in Nodes /\ x \notin gone /\ <<p[Len(p)], x>> \in links
<1> DEFINE q == Append(p, x)
<1>1. x \in Nodes /\ x \notin gone /\ x \notin ToSet(p) /\ <<p[Len(p)], x>> \in links
  BY LastNode DEF Neighbours, Left, Nodes
<1>2. /\ q \in Seq(Nodes) /\ Len(q) = Len(p) + 1 /\ q[Len(p) + 1] = x
      /\ \A i \in 1..Len(p) : q[i] = p[i]
  BY <1>1, LastNode, AppendProperties
<1>3. \A i \in 1..Len(p) : p[i] # x
  BY <1>1, LastNode DEF ToSet
<1> HIDE DEF q
<1>4. ASSUME NEW i \in 1..Len(q), NEW j \in 1..Len(q), q[i] = q[j] PROVE i = j
  <2>1. \A k \in 1..Len(q) : k \in 1..Len(p) \/ k = Len(p) + 1
    BY <1>2, LastNode
  <2> QED
    BY <2>1, <1>2, <1>3, <1>4, LastNode
<1>5. Len(q) \in 1..MaxDepth
  <2>1. Len(p) \in Nat /\ Len(p) < MaxDepth /\ MaxDepth \in Nat
    BY LastNode, PathTypes
  <2> QED
    BY ONLY <2>1, <1>2
<1>6. q \in SimplePaths
  BY <1>2, <1>4, <1>5, SimplePathIs
<1> QED
  BY <1>1, <1>2, <1>6 DEF q

LEMMA GoesOnOverNeighbour ==
  ASSUME NEW p \in SimplePaths, Len(p) < MaxDepth, NEW target, NEW gone, Last(p) # target,
         NEW x \in Neighbours(p, gone), NEW q, GoesOnTo(Append(p, x), q, target, gone)
  PROVE  GoesOnTo(p, q, target, gone) /\ q[Len(p) + 1] = x
<1> DEFINE a == Append(p, x)
<1>1. /\ a \in SimplePaths /\ Len(a) = Len(p) + 1 /\ a[Len(p) + 1] = x
      /\ \A i \in 1..Len(p) : a[i] = p[i]
      /\ x \notin gone /\ <<p[Len(p)], x>> \in links
  BY OneNodeMore
<1>2. /\ q \in SimplePaths /\ Len(a) <= Len(q) /\ Last(q) = target
      /\ \A i \in 1..Len(a) : q[i] = a[i]
      /\ \A i \in 1..Len(q) : i > Len(a) => q[i] \notin gone
      /\ \A i \in 1..(Len(q) - 1) : i >= Len(a) => <<q[i], q[i + 1]>> \in links /\ q[i] # target
  BY DEF GoesOnTo
<1> HIDE DEF a
<1>3. Len(p) \in Nat /\ Len(p) > 0 /\ Len(q) \in Nat /\ p[Len(p)] # target
  BY <1>2, LastNode
<1>4. q[Len(p) + 1] = x /\ \A i \in 1..Len(p) : q[i] = p[i]
  BY <1>1, <1>2, <1>3
<1>5. ASSUME NEW i \in 1..Len(q), i > Len(p) PROVE q[i] \notin gone
  <2>1. i = Len(p) + 1 \/ i > Len(a)
    BY <1>1, <1>3, <1>5
  <2> QED
    BY <2>1, <1>1, <1>2, <1>4
<1>6. ASSUME NEW i \in 1..(Len(q) - 1), i >= Len(p) PROVE <<q[i], q[i + 1]>> \in links /\ q[i] # target
  <2>1. i = Len(p) \/ i >= Len(a)
    BY <1>1, <1>3, <1>6
  <2>2. CASE i = Len(p)
    <3>1. q[i] = p[Len(p)] /\ q[i + 1] = x
      BY <2>2, <1>3, <1>4
    <3> QED
      BY <3>1, <1>1, <1>3
  <2> QED
    BY <2>1, <2>2, <1>2
<1> QED
  BY <1>1, <1>2, <1>3, <1>4, <1>5, <1>6 DEF GoesOnTo

LEMMA GoesOnSomewhere ==
  ASSUME NEW p \in SimplePaths, NEW target, NEW gone, Last(p) # target,
         NEW q, GoesOnTo(p, q, target, gone)
  PROVE  /\ Len(p) < MaxDepth /\ q[Len(p) + 1] \in Neighbours(p, gone)
         /\ GoesOnTo(Append(p, q[Len(p) + 1]), q, target, gone)
<1>1. /\ q \in SimplePaths /\ Len(p) <= Len(q) /\ Last(q) = target
      /\ \A i \in 1..Len(p) : q[i] = p[i]
      /\ \A i \in 1..Len(q) : i > Len(p) => q[i] \notin gone
      /\ \A i \in 1..(Len(q) - 1) : i >= Len(p) => <<q[i], q[i + 1]>> \in links /\ q[i] # target
  BY DEF GoesOnTo
<1>2. /\ Len(p) \in Nat /\ Len(p) > 0 /\ Last(p) = p[Len(p)] /\ DOMAIN p = 1..Len(p) /\ p \in Seq(Nodes)
      /\ Len(q) \in Nat /\ Len(q) <= MaxDepth /\ Last(q) = q[Len(q)]
      /\ \A i \in 1..Len(q) : q[i] \in Nodes
      /\ \A i, j \in 1..Len(q) : q[i] = q[j] => i = j
  BY <1>1, LastNode
<1>3. Len(p) < Len(q)
  <2> SUFFICES ASSUME Len(p) = Len(q) PROVE FALSE
    BY <1>1, <1>2
  <2> QED
    BY <1>1, <1>2
<1> DEFINE x == q[Len(p) + 1]
<1>4. Len(p) + 1 \in 1..Len(q) /\ Len(p) \in 1..(Len(q) - 1) /\ Len(p) \in 1..Len(p)
  BY <1>2, <1>3
<1>5. x \in Nodes /\ x \notin gone /\ <<p[Len(p)], x>> \in links
  BY <1>1, <1>2, <1>4
<1>6. x \notin ToSet(p)
  <2> SUFFICES ASSUME NEW i \in 1..Len(p), p[i] = x PROVE FALSE
    BY <1>2 DEF ToSet
  <2>1. i \in 1..Len(q) /\ q[i] = q[Len(p) + 1] /\ i # Len(p) + 1
    BY <1>1, <1>2, <1>3
  <2> QED
    BY <2>1, <1>2, <1>4
<1>7. x \in Neighbours(p, gone)
  BY <1>2, <1>5, <1>6 DEF Neighbours, Left, Nodes
<1>8. Len(p) < MaxDepth
  BY <1>2, <1>3, PathTypes
<1>9. /\ Len(Append(p, x)) = Len(p) + 1 /\ Append(p, x)[Len(p) + 1] = x
      /\ \A i \in 1..Len(p) : Append(p, x)[i] = p[i]
  BY <1>7, <1>8, OneNodeMore
<1>10. \A i \in 1..(Len(p) + 1) : q[i] = Append(p, x)[i]
  <2> SUFFICES ASSUME NEW i \in 1..(Len(p) + 1) PROVE q[i] = Append(p, x)[i]
    OBVIOUS
  <2>1. i \in 1..Len(p) \/ i = Len(p) + 1
    BY <1>2
  <2> QED
    BY <2>1, <1>1, <1>9
<1> HIDE DEF x
<1>11. GoesOnTo(Append(p, x), q, target, gone)
  BY <1>1, <1>2, <1>3, <1>9, <1>10 DEF GoesOnTo
<1> QED
  BY <1>7, <1>8, <1>11 DEF x

-----------------------------------------------------------------------------
(* The search from a path.                                                  *)

(* What has been found after each neighbour.                                *)
FindsInTurn(p, f, gone, h) ==
    /\ h \in [0..Steps -> PathLists] /\ h[0] = << >> /\ FoundBeyond(p, f, gone) = h[Steps]
    /\ \A n \in 1..Steps : h[n] = IF Enough(h[n - 1]) \/ GraphNodes[n] \notin Neighbours(p, gone) THEN h[n - 1]
                                  ELSE h[n - 1] \o f[Append(p, GraphNodes[n])]

LEMMA FoundBeyondIs ==
  ASSUME NEW f, NEW p \in SimplePaths, Len(p) < MaxDepth, NEW gone,
         \A q \in SimplePaths : Len(q) > Len(p) => f[q] \in PathLists
  PROVE  \E h : FindsInTurn(p, f, gone, h)
<1> DEFINE More(n, s) == IF Enough(s) \/ GraphNodes[n] \notin Neighbours(p, gone) THEN s
                         ELSE s \o f[Append(p, GraphNodes[n])]
           F == [n \in 1..Steps |-> [s \in PathLists |-> More(n, s)]]
           Is(h) == h = [n \in 0..Steps |-> IF n = 0 THEN << >> ELSE More(n, h[n - 1])]
<1>0. ASSUME NEW x \in Neighbours(p, gone)
      PROVE  Append(p, x) \in SimplePaths /\ Len(Append(p, x)) = Len(p) + 1
  BY <1>0, OneNodeMore, Zenon
<1>1. ASSUME NEW n \in 1..Steps, NEW s \in PathLists PROVE More(n, s) \in PathLists
  <2>1. CASE GraphNodes[n] \in Neighbours(p, gone)
    <3>1. f[Append(p, GraphNodes[n])] \in PathLists
      <4>1. Append(p, GraphNodes[n]) \in SimplePaths /\ Len(Append(p, GraphNodes[n])) = Len(p) + 1
        BY <1>0, <2>1
      <4>2. Len(p) \in Nat
        BY LastNode
      <4>3. PICK a : a = Append(p, GraphNodes[n])
        OBVIOUS
      <4>4. a \in SimplePaths /\ Len(a) = Len(p) + 1
        BY ONLY <4>1, <4>3
      <4>5. Len(a) > Len(p)
        BY ONLY <4>2, <4>4
      <4>6. f[a] \in PathLists
        BY <4>4, <4>5
      <4> QED
        BY ONLY <4>3, <4>6
    <3> QED
      BY <3>1, ConcatProperties DEF PathLists
  <2> QED
    BY <2>1
<1>2. F \in [1..Steps -> [PathLists -> PathLists]]
  BY <1>1
<1>3. << >> \in PathLists
  BY DEF PathLists
<1>4. PICK h \in [0..Steps -> PathLists] : h[0] = << >> /\ \A n \in 1..Steps : h[n] = F[n][h[n - 1]]
  <2> HIDE DEF F
  <2>1. Steps \in Nat
    BY PathTypes
  <2>2. \E h : Loops(Steps, PathLists, << >>, F, h)
    BY <1>2, <1>3, <2>1, LoopExists
  <2> QED
    BY <2>2 DEF Loops
<1>5. \A n \in 1..Steps : n - 1 \in 0..Steps /\ h[n] = More(n, h[n - 1])
  <2> SUFFICES ASSUME NEW n \in 1..Steps PROVE n - 1 \in 0..Steps /\ h[n] = More(n, h[n - 1])
    OBVIOUS
  <2>1. n - 1 \in 0..Steps
    BY PathTypes
  <2>2. h[n - 1] \in PathLists
    BY <2>1
  <2> QED
    BY <2>1, <2>2, <1>4
<1> HIDE DEF More
<1>6. Is(h)
  <2>1. \A n \in 0..Steps : h[n] = IF n = 0 THEN << >> ELSE More(n, h[n - 1])
    BY <1>4, <1>5, PathTypes
  <2> QED
    BY <2>1
<1>7. PICK c : c = CHOOSE d : Is(d)
  OBVIOUS
<1>8. Is(c) /\ FoundBeyond(p, f, gone) = c[Steps]
  <2>1. FoundBeyond(p, f, gone) = (CHOOSE d : Is(d))[Steps]
    BY DEF FoundBeyond, Steps, More
  <2> HIDE DEF Is
  <2> QED
    BY <2>1, <1>6, <1>7
<1>9. c[0] = << >> /\ \A n \in 1..Steps : c[n] = More(n, c[n - 1])
  <2>1. 0 \in 0..Steps /\ \A n \in 1..Steps : n \in 0..Steps /\ n # 0
    BY PathTypes
  <2> QED
    BY <2>1, <1>8
<1>10. \A n \in 0..Steps : c[n] \in PathLists
  <2> SUFFICES ASSUME NEW n \in 0..Steps PROVE c[n] \in PathLists
    OBVIOUS
  <2> DEFINE G == {k \in 0..n : c[k] \in PathLists}
  <2>1. n \in Nat /\ 0 \in 0..n /\ \A k \in 1..n : k \in 1..Steps /\ k \in 0..n
    BY PathTypes
  <2>2. 0 \in G
    BY <2>1, <1>3, <1>9
  <2>3. \A k \in 1..n : k - 1 \in G => k \in G
    BY <2>1, <1>1, <1>9
  <2> HIDE DEF G
  <2>4. n \in G
    BY <2>1, <2>2, <2>3, CountTo
  <2> QED
    BY <2>4 DEF G
<1>11. c \in [0..Steps -> PathLists]
  BY <1>8, <1>10
<1>12. FindsInTurn(p, f, gone, c)
  BY <1>8, <1>9, <1>11 DEF More, FindsInTurn
<1> QED
  BY <1>12

(* It asks only what was found from the neighbours.                         *)
LEMMA FoundBeyondAsks ==
  ASSUME NEW f, NEW g, NEW p \in SimplePaths, Len(p) < MaxDepth, NEW gone,
         \A q \in SimplePaths : Len(q) > Len(p) => f[q] \in PathLists /\ f[q] = g[q]
  PROVE  FoundBeyond(p, f, gone) = FoundBeyond(p, g, gone)
<1>0. p \in SimplePaths /\ Len(p) < MaxDepth /\ Len(p) \in Nat
  BY LastNode
<1>1. PICK h : FindsInTurn(p, f, gone, h)
  BY FoundBeyondIs
<1>2. PICK k : FindsInTurn(p, g, gone, k)
  BY FoundBeyondIs
<1> DEFINE G == {n \in 0..Steps : k[n] = h[n]}
<1>3. 0 \in G
  BY <1>1, <1>2, PathTypes DEF FindsInTurn
<1>4. ASSUME NEW n \in 1..Steps, n - 1 \in G PROVE n \in G
  <2>1. n \in 0..Steps /\ k[n - 1] = h[n - 1]
    BY <1>4, PathTypes
  <2>2. ASSUME GraphNodes[n] \in Neighbours(p, gone)
        PROVE  f[Append(p, GraphNodes[n])] = g[Append(p, GraphNodes[n])]
    <3>1. PICK x : x = GraphNodes[n]
      OBVIOUS
    <3>2. Append(p, x) \in SimplePaths /\ Len(Append(p, x)) = Len(p) + 1
      BY <1>0, <2>2, <3>1, OneNodeMore, Zenon
    <3>3. Len(Append(p, x)) > Len(p)
      BY ONLY <1>0, <3>2
    <3> QED
      BY <3>1, <3>2, <3>3
  <2> QED
    BY <2>1, <2>2, <1>1, <1>2 DEF FindsInTurn
<1> HIDE DEF G
<1>5. Steps \in G
  BY <1>3, <1>4, CountTo, PathTypes
<1> QED
  BY <1>1, <1>2, <1>5 DEF G, FindsInTurn

(* What is found from a path, given what is found from longer ones.         *)
FindsNow(p, f, target, gone) ==
    IF Last(p) = target THEN <<p>> ELSE IF Len(p) >= MaxDepth THEN << >> ELSE FoundBeyond(p, f, gone)
IsSearch(f, target, gone) == f = [p \in SimplePaths |-> FindsNow(p, f, target, gone)]

LEMMA FindsPaths ==
  ASSUME NEW f, NEW p \in SimplePaths, NEW target, NEW gone,
         \A q \in SimplePaths : Len(q) > Len(p) => f[q] \in PathLists
  PROVE  FindsNow(p, f, target, gone) \in PathLists
<1>1. CASE Last(p) = target
  BY <1>1 DEF FindsNow, PathLists
<1>2. CASE Last(p) # target /\ Len(p) >= MaxDepth
  BY <1>2 DEF FindsNow, PathLists
<1>3. CASE Last(p) # target /\ ~(Len(p) >= MaxDepth)
  <2>1. Len(p) < MaxDepth
    BY <1>3, LastNode, PathTypes
  <2>2. PICK h : FindsInTurn(p, f, gone, h)
    BY <2>1, FoundBeyondIs
  <2>3. FoundBeyond(p, f, gone) \in PathLists
    BY <2>2, PathTypes DEF FindsInTurn
  <2> QED
    BY <1>3, <2>3 DEF FindsNow
<1> QED
  BY <1>1, <1>2, <1>3

LEMMA FindsTheSame ==
  ASSUME NEW f, NEW g, NEW p \in SimplePaths, NEW target, NEW gone,
         \A q \in SimplePaths : Len(q) > Len(p) => f[q] \in PathLists /\ f[q] = g[q]
  PROVE  FindsNow(p, f, target, gone) = FindsNow(p, g, target, gone)
<1>1. CASE Len(p) < MaxDepth
  BY <1>1, FoundBeyondAsks DEF FindsNow
<1>2. CASE ~(Len(p) < MaxDepth)
  BY <1>2, LastNode, PathTypes DEF FindsNow
<1> QED
  BY <1>1, <1>2

LEMMA SearchExists ==
  ASSUME NEW target, NEW gone
  PROVE  \E f : IsSearch(f, target, gone)
<1> DEFINE Deep(m, f) == \A p \in SimplePaths : Len(p) + m > MaxDepth =>
                            f[p] = FindsNow(p, f, target, gone) /\ f[p] \in PathLists
           G == {m \in Nat : \E f : f = [p \in SimplePaths |-> f[p]] /\ Deep(m, f)}
<1>0. MaxDepth \in Nat /\ \A p \in SimplePaths : Len(p) \in Nat /\ Len(p) > 0
  BY LastNode, PathTypes
<1>1. ASSUME NEW m \in Nat, \A k \in Nat : k < m => k \in G PROVE m \in G
  <2>1. CASE m = 0
    <3> DEFINE f == [p \in SimplePaths |-> << >>]
    <3>1. \A p \in SimplePaths : ~(Len(p) + 0 > MaxDepth)
      BY LastNode, <1>0
    <3>2. Deep(0, f)
      BY <3>1
    <3>3. f = [p \in SimplePaths |-> f[p]]
      OBVIOUS
    <3> HIDE DEF f, Deep
    <3> QED
      BY <2>1, <3>2, <3>3
  <2>2. CASE m # 0
    <3>1. m - 1 \in Nat /\ m - 1 < m
      BY <2>2
    <3>2. PICK f : f = [p \in SimplePaths |-> f[p]] /\ Deep(m - 1, f)
      BY <1>1, <3>1
    <3> DEFINE h == [p \in SimplePaths |-> IF Len(p) + (m - 1) > MaxDepth THEN f[p] ELSE FindsNow(p, f, target, gone)]
    <3>3. ASSUME NEW p \in SimplePaths, Len(p) + m > MaxDepth
          PROVE  h[p] = FindsNow(p, h, target, gone) /\ h[p] \in PathLists
      <4>1. ASSUME NEW q \in SimplePaths, Len(q) > Len(p) PROVE f[q] \in PathLists /\ f[q] = h[q]
        <5>1. Len(q) + (m - 1) > MaxDepth
          BY <1>0, <3>3, <4>1
        <5> QED
          BY <5>1, <3>2
      <4>2. h[p] = FindsNow(p, f, target, gone)
        BY <3>2
      <4> HIDE DEF h, Deep
      <4>3. FindsNow(p, f, target, gone) = FindsNow(p, h, target, gone)
        BY <4>1, FindsTheSame
      <4>4. FindsNow(p, f, target, gone) \in PathLists
        BY <4>1, FindsPaths
      <4> QED
        BY <4>2, <4>3, <4>4
    <3>4. h = [p \in SimplePaths |-> h[p]]
      OBVIOUS
    <3>5. Deep(m, h)
      <4> HIDE DEF h
      <4> QED
        BY <3>3
    <3> HIDE DEF h, Deep
    <3> QED
      BY <3>4, <3>5
  <2> QED
    BY <2>1, <2>2
<1> HIDE DEF G
<1>2. MaxDepth \in G
  BY <1>0, <1>1, CountUp
<1>3. PICK f : f = [p \in SimplePaths |-> f[p]] /\ Deep(MaxDepth, f)
  BY <1>2 DEF G
<1>4. \A p \in SimplePaths : f[p] = FindsNow(p, f, target, gone)
  BY <1>0, <1>3
<1>5. IsSearch(f, target, gone)
  BY <1>3, <1>4 DEF IsSearch
<1> QED
  BY <1>5

LEMMA SearchIs ==
  ASSUME NEW target, NEW gone
  PROVE  \A p \in SimplePaths : /\ DfsFindPaths(target, gone)[p] = FindsNow(p, DfsFindPaths(target, gone), target, gone)
                                /\ DfsFindPaths(target, gone)[p] \in PathLists
<1>1. DfsFindPaths(target, gone) = CHOOSE f : IsSearch(f, target, gone)
  BY DEF DfsFindPaths, IsSearch, FindsNow
<1>2. IsSearch(DfsFindPaths(target, gone), target, gone)
  BY <1>1, SearchExists
<1> DEFINE f == DfsFindPaths(target, gone)
<1>3. \A p \in SimplePaths : f[p] = FindsNow(p, f, target, gone)
  <2> HIDE DEF f
  <2>1. IsSearch(f, target, gone)
    BY <1>2 DEF f
  <2> QED
    BY <2>1 DEF IsSearch
<1> HIDE DEF f
<1> DEFINE G == {m \in Nat : \A p \in SimplePaths : Len(p) + m > MaxDepth => f[p] \in PathLists}
<1>0. MaxDepth \in Nat /\ \A p \in SimplePaths : Len(p) \in Nat /\ Len(p) > 0 /\ Len(p) <= MaxDepth
  BY LastNode, PathTypes
<1>4. ASSUME NEW m \in Nat, \A k \in Nat : k < m => k \in G PROVE m \in G
  <2> SUFFICES ASSUME NEW p \in SimplePaths, Len(p) + m > MaxDepth PROVE f[p] \in PathLists
    OBVIOUS
  <2>1. m - 1 \in Nat /\ m - 1 < m
    BY <1>0
  <2>2. ASSUME NEW q \in SimplePaths, Len(q) > Len(p) PROVE f[q] \in PathLists
    <3>1. Len(q) + (m - 1) > MaxDepth
      BY <1>0, <2>2
    <3> QED
      BY <3>1, <2>1, <1>4
  <2> HIDE DEF G
  <2> QED
    BY <2>2, <1>3, FindsPaths
<1> HIDE DEF G
<1>5. MaxDepth \in G
  BY <1>0, <1>4, CountUp
<1> QED
  BY <1>0, <1>3, <1>5 DEF G, f
(* What is found from a path leads from it to the target, no path is found  *)
(* twice, and something is found if there is anything.                      *)
FoundRight(p, s, target, gone) ==
    /\ IsInjective(s) /\ \A q \in Range(s) : GoesOnTo(p, q, target, gone)
    /\ \A q : GoesOnTo(p, q, target, gone) => Len(s) > 0

LEMMA BeyondRight ==
  ASSUME NEW f, NEW p \in SimplePaths, Len(p) < MaxDepth, NEW target, NEW gone, Last(p) # target,
         \A q \in SimplePaths : Len(q) > Len(p) => f[q] \in PathLists /\ FoundRight(q, f[q], target, gone)
  PROVE  FoundRight(p, FoundBeyond(p, f, gone), target, gone)
<1> DEFINE Then(q) == q[Len(p) + 1]
           To(q) == GoesOnTo(p, q, target, gone)
           J(n, s) == /\ IsInjective(s)
                      /\ \A q \in Range(s) : To(q) /\ \E k \in 1..n : Then(q) = GraphNodes[k]
                      /\ \A q : To(q) /\ (\E k \in 1..n : Then(q) = GraphNodes[k]) => Len(s) > 0
<1>0. Len(p) \in Nat /\ Steps \in Nat
  BY LastNode, PathTypes
<1>1. PICK h : FindsInTurn(p, f, gone, h)
  BY FoundBeyondIs
<1>2. ASSUME NEW n \in Nat, n > 0, n <= Steps, J(n - 1, h[n - 1]) PROVE J(n, h[n])
  <2>0. n - 1 \in 0..Steps /\ n \in 1..Steps /\ n - 1 \in Nat
    BY <1>2, <1>0
  <2>1. h[n - 1] \in PathLists /\ Len(h[n - 1]) \in Nat
    BY <2>0, <1>1, LenProperties DEF FindsInTurn, PathLists
  <2>2. PICK x : x = GraphNodes[n]
    OBVIOUS
  <2>3. \A k \in 1..n : k \in 1..(n - 1) \/ GraphNodes[k] = x
    BY <2>0, <2>2
  <2>4. \A k \in 1..(n - 1) : k \in 1..n /\ GraphNodes[k] # x
    <3>1. \A k \in 1..(n - 1) : k \in 1..n /\ k \in 1..Steps /\ k # n
      BY <2>0, <1>0
    <3> QED
      BY <3>1, <2>0, <2>2, PathTypes
  <2>5. h[n] = IF Enough(h[n - 1]) \/ x \notin Neighbours(p, gone) THEN h[n - 1]
               ELSE h[n - 1] \o f[Append(p, x)]
    BY <2>0, <2>2, <1>1 DEF FindsInTurn
  <2>6. \A q : To(q) => Then(q) \in Neighbours(p, gone) /\ GoesOnTo(Append(p, Then(q)), q, target, gone)
    BY GoesOnSomewhere
  <2>7. CASE Enough(h[n - 1]) \/ x \notin Neighbours(p, gone)
    <3>1. h[n] = h[n - 1]
      BY <2>5, <2>7
    <3>2. \A q \in Range(h[n]) : To(q) /\ \E k \in 1..n : Then(q) = GraphNodes[k]
      <4> HIDE DEF To, Then
      <4> QED
        BY <3>1, <1>2, <2>4
    <3>3. ASSUME NEW q, To(q), \E k \in 1..n : Then(q) = GraphNodes[k] PROVE Len(h[n]) > 0
      <4>1. CASE Enough(h[n - 1])
        BY <4>1, <2>1, <3>1, PathTypes DEF Enough
      <4>2. CASE x \notin Neighbours(p, gone)
        <5>1. Then(q) # x
          BY <4>2, <3>3, <2>6
        <5>2. \E k \in 1..(n - 1) : Then(q) = GraphNodes[k]
          BY <5>1, <3>3, <2>3
        <5> HIDE DEF To, Then
        <5> QED
          BY <5>2, <3>1, <3>3, <1>2
      <4> QED
        BY <4>1, <4>2, <2>7
    <3>4. IsInjective(h[n])
      BY <3>1, <1>2
    <3> HIDE DEF To, Then
    <3> QED
      BY <3>2, <3>3, <3>4
  <2>8. CASE ~(Enough(h[n - 1]) \/ x \notin Neighbours(p, gone))
    <3>0. x \in Neighbours(p, gone)
      BY <2>8
    <3>1. PICK a : a = Append(p, x)
      OBVIOUS
    <3>2. a \in SimplePaths /\ Len(a) = Len(p) + 1
      BY <3>0, <3>1, OneNodeMore
    <3>3. Len(a) > Len(p)
      BY ONLY <3>2, <1>0
    <3>4. PICK s : s = f[a]
      OBVIOUS
    <3>5. s \in PathLists /\ FoundRight(a, s, target, gone)
      BY <3>2, <3>3, <3>4
    <3>6. h[n] = h[n - 1] \o s
      BY <2>5, <2>8, <3>1, <3>4
    <3>7. \A q : GoesOnTo(a, q, target, gone) => To(q) /\ Then(q) = x
      BY <3>0, <3>1, GoesOnOverNeighbour
    <3> HIDE DEF To, Then
    <3>8. \A q \in Range(s) : To(q) /\ Then(q) = x
      BY <3>5, <3>7 DEF FoundRight
    <3>9. \A q \in Range(h[n - 1]) : To(q) /\ \E k \in 1..(n - 1) : Then(q) = GraphNodes[k]
      BY <1>2
    <3>10. Range(h[n - 1]) \cap Range(s) = {}
      <4> SUFFICES ASSUME NEW q \in Range(h[n - 1]), q \in Range(s) PROVE FALSE
        OBVIOUS
      <4>1. PICK k \in 1..(n - 1) : Then(q) = GraphNodes[k]
        BY <3>9
      <4> QED
        BY <4>1, <3>8, <2>4
    <3>11. IsInjective(h[n - 1]) /\ IsInjective(s)
      BY <1>2, <3>5 DEF FoundRight
    <3>12. /\ Len(h[n]) = Len(h[n - 1]) + Len(s) /\ Range(h[n]) = Range(h[n - 1]) \cup Range(s)
           /\ IsInjective(h[n])
      BY <2>1, <3>5, <3>6, <3>10, <3>11, OneAfterAnother DEF PathLists
    <3>13. \A q \in Range(h[n]) : To(q) /\ \E k \in 1..n : Then(q) = GraphNodes[k]
      <4> SUFFICES ASSUME NEW q \in Range(h[n]) PROVE To(q) /\ \E k \in 1..n : Then(q) = GraphNodes[k]
        OBVIOUS
      <4>1. CASE q \in Range(s)
        <5>1. n \in 1..n
          BY <2>0
        <5> QED
          BY <4>1, <5>1, <3>8, <2>2
      <4>2. CASE q \in Range(h[n - 1])
        BY <4>2, <3>9, <2>4
      <4> QED
        BY <4>1, <4>2, <3>12
    <3>14. ASSUME NEW q, To(q), \E k \in 1..n : Then(q) = GraphNodes[k] PROVE Len(h[n]) > 0
      <4>0. Len(s) \in Nat
        BY <3>5, LenProperties DEF PathLists
      <4>1. CASE Then(q) = x
        <5>1. GoesOnTo(a, q, target, gone)
          BY <4>1, <3>1, <3>14, <2>6
        <5>2. Len(s) > 0
          BY <5>1, <3>5 DEF FoundRight
        <5> QED
          BY <5>2, <4>0, <2>1, <3>12
      <4>2. CASE Then(q) # x
        <5>1. \E k \in 1..(n - 1) : Then(q) = GraphNodes[k]
          BY <4>2, <3>14, <2>3
        <5>2. Len(h[n - 1]) > 0
          BY <5>1, <3>14, <1>2
        <5> QED
          BY <5>2, <4>0, <2>1, <3>12
      <4> QED
        BY <4>1, <4>2
    <3> QED
      BY <3>12, <3>13, <3>14
  <2> QED
    BY <2>7, <2>8
<1>3. J(0, h[0])
  <2>1. h[0] = << >>
    BY <1>1 DEF FindsInTurn
  <2>2. IsInjective(<< >>) /\ Range(<< >>) = {}
    BY DEF IsInjective, Range
  <2>3. 1..0 = {}
    OBVIOUS
  <2> QED
    BY <2>1, <2>2, <2>3
<1> HIDE DEF J
<1> DEFINE G == {n \in 0..Steps : J(n, h[n])}
<1>4. 0 \in G
  BY <1>0, <1>3
<1>11. ASSUME NEW n \in 1..Steps, n - 1 \in G PROVE n \in G
  <2>1. n \in Nat /\ n > 0 /\ n <= Steps /\ n \in 0..Steps
    BY <1>0
  <2> QED
    BY <2>1, <1>2, <1>11
<1> HIDE DEF G
<1>5. Steps \in G
  BY <1>0, <1>4, <1>11, CountTo
<1>6. J(Steps, h[Steps])
  BY <1>0, <1>5 DEF G
<1>7. \A q : To(q) => \E k \in 1..Steps : Then(q) = GraphNodes[k]
  <2> SUFFICES ASSUME NEW q, To(q) PROVE \E k \in 1..Steps : Then(q) = GraphNodes[k]
    OBVIOUS
  <2>1. Then(q) \in Neighbours(p, gone)
    BY GoesOnSomewhere
  <2>2. Then(q) \in Nodes
    BY <2>1 DEF Neighbours, Left, Nodes
  <2> QED
    BY <2>2, PathTypes
<1>8. FoundBeyond(p, f, gone) = h[Steps]
  BY <1>1 DEF FindsInTurn
<1>9. IsInjective(h[Steps]) /\ \A q \in Range(h[Steps]) : To(q)
  BY <1>6 DEF J
<1>10. \A q : To(q) => Len(h[Steps]) > 0
  <2> HIDE DEF To, Then
  <2> QED
    BY <1>6, <1>7 DEF J
<1> QED
  BY <1>8, <1>9, <1>10 DEF FoundRight

LEMMA SearchFinds ==
  ASSUME NEW target, NEW gone
  PROVE  \A p \in SimplePaths : FoundRight(p, DfsFindPaths(target, gone)[p], target, gone)
<1>1. PICK f : f = DfsFindPaths(target, gone)
  OBVIOUS
<1>2. \A p \in SimplePaths : f[p] = FindsNow(p, f, target, gone) /\ f[p] \in PathLists
  BY <1>1, SearchIs
<1> DEFINE Right(p) == FoundRight(p, f[p], target, gone)
           G == {m \in Nat : \A p \in SimplePaths : Len(p) + m > MaxDepth => Right(p)}
<1>0. MaxDepth \in Nat /\ \A p \in SimplePaths : Len(p) \in Nat /\ Len(p) > 0 /\ Len(p) <= MaxDepth
  BY LastNode, PathTypes
<1>3. ASSUME NEW m \in Nat, \A k \in Nat : k < m => k \in G PROVE m \in G
  <2> SUFFICES ASSUME NEW p \in SimplePaths, Len(p) + m > MaxDepth PROVE Right(p)
    OBVIOUS
  <2>1. m - 1 \in Nat /\ m - 1 < m
    BY <1>0
  <2>2. ASSUME NEW q \in SimplePaths, Len(q) > Len(p) PROVE Right(q)
    <3>1. Len(q) + (m - 1) > MaxDepth
      BY <1>0, <2>2
    <3> QED
      BY <3>1, <2>1, <1>3
  <2> HIDE DEF G
  <2>6. f[p] = FindsNow(p, f, target, gone)
    BY <1>2
  <2>7. Len(p) >= MaxDepth <=> ~(Len(p) < MaxDepth)
    BY <1>0
  <2>3. CASE Last(p) = target
    <3>1. f[p] = <<p>>
      BY <2>3, <1>2 DEF FindsNow
    <3>2. IsInjective(<<p>>) /\ Range(<<p>>) = {p} /\ Len(<<p>>) = 1
      BY DEF IsInjective, Range
    <3>3. GoesOnTo(p, p, target, gone)
      BY <2>3, <1>0 DEF GoesOnTo
    <3> QED
      BY <3>1, <3>2, <3>3 DEF FoundRight
  <2>4. CASE Last(p) # target /\ ~(Len(p) < MaxDepth)
    <3>1. f[p] = << >>
      BY <2>4, <2>6, <2>7 DEF FindsNow
    <3>2. IsInjective(<< >>) /\ Range(<< >>) = {}
      BY DEF IsInjective, Range
    <3>3. \A q : ~GoesOnTo(p, q, target, gone)
      BY <2>4, GoesOnSomewhere
    <3> QED
      BY <3>1, <3>2, <3>3 DEF FoundRight
  <2>5. CASE Last(p) # target /\ Len(p) < MaxDepth
    <3>1. f[p] = FoundBeyond(p, f, gone)
      BY <2>5, <2>6, <2>7 DEF FindsNow
    <3>2. \A q \in SimplePaths : Len(q) > Len(p) => f[q] \in PathLists /\ FoundRight(q, f[q], target, gone)
      BY <2>2, <1>2
    <3>3. FoundRight(p, FoundBeyond(p, f, gone), target, gone)
      BY <3>2, <2>5, BeyondRight
    <3> QED
      BY <3>1, <3>3
  <2> QED
    BY <2>3, <2>4, <2>5
<1> HIDE DEF G
<1>4. MaxDepth \in G
  BY <1>0, <1>3, CountUp
<1> QED
  BY <1>0, <1>1, <1>4 DEF G

-----------------------------------------------------------------------------
(* Path after path: what is told of some pairs of an entry and an asset.    *)

(* What is taken of the paths found is some of them, and one at least.      *)
Takes(w, found) ==
    /\ w \in PathLists /\ Range(w) \subseteq Range(found) /\ (IsInjective(found) => IsInjective(w))
    /\ (Len(found) > 0 => Range(w) # {})

LEMMA TakesSome ==
  ASSUME NEW paths \in PathLists, NEW found \in PathLists
  PROVE  \E w : Takes(w, found) /\ UpToLimit(paths, found) = paths \o w
<1> DEFINE room == IF Len(paths) < MaxPaths THEN MaxPaths - Len(paths) ELSE 1
           k == IF room < Len(found) THEN room ELSE Len(found)
           w == SubSeq(found, 1, k)
<1>1. Len(paths) \in Nat /\ Len(found) \in Nat
  BY LenProperties DEF PathLists
<1>2. room \in Nat /\ room > 0
  BY <1>1, PathTypes
<1>3. UpToLimit(paths, found) = paths \o w
  BY DEF UpToLimit, Within
<1> HIDE DEF room
<1>4. k \in Nat /\ k <= Len(found) /\ (Len(found) > 0 => k > 0)
  BY <1>1, <1>2
<1> HIDE DEF k
<1>5. /\ w \in PathLists /\ Len(w) = k /\ Range(w) \subseteq Range(found)
      /\ IsInjective(found) => IsInjective(w)
  BY <1>4, TheFirstOnes DEF PathLists
<1> HIDE DEF w
<1>6. Len(found) > 0 => Range(w) # {}
  <2> SUFFICES ASSUME Len(found) > 0 PROVE Range(w) # {}
    OBVIOUS
  <2>1. 1 \in DOMAIN w
    BY <1>4, <1>5, LenProperties DEF PathLists
  <2> QED
    BY <2>1 DEF Range
<1>7. Takes(w, found)
  BY <1>5, <1>6 DEF Takes
<1> QED
  BY <1>3, <1>7

(* The paths shown are told of the pairs P: they are of these, there are    *)
(* such paths, none is shown twice, and every pair that has a path shows one.*)
TellsOf(paths, gone, P) ==
    /\ paths \in PathLists /\ IsInjective(paths)
    /\ \A q \in Range(paths) : <<q[1], Last(q)>> \in P /\ q \in RealPaths(q[1], Last(q), gone)
    /\ \A e, t : <<e, t>> \in P /\ RealPaths(e, t, gone) # {} => \E q \in Range(paths) : q[1] = e /\ Last(q) = t

LEMMA FromOneNode ==
  ASSUME NEW gone, NEW e \in Left(gone), NEW t
  PROVE  /\ <<e>> \in SimplePaths /\ \A q : GoesOnTo(<<e>>, q, t, gone) <=> q \in RealPaths(e, t, gone)
         /\ \A q \in RealPaths(e, t, gone) : q[1] = e /\ Last(q) = t
<1>1. e \in Nodes /\ e \notin gone
  BY DEF Left, Nodes
<1>2. Len(<<e>>) = 1 /\ <<e>>[1] = e /\ <<e>> \in Seq(Nodes)
  BY <1>1
<1>3. <<e>> \in SimplePaths
  <2>1. PICK p : p = <<e>>
    OBVIOUS
  <2>2. p \in Seq(Nodes) /\ Len(p) = 1
    BY <1>2, <2>1
  <2>3. Len(p) \in 1..MaxDepth /\ \A i, j \in 1..Len(p) : p[i] = p[j] => i = j
    BY ONLY <2>2, PathTypes
  <2> QED
    BY <2>1, <2>2, <2>3, SimplePathIs
<1>4. ASSUME NEW q PROVE GoesOnTo(<<e>>, q, t, gone) <=> q \in RealPaths(e, t, gone)
  <2> SUFFICES ASSUME q \in SimplePaths PROVE GoesOnTo(<<e>>, q, t, gone) <=> q \in RealPaths(e, t, gone)
    BY DEF GoesOnTo, RealPaths
  <2>1. Len(q) \in Nat /\ Len(q) > 0 /\ DOMAIN q = 1..Len(q)
    BY LastNode
  <2>2. ToSet(q) \cap gone = {} <=> \A i \in 1..Len(q) : q[i] \notin gone
    BY <2>1 DEF ToSet
  <2>3. (\A i \in 1..Len(<<e>>) : q[i] = <<e>>[i]) <=> q[1] = e
    BY <1>2
  <2>4. q[1] = e => ((\A i \in 1..Len(q) : q[i] \notin gone) <=> (\A i \in 1..Len(q) : i > Len(<<e>>) => q[i] \notin gone))
    BY <1>1, <1>2, <2>1
  <2>5. (\A i \in 1..(Len(q) - 1) : i >= Len(<<e>>) => <<q[i], q[i + 1]>> \in links /\ q[i] # t)
        <=> (\A i \in 1..(Len(q) - 1) : <<q[i], q[i + 1]>> \in links /\ q[i] # t)
    BY <1>2, <2>1
  <2>6. Len(<<e>>) <= Len(q)
    BY <1>2, <2>1
  <2> QED
    BY <2>2, <2>3, <2>4, <2>5, <2>6 DEF GoesOnTo, RealPaths
<1>5. \A q \in RealPaths(e, t, gone) : q[1] = e /\ Last(q) = t
  BY DEF RealPaths
<1> QED
  BY <1>3, <1>4, <1>5

LEMMA PairTold ==
  ASSUME NEW gone, NEW paths, NEW P, TellsOf(paths, gone, P), NEW e \in Left(gone), NEW t, <<e, t>> \notin P
  PROVE  TellsOf(UpToLimit(paths, DfsFindPaths(t, gone)[<<e>>]), gone, P \cup {<<e, t>>})
<1>1. PICK found : found = DfsFindPaths(t, gone)[<<e>>]
  OBVIOUS
<1>2. <<e>> \in SimplePaths
  BY FromOneNode
<1>3. found \in PathLists
  BY <1>1, <1>2, SearchIs
<1>4. FoundRight(<<e>>, found, t, gone)
  BY <1>1, <1>2, SearchFinds
<1>5. /\ IsInjective(found) /\ \A q \in Range(found) : q \in RealPaths(e, t, gone) /\ q[1] = e /\ Last(q) = t
      /\ RealPaths(e, t, gone) # {} => Len(found) > 0
  BY <1>4, FromOneNode DEF FoundRight
<1>6. /\ paths \in PathLists /\ IsInjective(paths)
      /\ \A q \in Range(paths) : <<q[1], Last(q)>> \in P /\ q \in RealPaths(q[1], Last(q), gone)
      /\ \A d, u : <<d, u>> \in P /\ RealPaths(d, u, gone) # {} => \E q \in Range(paths) : q[1] = d /\ Last(q) = u
  BY DEF TellsOf
<1>7. PICK w : Takes(w, found) /\ UpToLimit(paths, found) = paths \o w
  BY <1>3, <1>6, TakesSome
<1>8. PICK all : all = paths \o w
  OBVIOUS
<1>9. w \in PathLists /\ IsInjective(w) /\ Range(w) \subseteq Range(found) /\ (Len(found) > 0 => Range(w) # {})
  BY <1>5, <1>7 DEF Takes
<1>10. Range(paths) \cap Range(w) = {}
  <2> SUFFICES ASSUME NEW q \in Range(paths), q \in Range(w) PROVE FALSE
    OBVIOUS
  <2>1. q[1] = e /\ Last(q) = t
    BY <1>5, <1>9
  <2>2. <<q[1], Last(q)>> \in P
    BY <1>6
  <2> QED
    BY <2>1, <2>2
<1>11. all \in PathLists /\ Range(all) = Range(paths) \cup Range(w) /\ IsInjective(all)
  BY <1>6, <1>8, <1>9, <1>10, OneAfterAnother DEF PathLists
<1> DEFINE R == P \cup {<<e, t>>}
<1>12. ASSUME NEW q \in Range(all) PROVE <<q[1], Last(q)>> \in R /\ q \in RealPaths(q[1], Last(q), gone)
  <2>1. CASE q \in Range(paths)
    BY <2>1, <1>6
  <2>2. CASE q \in Range(w)
    <3>1. q \in RealPaths(e, t, gone) /\ q[1] = e /\ Last(q) = t
      BY <2>2, <1>5, <1>9
    <3> QED
      BY <3>1
  <2> QED
    BY <2>1, <2>2, <1>11
<1>13. ASSUME NEW d, NEW u, <<d, u>> \in R, RealPaths(d, u, gone) # {}
       PROVE  \E q \in Range(all) : q[1] = d /\ Last(q) = u
  <2>1. CASE <<d, u>> \in P
    <3>1. \E q \in Range(paths) : q[1] = d /\ Last(q) = u
      BY <2>1, <1>6, <1>13
    <3> QED
      BY <3>1, <1>11
  <2>2. CASE <<d, u>> = <<e, t>>
    <3>1. d = e /\ u = t
      BY <2>2
    <3>2. Range(w) # {}
      BY <3>1, <1>5, <1>9, <1>13
    <3>3. PICK q \in Range(w) : TRUE
      BY <3>2
    <3>4. q[1] = e /\ Last(q) = t
      BY <3>3, <1>5, <1>9
    <3> QED
      BY <3>1, <3>3, <3>4, <1>11
  <2> QED
    BY <2>1, <2>2, <1>13
<1>14. TellsOf(all, gone, R)
  <2> HIDE DEF R
  <2> QED
    BY <1>11, <1>12, <1>13 DEF TellsOf
<1> QED
  BY <1>1, <1>7, <1>8, <1>14

(* The walk over the assets of one entry.                                   *)
ShowsOne(n, s, entry, gone) ==
    IF GraphNodes[n] \in Assets(gone) \ {entry} THEN UpToLimit(s, DfsFindPaths(GraphNodes[n], gone)[<<entry>>]) ELSE s
AssetsInTurn(h, entry, paths, gone) == h = [n \in 0..Steps |-> IF n = 0 THEN paths ELSE ShowsOne(n, h[n - 1], entry, gone)]

LEMMA ShowsPaths ==
  ASSUME NEW n \in 1..Steps, NEW s \in PathLists, NEW gone, NEW entry \in Left(gone)
  PROVE  ShowsOne(n, s, entry, gone) \in PathLists
<1>1. PICK found : found = DfsFindPaths(GraphNodes[n], gone)[<<entry>>]
  OBVIOUS
<1>2. found \in PathLists
  BY <1>1, FromOneNode, SearchIs
<1>3. PICK w : Takes(w, found) /\ UpToLimit(s, found) = s \o w
  BY <1>2, TakesSome
<1>4. s \o w \in PathLists
  BY <1>3, ConcatProperties DEF Takes, PathLists
<1> QED
  BY <1>1, <1>3, <1>4 DEF ShowsOne

LEMMA AssetsTurnExists ==
  ASSUME NEW gone, NEW entry \in Left(gone), NEW paths \in PathLists
  PROVE  \E h : AssetsInTurn(h, entry, paths, gone)
<1> DEFINE F == [n \in 1..Steps |-> [s \in PathLists |-> ShowsOne(n, s, entry, gone)]]
<1>1. F \in [1..Steps -> [PathLists -> PathLists]]
  BY ShowsPaths
<1>2. PICK h : Loops(Steps, PathLists, paths, F, h)
  <2> HIDE DEF F
  <2> QED
    BY <1>1, LoopExists, PathTypes
<1>3. \A n \in 1..Steps : n - 1 \in 0..Steps /\ h[n - 1] \in PathLists
  BY <1>2, PathTypes DEF Loops
<1>4. \A n \in 1..Steps : h[n] = ShowsOne(n, h[n - 1], entry, gone)
  BY <1>2, <1>3 DEF Loops
<1>5. \A n \in 0..Steps : n # 0 => n \in 1..Steps
  BY PathTypes
<1>6. h = [n \in 0..Steps |-> h[n]] /\ h[0] = paths
  BY <1>2 DEF Loops
<1>7. AssetsInTurn(h, entry, paths, gone)
  BY <1>4, <1>5, <1>6 DEF AssetsInTurn
<1> QED
  BY <1>7

PairsOf(e, S) == {<<e, t>> : t \in S}

LEMMA EntryTold ==
  ASSUME NEW gone, NEW entry \in Left(gone), NEW paths, NEW P, TellsOf(paths, gone, P),
         \A t : <<entry, t>> \notin P
  PROVE  TellsOf(FindFrom(entry, paths, gone), gone, P \cup PairsOf(entry, Assets(gone) \ {entry}))
<1>0. Steps \in Nat /\ paths \in PathLists
  BY PathTypes DEF TellsOf
<1>1. FindFrom(entry, paths, gone) = (CHOOSE h : AssetsInTurn(h, entry, paths, gone))[Steps]
  BY DEF FindFrom, AssetsInTurn, ShowsOne, Steps
<1>2. PICK h : h = CHOOSE g : AssetsInTurn(g, entry, paths, gone)
  OBVIOUS
<1>3. AssetsInTurn(h, entry, paths, gone)
  BY <1>0, <1>2, AssetsTurnExists
<1>4. h[0] = paths /\ \A n \in 1..Steps : h[n] = ShowsOne(n, h[n - 1], entry, gone)
  <2>1. 0 \in 0..Steps /\ \A n \in 1..Steps : n \in 0..Steps /\ n # 0
    BY <1>0
  <2> QED
    BY <2>1, <1>3 DEF AssetsInTurn
<1> DEFINE A == Assets(gone) \ {entry}
           Those(n) == {t \in A : \E k \in 1..n : GraphNodes[k] = t}
           J(n) == TellsOf(h[n], gone, P \cup PairsOf(entry, Those(n)))
           G == {n \in Nat : n <= Steps => J(n)}
<1> HIDE DEF A
<1>5. J(0)
  <2>1. P \cup PairsOf(entry, Those(0)) = P
    BY DEF PairsOf
  <2> QED
    BY <2>1, <1>4
<1>6. ASSUME NEW n \in Nat, n > 0, n <= Steps, J(n - 1) PROVE J(n)
  <2>1. n \in 1..Steps /\ n - 1 \in 0..Steps /\ n \in 1..n /\ \A k \in 1..n : k \in 1..(n - 1) \/ k = n
    BY <1>6, <1>0
  <2>2. \A k \in 1..(n - 1) : k \in 1..n /\ k \in 1..Steps /\ k # n
    BY <1>6, <1>0
  <2>3. PICK t : t = GraphNodes[n]
    OBVIOUS
  <2>4. \A k \in 1..(n - 1) : GraphNodes[k] # t
    BY <2>1, <2>2, <2>3, PathTypes
  <2>5. CASE t \in A
    <3>1. h[n] = UpToLimit(h[n - 1], DfsFindPaths(t, gone)[<<entry>>])
      BY <1>4, <2>1, <2>3, <2>5 DEF ShowsOne, A
    <3>2. <<entry, t>> \notin P \cup PairsOf(entry, Those(n - 1))
      BY <2>4 DEF PairsOf
    <3>3. TellsOf(h[n], gone, (P \cup PairsOf(entry, Those(n - 1))) \cup {<<entry, t>>})
      <4>1. PICK R, s : R = P \cup PairsOf(entry, Those(n - 1)) /\ s = h[n - 1]
        OBVIOUS
      <4>2. TellsOf(s, gone, R) /\ <<entry, t>> \notin R
        BY <4>1, <1>6, <3>2
      <4>3. TellsOf(UpToLimit(s, DfsFindPaths(t, gone)[<<entry>>]), gone, R \cup {<<entry, t>>})
        BY <4>2, PairTold
      <4> HIDE DEF Those
      <4> QED
        BY <4>1, <4>3, <3>1
    <3>4. Those(n) = Those(n - 1) \cup {t}
      BY <2>1, <2>2, <2>3, <2>5
    <3>5. (P \cup PairsOf(entry, Those(n - 1))) \cup {<<entry, t>>} = P \cup PairsOf(entry, Those(n))
      <4> HIDE DEF Those
      <4> QED
        BY <3>4 DEF PairsOf
    <3> QED
      BY <3>3, <3>5
  <2>6. CASE t \notin A
    <3>1. h[n] = h[n - 1]
      BY <1>4, <2>1, <2>3, <2>6 DEF ShowsOne, A
    <3>2. Those(n) = Those(n - 1)
      BY <2>1, <2>2, <2>3, <2>6
    <3> QED
      BY <3>1, <3>2, <1>6
  <2> QED
    BY <2>5, <2>6
<1> HIDE DEF J
<1>8. Steps \in G
  <2>1. 0 \in G
    BY <1>5
  <2>2. \A n \in 1..Steps : n \in Nat /\ n > 0 /\ n <= Steps /\ (n - 1 \in G => J(n - 1))
    BY <1>0
  <2>3. \A n \in 1..Steps : n - 1 \in G => n \in G
    BY <2>2, <1>6
  <2> HIDE DEF G
  <2> QED
    BY <2>1, <2>3, <1>0, CountTo
<1>9. J(Steps)
  BY <1>0, <1>8 DEF G
<1>10. Those(Steps) = A
  <2>1. \A t \in A : t \in Nodes
    BY DEF A, Assets, Left, Nodes
  <2> QED
    BY <2>1, PathTypes
<1>11. TellsOf(h[Steps], gone, P \cup PairsOf(entry, A))
  <2> HIDE DEF Those
  <2> QED
    BY <1>9, <1>10 DEF J
<1> QED
  BY <1>1, <1>2, <1>11 DEF A

(* The walk over the entries.                                               *)
LEMMA EntryShowsPaths ==
  ASSUME NEW gone, NEW entry \in Left(gone), NEW paths \in PathLists
  PROVE  FindFrom(entry, paths, gone) \in PathLists
<1>1. FindFrom(entry, paths, gone) = (CHOOSE h : AssetsInTurn(h, entry, paths, gone))[Steps]
  BY DEF FindFrom, AssetsInTurn, ShowsOne, Steps
<1>2. PICK h : h = CHOOSE g : AssetsInTurn(g, entry, paths, gone)
  OBVIOUS
<1>3. AssetsInTurn(h, entry, paths, gone)
  BY <1>2, AssetsTurnExists
<1> DEFINE G == {n \in 0..Steps : h[n] \in PathLists}
<1>4. 0 \in G
  BY <1>3, PathTypes DEF AssetsInTurn
<1>5. ASSUME NEW n \in 1..Steps, n - 1 \in G PROVE n \in G
  <2>1. n \in 0..Steps /\ n # 0
    BY PathTypes
  <2>2. h[n] = ShowsOne(n, h[n - 1], entry, gone)
    BY <2>1, <1>3 DEF AssetsInTurn
  <2>3. h[n] \in PathLists
    BY <2>2, <1>5, ShowsPaths
  <2> QED
    BY <2>1, <2>3
<1> HIDE DEF G
<1>6. Steps \in G
  BY <1>4, <1>5, CountTo, PathTypes
<1> QED
  BY <1>1, <1>2, <1>6 DEF G

ShowsFrom(n, s, gone) == IF GraphNodes[n] \in Entries(gone) THEN FindFrom(GraphNodes[n], s, gone) ELSE s
EntriesInTurn(h, gone) == h = [n \in 0..Steps |-> IF n = 0 THEN << >> ELSE ShowsFrom(n, h[n - 1], gone)]
AllPairs(gone) == {l \in Entries(gone) \X Assets(gone) : l[1] # l[2]}

LEMMA EntriesTurnExists ==
  ASSUME NEW gone
  PROVE  \E h : EntriesInTurn(h, gone)
<1> DEFINE F == [n \in 1..Steps |-> [s \in PathLists |-> ShowsFrom(n, s, gone)]]
<1>1. F \in [1..Steps -> [PathLists -> PathLists]]
  <2>1. \A n \in 1..Steps, s \in PathLists : ShowsFrom(n, s, gone) \in PathLists
    BY EntryShowsPaths DEF ShowsFrom, Entries
  <2> QED
    BY <2>1
<1>2. << >> \in PathLists
  BY DEF PathLists
<1>3. PICK h : Loops(Steps, PathLists, << >>, F, h)
  <2> HIDE DEF F
  <2> QED
    BY <1>1, <1>2, LoopExists, PathTypes
<1>4. \A n \in 1..Steps : n - 1 \in 0..Steps /\ h[n - 1] \in PathLists
  BY <1>3, PathTypes DEF Loops
<1>5. \A n \in 1..Steps : h[n] = ShowsFrom(n, h[n - 1], gone)
  BY <1>3, <1>4 DEF Loops
<1>6. \A n \in 0..Steps : n # 0 => n \in 1..Steps
  BY PathTypes
<1>7. h = [n \in 0..Steps |-> h[n]] /\ h[0] = << >>
  BY <1>3 DEF Loops
<1>8. EntriesInTurn(h, gone)
  BY <1>5, <1>6, <1>7 DEF EntriesInTurn
<1> QED
  BY <1>8

LEMMA NothingTold == ASSUME NEW gone PROVE TellsOf(<< >>, gone, {})
<1>1. IsInjective(<< >>) /\ Range(<< >>) = {} /\ << >> \in PathLists
  BY DEF IsInjective, Range, PathLists
<1> QED
  BY <1>1 DEF TellsOf

(* find_all_attack_paths tells of every pair.                               *)
LEMMA AllTold ==
  ASSUME NEW gone
  PROVE  TellsOf(FindAll(gone), gone, AllPairs(gone))
<1>0. Steps \in Nat
  BY PathTypes
<1>1. FindAll(gone) = (CHOOSE h : EntriesInTurn(h, gone))[Steps]
  BY DEF FindAll, EntriesInTurn, ShowsFrom, Steps
<1>2. PICK h : h = CHOOSE g : EntriesInTurn(g, gone)
  OBVIOUS
<1>3. EntriesInTurn(h, gone)
  BY <1>2, EntriesTurnExists
<1>4. h[0] = << >> /\ \A n \in 1..Steps : h[n] = ShowsFrom(n, h[n - 1], gone)
  <2>1. 0 \in 0..Steps /\ \A n \in 1..Steps : n \in 0..Steps /\ n # 0
    BY <1>0
  <2> QED
    BY <2>1, <1>3 DEF EntriesInTurn
<1> DEFINE E == Entries(gone)
           A == Assets(gone)
           Those(n) == {l \in E \X A : l[1] # l[2] /\ \E k \in 1..n : GraphNodes[k] = l[1]}
           G == {n \in 0..Steps : TellsOf(h[n], gone, Those(n))}
<1>5. 0 \in G
  <2>1. Those(0) = {} /\ 0 \in 0..Steps
    BY <1>0
  <2> HIDE DEF Those
  <2> QED
    BY <2>1, <1>4, NothingTold
<1>6. ASSUME NEW n \in 1..Steps, n - 1 \in G PROVE n \in G
  <2>1. n \in 0..Steps /\ n \in 1..n /\ \A k \in 1..n : k \in 1..(n - 1) \/ k = n
    BY <1>0
  <2>2. \A k \in 1..(n - 1) : k \in 1..n /\ k \in 1..Steps /\ k # n
    BY <1>0
  <2>3. PICK e : e = GraphNodes[n]
    OBVIOUS
  <2>4. \A k \in 1..(n - 1) : GraphNodes[k] # e
    BY <2>2, <2>3, PathTypes
  <2>5. CASE e \in E
    <3>1. h[n] = FindFrom(e, h[n - 1], gone)
      BY <1>4, <2>3, <2>5 DEF ShowsFrom
    <3>2. \A t : <<e, t>> \notin Those(n - 1)
      BY <2>4
    <3>3. e \in Left(gone)
      BY <2>5 DEF Entries
    <3>4. TellsOf(h[n], gone, Those(n - 1) \cup PairsOf(e, A \ {e}))
      <4> HIDE DEF Those
      <4> QED
        BY <1>6, <3>1, <3>2, <3>3, EntryTold
    <3>5. Those(n) = Those(n - 1) \cup PairsOf(e, A \ {e})
      <4> HIDE DEF E, A
      <4>1. ASSUME NEW l \in Those(n) PROVE l \in Those(n - 1) \cup PairsOf(e, A \ {e})
        <5>1. l \in E \X A /\ l[1] # l[2] /\ l = <<l[1], l[2]>> /\ \E k \in 1..n : GraphNodes[k] = l[1]
          BY <4>1
        <5>2. CASE l[1] = e
          BY <5>1, <5>2 DEF PairsOf
        <5>3. CASE l[1] # e
          <6>1. \E k \in 1..(n - 1) : GraphNodes[k] = l[1]
            BY <5>1, <5>3, <2>1, <2>3
          <6> QED
            BY <5>1, <6>1
        <5> QED
          BY <5>2, <5>3
      <4>2. Those(n - 1) \subseteq Those(n)
        BY <2>2
      <4>3. PairsOf(e, A \ {e}) \subseteq Those(n)
        BY <2>1, <2>3, <2>5 DEF PairsOf
      <4> QED
        BY <4>1, <4>2, <4>3
    <3> HIDE DEF Those, E, A
    <3> QED
      BY <3>4, <3>5, <2>1
  <2>6. CASE e \notin E
    <3>1. h[n] = h[n - 1]
      BY <1>4, <2>3, <2>6 DEF ShowsFrom
    <3>2. Those(n) = Those(n - 1)
      <4> HIDE DEF E, A
      <4> QED
        BY <2>1, <2>2, <2>3, <2>6
    <3> HIDE DEF Those
    <3> QED
      BY <3>1, <3>2, <2>1, <1>6
  <2> QED
    BY <2>5, <2>6
<1> HIDE DEF G
<1>7. Steps \in G
  BY <1>0, <1>5, <1>6, CountTo
<1>8. Those(Steps) = AllPairs(gone)
  <2>1. \A e \in E : \E k \in 1..Steps : GraphNodes[k] = e
    BY PathTypes DEF Entries, Left, Nodes
  <2> QED
    BY <2>1 DEF AllPairs
<1> HIDE DEF Those
<1> QED
  BY <1>1, <1>2, <1>7, <1>8 DEF G

-----------------------------------------------------------------------------
(* What a path weighs.                                                      *)
LEMMA RiskIs == \A p \in SimplePaths : PathRisk(p) \in Nat /\ PathRisk(p) <= 100
<1> SUFFICES ASSUME NEW p \in SimplePaths PROVE PathRisk(p) \in Nat /\ PathRisk(p) <= 100
  OBVIOUS
<1>1. IsFiniteSet(Nodes)
  <2>1. GraphNodes \in Surjection(1..Steps, Nodes)
    BY PathTypes DEF Surjection
  <2>2. IsFiniteSet(1..Steps)
    BY FS_Interval, PathTypes
  <2> QED
    BY <2>1, <2>2, FS_Surjection
<1>2. PICK most \in Nat : \A n \in Nodes : NodeRisk[n] <= most
  <2>1. NodeRisk \in Weight(Nodes)
    BY PathTypes DEF Weight
  <2>2. PICK f : \A T \in SUBSET Nodes : f[T] \in Nat /\ \A i \in T : NodeRisk[i] <= f[T]
    BY <1>1, <2>1, SumsTell
  <2>3. Nodes \in SUBSET Nodes
    OBVIOUS
  <2> QED
    BY <2>2, <2>3
<1> DEFINE R == {NodeRisk[n] : n \in ToSet(p)}
           top == Max(R)
<1>3. p[1] \in ToSet(p) /\ ToSet(p) \subseteq Nodes
  BY LastNode DEF ToSet
<1>4. R \subseteq Nat /\ R # {} /\ \A r \in R : r <= most
  BY <1>2, <1>3, PathTypes
<1>5. top \in Nat
  <2> HIDE DEF R
  <2> QED
    BY <1>4, GreatestExists
<1> DEFINE S == {100, top + 3 * Len(p)}
<1>6. PathRisk(p) = Min(S)
  BY DEF PathRisk
<1> HIDE DEF top
<1>7. S \subseteq Nat /\ S # {} /\ 100 \in S
  BY <1>5, LastNode
<1> HIDE DEF S
<1>8. Min(S) \in S /\ Min(S) <= 100
  BY <1>7, LeastIsIn
<1> QED
  BY <1>6, <1>7, <1>8

LEMMA MorePathsMoreRisk ==
  ASSUME NEW a \in PathLists, NEW b \in PathLists, Range(a) \subseteq Range(b)
  PROVE  MaxRisk(a) <= MaxRisk(b)
<1> DEFINE Risks(s) == {PathRisk(p) : p \in ToSet(s)}
<1>1. \A s \in PathLists : Range(s) \subseteq SimplePaths /\ ToSet(s) = Range(s) /\ (s # << >> => Range(s) # {})
  <2> SUFFICES ASSUME NEW s \in PathLists
               PROVE  Range(s) \subseteq SimplePaths /\ ToSet(s) = Range(s) /\ (s # << >> => Range(s) # {})
    OBVIOUS
  <2>1. DOMAIN s = 1..Len(s) /\ Len(s) \in Nat /\ \A i \in 1..Len(s) : s[i] \in SimplePaths
    BY LenProperties, ElementOfSeq DEF PathLists
  <2>2. s # << >> => 1 \in DOMAIN s
    BY <2>1, EmptySeq DEF PathLists
  <2> QED
    BY <2>1, <2>2 DEF Range, ToSet
<1>2. ASSUME NEW s \in PathLists, s # << >>
      PROVE  /\ Max(Risks(s)) \in Nat /\ Max(Risks(s)) \in Risks(s)
             /\ \A r \in Risks(s) : r <= Max(Risks(s))
  <2>1. Risks(s) \subseteq Nat /\ Risks(s) # {} /\ \A r \in Risks(s) : r <= 100
    BY <1>1, <1>2, RiskIs
  <2> HIDE DEF Risks
  <2> QED
    BY <2>1, GreatestExists
<1>3. CASE a = << >>
  <2>1. MaxRisk(a) = 0
    BY <1>3 DEF MaxRisk
  <2>2. MaxRisk(b) \in Nat
    <3> HIDE DEF Risks
    <3>1. MaxRisk(b) = IF b = << >> THEN 0 ELSE Max(Risks(b))
      BY DEF MaxRisk, Risks
    <3> QED
      BY <3>1, <1>2
  <2> QED
    BY <2>1, <2>2
<1>4. CASE a # << >>
  <2>1. b # << >>
    <3>1. Range(b) # {}
      BY <1>1, <1>4
    <3> QED
      BY <3>1, EmptyQueue
  <2>2. MaxRisk(a) = Max(Risks(a)) /\ MaxRisk(b) = Max(Risks(b))
    BY <1>4, <2>1 DEF MaxRisk
  <2>3. Risks(a) \subseteq Risks(b)
    BY <1>1
  <2> HIDE DEF Risks
  <2> QED
    BY <1>2, <1>4, <2>1, <2>2, <2>3
<1> QED
  BY <1>3, <1>4

-----------------------------------------------------------------------------
(* The analyser.                                                            *)
PathsInv ==
    /\ links \in GraphEdges /\ takenAway \subseteq Nodes
    /\ pathsBefore # NotAsked => TellsOf(pathsBefore, {}, AllPairs({}))
    /\ pathsAfter # NotAsked => pathsBefore # NotAsked /\ TellsOf(pathsAfter, takenAway, AllPairs(takenAway))

LEMMA StillTold ==
  ASSUME links' = links, NEW paths, NEW gone, NEW P, TellsOf(paths, gone, P)
  PROVE  TellsOf(paths, gone, P)'
<1>1. \A e, t : RealPaths(e, t, gone)' = RealPaths(e, t, gone)
  BY DEF RealPaths
<1> QED
  BY <1>1 DEF TellsOf

LEMMA PathsStep ==
  ASSUME PathsInv, [PathsNext]_pathVars
  PROVE  PathsInv'
<1>1. CASE FindBefore
  <2>1. PICK b : b = FindAll({})
    OBVIOUS
  <2>2. pathsBefore' = b /\ links' = links /\ takenAway' = takenAway /\ pathsAfter' = NotAsked
    BY <1>1, <2>1 DEF FindBefore, PathsInv
  <2>3. TellsOf(b, {}, AllPairs({}))
    BY <2>1, AllTold
  <2>4. TellsOf(b, {}, AllPairs({}))'
    BY <2>2, <2>3, StillTold
  <2> QED
    BY <2>2, <2>4 DEF PathsInv
<1>2. ASSUME NEW gone \in SUBSET ToSet(GraphNodes), Simulate(gone) PROVE PathsInv'
  <2>1. PICK a : a = FindAll(gone)
    OBVIOUS
  <2>2. PICK b : b = pathsBefore
    OBVIOUS
  <2>3. /\ pathsBefore' = b /\ links' = links /\ takenAway' = gone /\ pathsAfter' = a
        /\ b # NotAsked /\ TellsOf(b, {}, AllPairs({})) /\ links \in GraphEdges
    BY <1>2, <2>1, <2>2 DEF Simulate, PathsInv
  <2>4. TellsOf(a, gone, AllPairs(gone))
    BY <2>1, AllTold
  <2>5. TellsOf(b, {}, AllPairs({}))' /\ TellsOf(a, gone, AllPairs(gone))'
    BY <2>3, <2>4, StillTold
  <2> QED
    BY <2>3, <2>5 DEF PathsInv, Nodes
<1>3. CASE UNCHANGED pathVars
  <2>1. PICK a, b, gone : a = pathsAfter /\ b = pathsBefore /\ gone = takenAway
    OBVIOUS
  <2>2. links' = links /\ takenAway' = gone /\ pathsBefore' = b /\ pathsAfter' = a
    BY <1>3, <2>1 DEF pathVars
  <2>3. /\ links \in GraphEdges /\ gone \subseteq Nodes
        /\ b # NotAsked => TellsOf(b, {}, AllPairs({}))
        /\ a # NotAsked => b # NotAsked /\ TellsOf(a, gone, AllPairs(gone))
    BY <2>1 DEF PathsInv
  <2>4. /\ b # NotAsked => TellsOf(b, {}, AllPairs({}))'
        /\ a # NotAsked => TellsOf(a, gone, AllPairs(gone))'
    BY <2>2, <2>3, StillTold
  <2> QED
    BY <2>2, <2>3, <2>4 DEF PathsInv
<1> QED
  BY <1>1, <1>2, <1>3 DEF PathsNext

LEMMA ToldFindsPairs ==
  ASSUME NEW paths, NEW gone, TellsOf(paths, gone, AllPairs(gone))
  PROVE  /\ PairsFound(paths, gone) /\ IsInjective(paths) /\ ToSet(paths) \subseteq SimplePaths
         /\ ToSet(paths) = Range(paths) /\ paths \in PathLists
         /\ \A q \in Range(paths) : /\ q[1] \in Entries(gone) /\ Last(q) \in Assets(gone) /\ q[1] # Last(q)
                                    /\ q \in RealPaths(q[1], Last(q), gone)
<1>1. paths \in PathLists /\ IsInjective(paths)
  BY DEF TellsOf
<1>2. ToSet(paths) = Range(paths)
  BY DEF ToSet, Range
<1>3. \A q \in Range(paths) : /\ q[1] \in Entries(gone) /\ Last(q) \in Assets(gone) /\ q[1] # Last(q)
                              /\ q \in RealPaths(q[1], Last(q), gone)
  BY DEF TellsOf, AllPairs
<1>4. ToSet(paths) \subseteq SimplePaths
  BY <1>2, <1>3 DEF RealPaths
<1>5. \A e \in Entries(gone), t \in Assets(gone) :
         e # t /\ RealPaths(e, t, gone) # {} => \E p \in Range(paths) : p[1] = e /\ Last(p) = t
  <2> SUFFICES ASSUME NEW e \in Entries(gone), NEW t \in Assets(gone), e # t, RealPaths(e, t, gone) # {}
               PROVE  \E p \in Range(paths) : p[1] = e /\ Last(p) = t
    OBVIOUS
  <2>1. <<e, t>> \in AllPairs(gone)
    BY DEF AllPairs
  <2> QED
    BY <2>1 DEF TellsOf
<1>6. PairsFound(paths, gone)
  BY <1>2, <1>3, <1>5 DEF PairsFound
<1> QED
  BY <1>1, <1>2, <1>3, <1>4, <1>6

LEMMA RepairsTell ==
  ASSUME PathsInv
  PROVE  PathsTypeOK /\ PathsTell
<1>1. links \in GraphEdges /\ takenAway \subseteq ToSet(GraphNodes)
  BY DEF PathsInv, Nodes
<1>2. ASSUME pathsBefore # NotAsked
      PROVE  /\ PairsFound(pathsBefore, {}) /\ IsInjective(pathsBefore) /\ ToSet(pathsBefore) \subseteq SimplePaths
             /\ ToSet(pathsBefore) = Range(pathsBefore) /\ pathsBefore \in PathLists
  BY <1>2, ToldFindsPairs DEF PathsInv
<1>3. ASSUME pathsAfter # NotAsked
      PROVE  /\ PairsFound(pathsAfter, takenAway) /\ IsInjective(pathsAfter) /\ ToSet(pathsAfter) \subseteq SimplePaths
             /\ ToSet(pathsAfter) = Range(pathsAfter) /\ pathsAfter \in PathLists /\ pathsBefore # NotAsked
             /\ \A q \in Range(pathsAfter) :
                   /\ q[1] \in Entries(takenAway) /\ Last(q) \in Assets(takenAway) /\ q[1] # Last(q)
                   /\ q \in RealPaths(q[1], Last(q), takenAway)
  BY <1>3, ToldFindsPairs DEF PathsInv
<1>4. ASSUME pathsAfter # NotAsked, ~StandIns, ~Struck
      PROVE  ToSet(pathsAfter) \subseteq ToSet(pathsBefore) /\ MaxRisk(pathsAfter) <= MaxRisk(pathsBefore)
  <2>1. ASSUME NEW q \in Range(pathsAfter) PROVE q \in ToSet(pathsBefore)
    <3> DEFINE e == q[1]
               t == Last(q)
    <3>1. e \in Entries({}) /\ t \in Assets({}) /\ e # t
      BY <1>3, <1>4, <2>1 DEF StandIns
    <3>2. q \in RealPaths(e, t, {})
      BY <1>3, <1>4, <2>1 DEF RealPaths
    <3>3. RealPaths(e, t, {}) \ {<<e>>} \subseteq ToSet(pathsBefore)
      <4> HIDE DEF e, t
      <4> QED
        BY <3>1, <1>4 DEF Struck
    <3>4. q # <<e>>
      <4> SUFFICES ASSUME q = <<e>> PROVE FALSE
        OBVIOUS
      <4>1. Last(<<e>>) = e
        BY DEF Last
      <4> QED
        BY <4>1, <3>1
    <3> QED
      BY <3>2, <3>3, <3>4
  <2>2. Range(pathsAfter) \subseteq Range(pathsBefore)
    BY <2>1, <1>2, <1>3, <1>4
  <2>3. MaxRisk(pathsAfter) <= MaxRisk(pathsBefore)
    BY <2>2, <1>2, <1>3, <1>4, MorePathsMoreRisk
  <2> QED
    BY <2>2, <2>3, <1>2, <1>3, <1>4
<1>5. PathsTell
  BY <1>2, <1>3, <1>4 DEF PathsTell
<1>6. PathsTypeOK
  BY <1>1, <1>2, <1>3 DEF PathsTypeOK
<1> QED
  BY <1>5, <1>6

\* The simulated repairs of the attack paths tell of every pair that is left, and show more
\* only where a limit had struck or others stand in.
THEOREM PathsAlwaysTell == PathsSpec => [](PathsTypeOK /\ PathsTell)
<1>1. PathsInit => PathsInv
  BY DEF PathsInit, PathsInv
<1>2. PathsInv /\ [PathsNext]_pathVars => PathsInv'
  BY PathsStep
<1>3. PathsInv => PathsTypeOK /\ PathsTell
  BY RepairsTell
<1> QED
  BY <1>1, <1>2, <1>3, PTL DEF PathsSpec

=============================================================================
