---------------------------- MODULE QueueLemmas ----------------------------
(***************************************************************************)
(* What taking the head of a queue, appending to it and joining two do to  *)
(* the set of its elements and to the absence of duplicates; the least and *)
(* the greatest of some numbers, and their sum; counting up, loops, and    *)
(* walks of a graph.                                                       *)
(***************************************************************************)
EXTENDS Integers, Sequences, FiniteSetsExt, Functions,
        SequenceTheorems, FiniteSetTheorems, NaturalsInduction, TLAPS

(* An empty queue holds nothing, and holds it once. *)
LEMMA EmptyQueue == Range(<< >>) = {} /\ IsInjective(<< >>)
  BY DEF Range, IsInjective

(* Taking the head of a queue without duplicates removes exactly it. *)
LEMMA TakeHead ==
  ASSUME NEW S, NEW q \in Seq(S), q # << >>, IsInjective(q)
  PROVE  /\ Head(q) \in S /\ Head(q) \in Range(q)
         /\ Tail(q) \in Seq(S)
         /\ Range(Tail(q)) = Range(q) \ {Head(q)}
         /\ IsInjective(Tail(q))
<1>1. /\ Head(q) = q[1] /\ Head(q) \in S /\ Tail(q) \in Seq(S)
      /\ Len(q) \in Nat /\ Len(q) >= 1 /\ DOMAIN q = 1..Len(q)
      /\ DOMAIN Tail(q) = 1..(Len(q) - 1)
      /\ \A i \in 1..(Len(q) - 1) : Tail(q)[i] = q[i + 1]
  BY HeadTailProperties, LenProperties
<1>2. Range(Tail(q)) \subseteq Range(q) \ {Head(q)}
  BY <1>1 DEF Range, IsInjective
<1>3. ASSUME NEW e \in Range(q) \ {Head(q)}
      PROVE  e \in Range(Tail(q))
  <2>1. PICK i \in 1..Len(q) : q[i] = e
    BY <1>1 DEF Range
  <2>2. i - 1 \in 1..(Len(q) - 1) /\ Tail(q)[i - 1] = e
    BY <1>1, <2>1
  <2> QED
    BY <1>1, <2>2 DEF Range
<1>4. IsInjective(Tail(q))
  BY <1>1 DEF IsInjective
<1>5. Head(q) \in Range(q)
  <2>1. 1 \in DOMAIN q
    BY <1>1
  <2> QED
    BY <1>1, <2>1 DEF Range
<1> QED
  BY <1>1, <1>2, <1>3, <1>4, <1>5

(* Appending adds exactly the new element, and no duplicate if it is new. *)
LEMMA AppendOne ==
  ASSUME NEW S, NEW q \in Seq(S), NEW e \in S
  PROVE  /\ Append(q, e) \in Seq(S)
         /\ Range(Append(q, e)) = Range(q) \union {e}
         /\ IsInjective(q) /\ e \notin Range(q) => IsInjective(Append(q, e))
<1>1. /\ Append(q, e) \in Seq(S)
      /\ Len(q) \in Nat /\ DOMAIN q = 1..Len(q)
      /\ DOMAIN Append(q, e) = 1..(Len(q) + 1)
      /\ \A i \in 1..Len(q) : Append(q, e)[i] = q[i]
      /\ Append(q, e)[Len(q) + 1] = e
  BY AppendProperties, LenProperties
<1>2. Range(Append(q, e)) \subseteq Range(q) \union {e}
  BY <1>1 DEF Range
<1>3. Range(q) \union {e} \subseteq Range(Append(q, e))
  <2>1. Len(q) + 1 \in DOMAIN Append(q, e) /\ 1..Len(q) \subseteq DOMAIN Append(q, e)
    BY <1>1
  <2> QED
    BY <1>1, <2>1 DEF Range
<1>4. IsInjective(q) /\ e \notin Range(q) => IsInjective(Append(q, e))
  BY <1>1 DEF IsInjective, Range
<1> QED
  BY <1>1, <1>2, <1>3, <1>4

(* A queue without duplicates is not longer than the set it draws from.     *)
LEMMA DistinctFit ==
  ASSUME NEW S, IsFiniteSet(S), NEW q \in Seq(S), IsInjective(q)
  PROVE  Len(q) <= Cardinality(S)
<1>1. Len(q) \in Nat /\ q \in [1..Len(q) -> S]
  BY LenProperties
<1>2. q \in Injection(1..Len(q), S)
  BY <1>1 DEF Injection, IsInjective
<1>3. Cardinality(1..Len(q)) <= Cardinality(S)
  BY <1>2, FS_Injection
<1>4. Cardinality(1..Len(q)) = Len(q)
  BY <1>1, FS_Interval
<1> QED
  BY <1>3, <1>4

(* Without its head a queue holds nothing it did not hold. *)
LEMMA TailHolds ==
  ASSUME NEW S, NEW q \in Seq(S), q # << >>
  PROVE  Range(Tail(q)) \subseteq Range(q)
<1>1. /\ Len(q) \in Nat /\ DOMAIN q = 1..Len(q) /\ DOMAIN Tail(q) = 1..(Len(q) - 1)
      /\ \A i \in 1..(Len(q) - 1) : Tail(q)[i] = q[i + 1]
  BY HeadTailProperties, LenProperties
<1>2. ASSUME NEW i \in 1..(Len(q) - 1) PROVE i + 1 \in 1..Len(q)
  BY <1>1
<1> QED
  BY <1>1, <1>2 DEF Range

(* Nothing in a queue is of a set; the last that is of a set is of another. *)
NoneOf(q, S) == \A k \in 1..Len(q) : q[k] \notin S
LastFits(q, S, T) ==
    \A k \in 1..Len(q) : q[k] \in S /\ (\A j \in 1..Len(q) : k < j => q[j] \notin S) => q[k] \in T

(* Appending one element decides what is last in its sets. *)
LEMMA AppendLast ==
  ASSUME NEW M, NEW q \in Seq(M), NEW m \in M, NEW S, NEW T
  PROVE  /\ NoneOf(Append(q, m), S) <=> NoneOf(q, S) /\ m \notin S
         /\ m \in S /\ m \in T => LastFits(Append(q, m), S, T)
         /\ m \notin S /\ LastFits(q, S, T) => LastFits(Append(q, m), S, T)
<1> DEFINE p == Append(q, m)
<1>1. /\ Len(q) \in Nat /\ Len(p) = Len(q) + 1
      /\ \A k \in 1..Len(q) : p[k] = q[k] /\ k \in 1..Len(p)
      /\ p[Len(q) + 1] = m /\ Len(q) + 1 \in 1..Len(p)
      /\ \A k \in 1..Len(p) : k \in 1..Len(q) \/ k = Len(q) + 1
  BY LenProperties, AppendProperties
<1> HIDE DEF p
<1>2. NoneOf(p, S) <=> NoneOf(q, S) /\ m \notin S
  BY <1>1 DEF NoneOf
<1>3. ASSUME m \in S, m \in T PROVE LastFits(p, S, T)
  BY <1>1, <1>3 DEF LastFits
<1>4. ASSUME m \notin S, LastFits(q, S, T) PROVE LastFits(p, S, T)
  <2> SUFFICES ASSUME NEW k \in 1..Len(p), p[k] \in S, \A j \in 1..Len(p) : k < j => p[j] \notin S
               PROVE  p[k] \in T
    BY DEF LastFits
  <2>1. k \in 1..Len(q) /\ p[k] = q[k]
    BY <1>1, <1>4
  <2>2. \A j \in 1..Len(q) : k < j => q[j] \notin S
    BY <1>1
  <2> QED
    BY <1>4, <2>1, <2>2 DEF LastFits
<1> QED
  BY <1>2, <1>3, <1>4 DEF p

(* Taking the head leaves the last as it is, unless the head was the last.  *)
LEMMA HeadLast ==
  ASSUME NEW M, NEW q \in Seq(M), q # << >>, NEW S, NEW T
  PROVE  /\ Head(q) \in M /\ Tail(q) \in Seq(M)
         /\ NoneOf(q, S) <=> NoneOf(Tail(q), S) /\ Head(q) \notin S
         /\ LastFits(q, S, T) => LastFits(Tail(q), S, T)
         /\ LastFits(q, S, T) /\ NoneOf(Tail(q), S) /\ Head(q) \in S => Head(q) \in T
<1> DEFINE p == Tail(q)
<1>1. /\ Len(q) \in Nat /\ Len(q) > 0 /\ Head(q) = q[1] /\ Head(q) \in M /\ p \in Seq(M)
      /\ Len(p) = Len(q) - 1
      /\ \A k \in 1..Len(p) : p[k] = q[k + 1]
  BY HeadTailProperties, LenProperties
<1> HIDE DEF p
<1>2. /\ \A k \in 1..Len(p) : k + 1 \in 1..Len(q)
      /\ \A k \in 1..Len(q) : k = 1 \/ (k - 1 \in 1..Len(p) /\ q[k] = p[k - 1])
      /\ 1 \in 1..Len(q)
  BY <1>1
<1>3. NoneOf(q, S) <=> NoneOf(p, S) /\ Head(q) \notin S
  <2>1. ASSUME NoneOf(q, S) PROVE NoneOf(p, S) /\ Head(q) \notin S
    BY <1>1, <1>2, <2>1 DEF NoneOf
  <2>2. ASSUME NoneOf(p, S), Head(q) \notin S PROVE NoneOf(q, S)
    <3> SUFFICES ASSUME NEW k \in 1..Len(q) PROVE q[k] \notin S
      BY DEF NoneOf
    <3>1. k = 1 \/ (k - 1 \in 1..Len(p) /\ q[k] = p[k - 1])
      BY <1>2
    <3> QED
      BY <1>1, <2>2, <3>1 DEF NoneOf
  <2> QED
    BY <2>1, <2>2
<1>4. ASSUME LastFits(q, S, T) PROVE LastFits(p, S, T)
  <2> SUFFICES ASSUME NEW k \in 1..Len(p), p[k] \in S, \A j \in 1..Len(p) : k < j => p[j] \notin S
               PROVE  p[k] \in T
    BY DEF LastFits
  <2>1. k + 1 \in 1..Len(q) /\ p[k] = q[k + 1]
    BY <1>1, <1>2
  <2>2. ASSUME NEW j \in 1..Len(q), k + 1 < j PROVE q[j] \notin S
    <3>1. j - 1 \in 1..Len(p) /\ q[j] = p[j - 1] /\ k < j - 1
      BY <1>2, <2>2
    <3> QED
      BY <3>1
  <2> QED
    BY <1>4, <2>1, <2>2 DEF LastFits
<1>5. ASSUME LastFits(q, S, T), NoneOf(p, S), Head(q) \in S PROVE Head(q) \in T
  <2>1. ASSUME NEW j \in 1..Len(q), 1 < j PROVE q[j] \notin S
    <3>1. j - 1 \in 1..Len(p) /\ q[j] = p[j - 1]
      BY <1>2, <2>1
    <3> QED
      BY <1>5, <3>1 DEF NoneOf
  <2> QED
    BY <1>1, <1>2, <1>5, <2>1 DEF LastFits
<1> QED
  BY <1>1, <1>3, <1>4, <1>5 DEF p

(* Where some element is of a set, one is the last, and so of the other.    *)
LEMMA LastThere ==
  ASSUME NEW M, NEW q \in Seq(M), NEW S, NEW T, LastFits(q, S, T), ~NoneOf(q, S)
  PROVE  \E m \in S \intersect T : \E k \in 1..Len(q) : q[k] = m
<1> DEFINE There == {k \in 1..Len(q) : q[k] \in S}
           Left == {Len(q) - k : k \in There}
<1>1. Len(q) \in Nat
  BY LenProperties
<1>2. Left \subseteq Nat /\ Left # {}
  BY <1>1 DEF NoneOf
<1>3. PICK x \in Left : \A y \in Left : <<y, x>> \notin OpToRel(<, Nat)
  BY <1>2, NatLessThanWellFounded, WFMin, Zenon
<1>4. \A y \in Left : ~(y < x)
  BY <1>2, <1>3, Zenon DEF OpToRel
<1>5. PICK k \in There : x = Len(q) - k
  BY <1>3
<1>6. ASSUME NEW j \in 1..Len(q), k < j PROVE q[j] \notin S
  <2> SUFFICES ASSUME q[j] \in S PROVE FALSE
    OBVIOUS
  <2>1. Len(q) - j \in Left
    OBVIOUS
  <2>2. ~(Len(q) - j < Len(q) - k)
    BY <1>4, <1>5, <2>1
  <2>3. k \in Nat /\ j \in Nat
    BY <1>1
  <2> QED
    BY <1>1, <1>6, <2>2, <2>3
<1>7. q[k] \in S /\ q[k] \in T /\ k \in 1..Len(q)
  BY <1>5, <1>6 DEF LastFits
<1> QED
  BY <1>7

(* Of some places one is the earliest. *)
LEMMA EarliestExists ==
  ASSUME NEW places, places \subseteq Nat, places # {}
  PROVE  \E k \in places : \A l \in places : k <= l
<1>1. PICK k \in places : \A l \in places : <<l, k>> \notin OpToRel(<, Nat)
  BY NatLessThanWellFounded, WFMin, Zenon
<1>2. \A l \in places : ~(l < k)
  BY <1>1, Zenon DEF OpToRel
<1> QED
  BY <1>2

(* Of numbers with a bound one is the greatest. *)
LEMMA GreatestExists ==
  ASSUME NEW S, S \subseteq Nat, S # {}, NEW n \in Nat, \A s \in S : s <= n
  PROVE  Max(S) \in S /\ \A s \in S : s <= Max(S)
<1> DEFINE Bounds == {m \in Nat : \A s \in S : s <= m}
<1>1. Bounds \subseteq Nat /\ Bounds # {}
  OBVIOUS
<1>2. PICK x \in Bounds : \A y \in Bounds : <<y, x>> \notin OpToRel(<, Nat)
  BY <1>1, NatLessThanWellFounded, WFMin, Zenon
<1>3. \A y \in Bounds : ~(y < x)
  BY <1>1, <1>2, Zenon DEF OpToRel
<1>4. x \in S
  <2> SUFFICES ASSUME x \notin S PROVE FALSE
    OBVIOUS
  <2>1. x \in Nat /\ \A s \in S : s <= x /\ s # x /\ s \in Nat
    OBVIOUS
  <2>2. x > 0
    <3>1. PICK s \in S : TRUE
      OBVIOUS
    <3> QED
      BY <2>1, <3>1
  <2>3. x - 1 \in Nat /\ \A s \in S : s <= x - 1
    BY <2>1, <2>2
  <2>4. x - 1 \in Bounds
    BY <2>3
  <2> QED
    BY <1>3, <2>1, <2>4
<1>5. \E y \in S : \A s \in S : y >= s
  BY <1>4
<1> QED
  BY <1>5 DEF Max

LEMMA GreaterOfTwo ==
  ASSUME NEW a \in Nat, NEW b \in Nat
  PROVE  Max({a, b}) \in {a, b} /\ a <= Max({a, b}) /\ b <= Max({a, b})
<1>1. \E n \in Nat : a <= n /\ b <= n
  BY ONLY a <= a + b /\ b <= a + b
<1> QED
  BY <1>1, GreatestExists

(* The least of some numbers.                                              *)
LEMMA LeastIsIn ==
  ASSUME NEW S, S \subseteq Nat, S # {}
  PROVE  Min(S) \in S /\ \A s \in S : Min(S) <= s
<1>1. \E k \in S : \A l \in S : k <= l
  BY EarliestExists
<1> QED
  BY <1>1 DEF Min

(* What holds of a number if it holds of all smaller ones holds of all.     *)
LEMMA CountUp ==
  ASSUME NEW G, \A n \in Nat : (\A m \in Nat : m < n => m \in G) => n \in G
  PROVE  \A n \in Nat : n \in G
<1> SUFFICES ASSUME NEW k \in Nat, k \notin G PROVE FALSE
  OBVIOUS
<1>1. Nat \ G \subseteq Nat /\ Nat \ G # {}
  OBVIOUS
<1>2. PICK n \in Nat \ G : \A l \in Nat \ G : n <= l
  BY <1>1, EarliestExists
<1>3. \A m \in Nat : m < n => m \in G
  BY <1>2
<1> QED
  BY <1>2, <1>3

-----------------------------------------------------------------------------
(* The sum of the weights of a set, as FiniteSetsExt adds them up.          *)
Weight(S) == [S -> Nat]
AddsUp(S, w, iter) ==
    iter = [s \in SUBSET S |-> IF s = {} THEN 0 ELSE w[CHOOSE x \in s : TRUE] + iter[s \ {CHOOSE x \in s : TRUE}]]

LEMMA SumIsChosen ==
  ASSUME NEW S, NEW w
  PROVE  MapThenSumSet(LAMBDA i : w[i], S) = (CHOOSE iter : AddsUp(S, w, iter))[S]
BY DEF MapThenSumSet, MapThenFoldSet, AddsUp

Piece(S, n) == {s \in SUBSET S : Cardinality(s) <= n}
AddsUpTo(S, w, n, g) ==
    /\ g \in [Piece(S, n) -> Nat]
    /\ \A s \in Piece(S, n) : g[s] = IF s = {} THEN 0 ELSE w[CHOOSE x \in s : TRUE] + g[s \ {CHOOSE x \in s : TRUE}]

LEMMA Smaller ==
  ASSUME NEW S, IsFiniteSet(S), NEW s \in SUBSET S, s # {}
  PROVE  LET x == CHOOSE x \in s : TRUE IN
         /\ x \in s /\ s \ {x} \in SUBSET S
         /\ Cardinality(s) \in Nat /\ Cardinality(s \ {x}) \in Nat
         /\ Cardinality(s) > 0 /\ Cardinality(s \ {x}) = Cardinality(s) - 1
<1> DEFINE x == CHOOSE x \in s : TRUE
<1>1. x \in s
  OBVIOUS
<1>2. IsFiniteSet(s)
  BY FS_Subset
<1>3. IsFiniteSet(s \ {x}) /\ Cardinality(s \ {x}) = Cardinality(s) - 1
  BY <1>1, <1>2, FS_RemoveElement
<1>4. Cardinality(s) \in Nat /\ Cardinality(s \ {x}) \in Nat /\ Cardinality(s) # 0
  BY <1>1, <1>2, <1>3, FS_CardinalityType, FS_EmptySet
<1> QED
  BY <1>1, <1>3, <1>4

LEMMA PiecesAddUp ==
  ASSUME NEW S, IsFiniteSet(S), NEW w \in Weight(S)
  PROVE  \A n \in Nat : \E g : AddsUpTo(S, w, n, g)
<1> DEFINE G == {n \in Nat : \E g : AddsUpTo(S, w, n, g)}
<1>1. ASSUME NEW n \in Nat, \A m \in Nat : m < n => m \in G PROVE n \in G
  <2>1. CASE n = 0
    <3>1. Piece(S, 0) = {{}}
      <4>1. \A s \in SUBSET S : Cardinality(s) <= 0 => s = {}
        BY FS_Subset, FS_EmptySet, FS_CardinalityType
      <4> QED
        BY <4>1, FS_EmptySet DEF Piece
    <3>2. AddsUpTo(S, w, 0, [s \in {{}} |-> 0])
      BY <3>1 DEF AddsUpTo
    <3> QED
      BY <2>1, <3>2
  <2>2. CASE n # 0
    <3>1. n - 1 \in Nat /\ n - 1 < n
      BY <2>2
    <3>2. PICK g : AddsUpTo(S, w, n - 1, g)
      BY <1>1, <3>1
    <3> DEFINE h == [s \in Piece(S, n) |-> IF s \in Piece(S, n - 1) THEN g[s]
                        ELSE w[CHOOSE x \in s : TRUE] + g[s \ {CHOOSE x \in s : TRUE}]]
    <3>3. ASSUME NEW s \in Piece(S, n), s # {}
          PROVE  /\ s \in SUBSET S /\ (CHOOSE x \in s : TRUE) \in S
                 /\ s \ {CHOOSE x \in s : TRUE} \in Piece(S, n - 1)
                 /\ s \ {CHOOSE x \in s : TRUE} \in Piece(S, n)
      <4>1. s \in SUBSET S /\ Cardinality(s) <= n
        BY DEF Piece
      <4> QED
        BY <4>1, <3>3, Smaller, <3>1 DEF Piece
    <3>4. {} \in Piece(S, n - 1)
      BY <3>1, FS_EmptySet DEF Piece
    <3>5. ASSUME NEW s \in Piece(S, n)
          PROVE  /\ h[s] \in Nat
                 /\ h[s] = IF s = {} THEN 0 ELSE w[CHOOSE x \in s : TRUE] + h[s \ {CHOOSE x \in s : TRUE}]
      <4>1. CASE s = {}
        BY <4>1, <3>2, <3>4 DEF AddsUpTo
      <4>2. CASE s # {}
        <5> DEFINE x == CHOOSE x \in s : TRUE
        <5>1. x \in S /\ s \ {x} \in Piece(S, n - 1) /\ s \ {x} \in Piece(S, n)
          BY <4>2, <3>3
        <5> HIDE DEF x
        <5>2. h[s] = w[x] + g[s \ {x}]
          <6>1. CASE s \in Piece(S, n - 1)
            BY <6>1, <3>2, <4>2 DEF AddsUpTo, x
          <6>2. CASE s \notin Piece(S, n - 1)
            BY <6>2 DEF x
          <6> QED
            BY <6>1, <6>2
        <5>3. h[s \ {x}] = g[s \ {x}] /\ g[s \ {x}] \in Nat /\ w[x] \in Nat
          BY <5>1, <3>2 DEF AddsUpTo, Weight
        <5> QED
          BY <5>2, <5>3, <4>2 DEF x
      <4> QED
        BY <4>1, <4>2
    <3>6. AddsUpTo(S, w, n, h)
      <4> HIDE DEF h
      <4>1. h \in [Piece(S, n) -> Nat]
        BY <3>5 DEF h
      <4> QED
        BY <4>1, <3>5 DEF AddsUpTo
    <3> HIDE DEF h
    <3> QED
      BY <3>6
  <2> QED
    BY <2>1, <2>2
<1> HIDE DEF G
<1>2. \A n \in Nat : n \in G
  BY <1>1, CountUp
<1> QED
  BY <1>2 DEF G

LEMMA SumsExist ==
  ASSUME NEW S, IsFiniteSet(S), NEW w \in Weight(S)
  PROVE  \E iter : AddsUp(S, w, iter)
<1>1. Cardinality(S) \in Nat
  BY FS_CardinalityType
<1>2. PICK g : AddsUpTo(S, w, Cardinality(S), g)
  BY <1>1, PiecesAddUp
<1>3. Piece(S, Cardinality(S)) = SUBSET S
  BY FS_Subset DEF Piece
<1>4. g = [s \in SUBSET S |-> g[s]] /\ \A s \in SUBSET S : g[s] = IF s = {} THEN 0 ELSE w[CHOOSE x \in s : TRUE] + g[s \ {CHOOSE x \in s : TRUE}]
  BY <1>2, <1>3 DEF AddsUpTo
<1>5. AddsUp(S, w, g)
  BY <1>4 DEF AddsUp
<1> QED
  BY <1>5

(* Whatever is taken from a set, its weight is what the sum loses.          *)
LEMMA SumWithout ==
  ASSUME NEW S, IsFiniteSet(S), NEW w \in Weight(S), NEW f, AddsUp(S, w, f)
  PROVE  \A s \in SUBSET S : f[s] \in Nat /\ \A y \in s : f[s] = w[y] + f[s \ {y}]
<1> DEFINE Fine(s) == f[s] \in Nat /\ \A y \in s : f[s] = w[y] + f[s \ {y}]
           G == {n \in Nat : \A s \in SUBSET S : Cardinality(s) = n => Fine(s)}
<1>0. \A s \in SUBSET S : f[s] = IF s = {} THEN 0 ELSE w[CHOOSE x \in s : TRUE] + f[s \ {CHOOSE x \in s : TRUE}]
  BY DEF AddsUp
<1>1. ASSUME NEW n \in Nat, \A m \in Nat : m < n => m \in G PROVE n \in G
  <2> SUFFICES ASSUME NEW s \in SUBSET S, Cardinality(s) = n PROVE Fine(s)
    OBVIOUS
  <2>1. CASE s = {}
    BY <2>1, <1>0
  <2>2. CASE s # {}
    <3> DEFINE x == CHOOSE x \in s : TRUE
    <3>1. /\ x \in s /\ s \ {x} \in SUBSET S /\ Cardinality(s \ {x}) \in Nat /\ Cardinality(s \ {x}) < n
      BY <2>2, Smaller
    <3>2. f[s] = w[x] + f[s \ {x}]
      BY <2>2, <1>0
    <3> HIDE DEF x
    <3>3. Fine(s \ {x})
      BY <1>1, <3>1
    <3>4. \A i \in S : w[i] \in Nat
      BY DEF Weight
    <3>5. f[s] \in Nat
      BY <3>1, <3>2, <3>3, <3>4
    <3>6. ASSUME NEW y \in s PROVE f[s] = w[y] + f[s \ {y}]
      <4>1. CASE y = x
        BY <4>1, <3>2
      <4>2. CASE y # x
        <5>1. /\ s \ {y} \in SUBSET S /\ Cardinality(s \ {y}) \in Nat /\ Cardinality(s \ {y}) < n
          <6>1. IsFiniteSet(s)
            BY FS_Subset
          <6>2. Cardinality(s \ {y}) = Cardinality(s) - 1 /\ IsFiniteSet(s \ {y})
            BY <6>1, FS_RemoveElement
          <6> QED
            BY <6>2, FS_CardinalityType
        <5>2. Fine(s \ {y})
          BY <1>1, <5>1
        <5>3. y \in s \ {x} /\ x \in s \ {y} /\ (s \ {x}) \ {y} = (s \ {y}) \ {x}
          BY <3>1, <4>2
        <5>4. f[s \ {x}] = w[y] + f[(s \ {x}) \ {y}] /\ f[s \ {y}] = w[x] + f[(s \ {y}) \ {x}]
          BY <3>3, <5>2, <5>3
        <5>5. (s \ {x}) \ {y} \in SUBSET S /\ w[x] \in Nat /\ w[y] \in Nat
          BY <3>1, <3>4
        <5>6. f[(s \ {x}) \ {y}] \in Nat
          <6> DEFINE r == (s \ {x}) \ {y}
          <6>1. IsFiniteSet(s \ {x})
            BY FS_Subset
          <6>2. IsFiniteSet(r) /\ Cardinality(r) = Cardinality(s \ {x}) - 1
            BY <6>1, <5>3, FS_RemoveElement
          <6>3. Cardinality(r) \in Nat /\ Cardinality(r) < n
            BY <6>2, <3>1, FS_CardinalityType
          <6> QED
            BY <6>3, <5>5, <1>1
        <5> DEFINE rest == f[(s \ {x}) \ {y}]
        <5>7. f[(s \ {y}) \ {x}] = rest
          BY <5>3
        <5>8. f[s] = w[x] + (w[y] + rest) /\ f[s \ {y}] = w[x] + rest
          BY <3>2, <5>4, <5>7
        <5>9. rest \in Nat
          BY <5>6
        <5> HIDE DEF rest
        <5> QED
          BY <5>5, <5>8, <5>9
      <4> QED
        BY <4>1, <4>2
    <3> QED
      BY <3>5, <3>6
  <2> QED
    BY <2>1, <2>2
<1>2. \A n \in Nat : n \in G
  <2> HIDE DEF G
  <2> QED
    BY <1>1, CountUp
<1> QED
  <2> TAKE s \in SUBSET S
  <2>1. Cardinality(s) \in Nat
    BY FS_Subset, FS_CardinalityType
  <2> QED
    BY <2>1, <1>2

(* The sum over a part is the same, whether the whole or the part is added up. *)
LEMMA SumOfPart ==
  ASSUME NEW S, IsFiniteSet(S), NEW w \in Weight(S), NEW f, AddsUp(S, w, f),
         NEW T \in SUBSET S, NEW g, AddsUp(T, w, g)
  PROVE  g[T] = f[T]
<1> DEFINE G == {n \in Nat : \A s \in SUBSET T : Cardinality(s) = n => g[s] = f[s]}
<1>0. /\ \A s \in SUBSET S : f[s] = IF s = {} THEN 0 ELSE w[CHOOSE x \in s : TRUE] + f[s \ {CHOOSE x \in s : TRUE}]
      /\ \A s \in SUBSET T : g[s] = IF s = {} THEN 0 ELSE w[CHOOSE x \in s : TRUE] + g[s \ {CHOOSE x \in s : TRUE}]
  BY DEF AddsUp
<1>3. IsFiniteSet(T)
  BY FS_Subset
<1>1. ASSUME NEW n \in Nat, \A m \in Nat : m < n => m \in G PROVE n \in G
  <2> SUFFICES ASSUME NEW s \in SUBSET T, Cardinality(s) = n PROVE g[s] = f[s]
    OBVIOUS
  <2>1. CASE s = {}
    BY <2>1, <1>0
  <2>2. CASE s # {}
    <3> DEFINE x == CHOOSE x \in s : TRUE
    <3>1. s \ {x} \in SUBSET T /\ Cardinality(s \ {x}) \in Nat /\ Cardinality(s \ {x}) < n
      BY <2>2, <1>3, Smaller
    <3>2. f[s] = w[x] + f[s \ {x}] /\ g[s] = w[x] + g[s \ {x}]
      BY <2>2, <1>0
    <3> HIDE DEF x
    <3> QED
      BY <1>1, <3>1, <3>2
  <2> QED
    BY <2>1, <2>2
<1>2. \A n \in Nat : n \in G
  <2> HIDE DEF G
  <2> QED
    BY <1>1, CountUp
<1> QED
  BY <1>2, <1>3, FS_CardinalityType

(* The sum over a set has its weights in it, and grows with the set.        *)
LEMMA SumsTell ==
  ASSUME NEW S, IsFiniteSet(S), NEW w \in Weight(S)
  PROVE  \E f : /\ \A T \in SUBSET S : /\ MapThenSumSet(LAMBDA i : w[i], T) = f[T] /\ f[T] \in Nat
                                       /\ \A i \in T : w[i] <= f[T]
                /\ \A T, U \in SUBSET S : T \subseteq U => f[T] <= f[U]
<1>1. PICK f : AddsUp(S, w, f)
  BY SumsExist
<1>2. \A s \in SUBSET S : f[s] \in Nat /\ \A y \in s : f[s] = w[y] + f[s \ {y}]
  BY <1>1, SumWithout
<1>3. \A i \in S : w[i] \in Nat
  BY DEF Weight
<1>4. ASSUME NEW T \in SUBSET S PROVE MapThenSumSet(LAMBDA i : w[i], T) = f[T]
  <2> DEFINE v == [i \in T |-> w[i]]
             g == CHOOSE iter : AddsUp(T, w, iter)
  <2>1. IsFiniteSet(T) /\ v \in Weight(T)
    BY <1>3, FS_Subset DEF Weight
  <2>2. PICK h : AddsUp(T, v, h)
    BY <2>1, SumsExist
  <2>3. AddsUp(T, w, h)
    <3>1. \A s \in SUBSET T : s # {} => v[CHOOSE x \in s : TRUE] = w[CHOOSE x \in s : TRUE]
      OBVIOUS
    <3> HIDE DEF v
    <3>2. h = [s \in SUBSET T |-> h[s]] /\ \A s \in SUBSET T : h[s] = IF s = {} THEN 0 ELSE w[CHOOSE x \in s : TRUE] + h[s \ {CHOOSE x \in s : TRUE}]
      BY <2>2, <3>1 DEF AddsUp
    <3> QED
      BY <3>2 DEF AddsUp
  <2>4. AddsUp(T, w, g)
    BY <2>3
  <2>5. g[T] = f[T]
    <3> HIDE DEF g
    <3> QED
      BY <1>1, <2>4, SumOfPart
  <2> QED
    BY <2>5, SumIsChosen
<1>5. ASSUME NEW T \in SUBSET S, NEW i \in T PROVE w[i] <= f[T]
  <2>1. f[T] = w[i] + f[T \ {i}] /\ f[T \ {i}] \in Nat
    BY <1>2
  <2> QED
    BY <2>1, <1>3
<1>6. ASSUME NEW T \in SUBSET S, NEW U \in SUBSET S, T \subseteq U PROVE f[T] <= f[U]
  <2> DEFINE G == {n \in Nat : \A V \in SUBSET S : T \subseteq V /\ Cardinality(V) = n => f[T] <= f[V]}
  <2>1. ASSUME NEW n \in Nat, \A m \in Nat : m < n => m \in G PROVE n \in G
    <3> SUFFICES ASSUME NEW V \in SUBSET S, T \subseteq V, Cardinality(V) = n PROVE f[T] <= f[V]
      OBVIOUS
    <3>1. CASE V = T
      BY <3>1, <1>2
    <3>2. CASE V # T
      <4>1. PICK y \in V : y \notin T
        BY <3>2
      <4>2. IsFiniteSet(V)
        BY FS_Subset
      <4>3. IsFiniteSet(V \ {y}) /\ Cardinality(V \ {y}) = Cardinality(V) - 1
        BY <4>2, FS_RemoveElement
      <4>4. Cardinality(V \ {y}) \in Nat /\ Cardinality(V \ {y}) < n
        BY <4>3, FS_CardinalityType
      <4>5. T \subseteq V \ {y} /\ V \ {y} \in SUBSET S
        BY <4>1
      <4>6. f[T] <= f[V \ {y}]
        BY <2>1, <4>4, <4>5
      <4>7. f[V] = w[y] + f[V \ {y}] /\ f[V \ {y}] \in Nat /\ w[y] \in Nat /\ f[T] \in Nat
        BY <1>2, <1>3, <4>5
      <4> QED
        BY <4>6, <4>7
    <3> QED
      BY <3>1, <3>2
  <2>2. \A n \in Nat : n \in G
    <3> HIDE DEF G
    <3> QED
      BY <2>1, CountUp
  <2>3. Cardinality(U) \in Nat
    BY FS_Subset, FS_CardinalityType
  <2> QED
    BY <2>2, <2>3, <1>6
<1> QED
  BY <1>2, <1>4, <1>5, <1>6
(* The image of a finite set is finite.                                     *)
LEMMA FiniteImage ==
  ASSUME NEW S, IsFiniteSet(S), NEW f, DOMAIN f = S
  PROVE  IsFiniteSet({f[x] : x \in S})
<1> DEFINE T == {f[x] : x \in S}
           g == [x \in S |-> f[x]]
<1>1. g \in Surjection(S, T)
  BY DEF Surjection
<1> HIDE DEF g, T
<1>2. IsFiniteSet(T)
  BY <1>1, FS_Surjection
<1> QED
  BY <1>2 DEF T

-----------------------------------------------------------------------------
(* A walk of a graph, a step at a time: what it has come to after each.     *)
NextTo(g, s) == {l[2] : l \in {l \in g : l[1] \in s}}
NoWayOut(g, s) == \A l \in g : l[1] \in s => l[2] \in s
Walks(g, s, n, f) == f = [k \in 0..n |-> IF k = 0 THEN s ELSE f[k - 1] \cup NextTo(g, f[k - 1])]

LEMMA WalksExist ==
  ASSUME NEW g, NEW s, NEW n \in Nat
  PROVE  \E f : Walks(g, s, n, f)
<1> DEFINE G == {m \in Nat : \E f : Walks(g, s, m, f)}
<1>1. ASSUME NEW m \in Nat, \A k \in Nat : k < m => k \in G PROVE m \in G
  <2>1. CASE m = 0
    <3>1. Walks(g, s, 0, [k \in 0..0 |-> s])
      BY DEF Walks
    <3> QED
      BY <2>1, <3>1
  <2>2. CASE m # 0
    <3>1. m - 1 \in Nat /\ m - 1 < m
      BY <2>2
    <3>2. PICK f : Walks(g, s, m - 1, f)
      BY <1>1, <3>1
    <3> DEFINE h == [k \in 0..m |-> IF k < m THEN f[k] ELSE f[m - 1] \cup NextTo(g, f[m - 1])]
    <3>0. m \in 0..m /\ m > 0 /\ \A k \in 0..m : k \in Nat /\ (k < m => k \in 0..(m - 1)) /\ (k > 0 => k - 1 \in 0..(m - 1))
      BY <2>2
    <3>3. \A k \in 0..(m - 1) : f[k] = IF k = 0 THEN s ELSE f[k - 1] \cup NextTo(g, f[k - 1])
      BY <3>2 DEF Walks
    <3>4. ASSUME NEW k \in 0..m PROVE h[k] = IF k = 0 THEN s ELSE h[k - 1] \cup NextTo(g, h[k - 1])
      <4>1. CASE k < m
        <5>1. h[k] = f[k]
          BY <4>1
        <5>2. ASSUME k # 0 PROVE h[k - 1] = f[k - 1]
          <6>1. k - 1 \in 0..m /\ k - 1 < m
            BY <5>2, <4>1, <3>0
          <6> QED
            BY <6>1
        <5> QED
          BY <5>1, <5>2, <3>0, <3>3, <4>1
      <4>2. CASE k = m
        <5>1. m - 1 \in 0..m /\ m - 1 < m /\ ~(m < m)
          BY <3>0
        <5>2. h[m - 1] = f[m - 1] /\ h[m] = f[m - 1] \cup NextTo(g, f[m - 1])
          BY <5>1, <3>0
        <5> QED
          BY <4>2, <2>2, <5>2
      <4> QED
        BY <4>1, <4>2, <3>0
    <3>5. h = [k \in 0..m |-> h[k]]
      OBVIOUS
    <3> HIDE DEF h
    <3>6. Walks(g, s, m, h)
      BY <3>4, <3>5 DEF Walks
    <3> QED
      BY <3>6
  <2> QED
    BY <2>1, <2>2
<1> HIDE DEF G
<1>2. \A m \in Nat : m \in G
  BY <1>1, CountUp
<1> QED
  BY <1>2 DEF G

(* Counting up to a number, one after another.                              *)
LEMMA CountTo ==
  ASSUME NEW N \in Nat, NEW G, 0 \in G, \A n \in 1..N : n - 1 \in G => n \in G
  PROVE  N \in G
<1> DEFINE H == {n \in Nat : n <= N => n \in G}
<1>1. ASSUME NEW n \in Nat, \A m \in Nat : m < n => m \in H PROVE n \in H
  <2>1. CASE n = 0
    BY <2>1
  <2>2. CASE n # 0
    <3> SUFFICES ASSUME n <= N PROVE n \in G
      OBVIOUS
    <3>1. n - 1 \in Nat /\ n - 1 < n /\ n - 1 <= N /\ n \in 1..N
      BY <2>2
    <3> QED
      BY <3>1, <1>1
  <2> QED
    BY <2>1, <2>2
<1> HIDE DEF H
<1>2. N \in H
  BY <1>1, CountUp
<1> QED
  BY <1>2 DEF H

(* A walk that makes as many steps as there are nodes has come to the least *)
(* set that has those it began at and from which no edge leads.             *)
LEMMA WalkStays ==
  ASSUME NEW g, NEW s, NEW n \in Nat, NEW f, Walks(g, s, n, f), NEW c, s \subseteq c, NoWayOut(g, c)
  PROVE  f[n] \subseteq c
<1> DEFINE G == {k \in 0..n : f[k] \subseteq c}
<1>1. \A k \in 0..n : f[k] = IF k = 0 THEN s ELSE f[k - 1] \cup NextTo(g, f[k - 1])
  BY DEF Walks
<1>2. 0 \in G
  <2>1. 0 \in 0..n
    OBVIOUS
  <2> QED
    BY <2>1, <1>1
<1>3. ASSUME NEW k \in 1..n, k - 1 \in G PROVE k \in G
  <2>1. k \in 0..n /\ k # 0
    OBVIOUS
  <2>2. f[k] = f[k - 1] \cup NextTo(g, f[k - 1])
    BY <1>1, <2>1
  <2>3. f[k - 1] \subseteq c
    BY <1>3
  <2>4. NextTo(g, f[k - 1]) \subseteq c
    BY <2>3 DEF NextTo, NoWayOut
  <2> QED
    BY <2>1, <2>2, <2>3, <2>4
<1> HIDE DEF G
<1>4. n \in G
  BY <1>2, <1>3, CountTo
<1> QED
  BY <1>4 DEF G

LEMMA WalkEnds ==
  ASSUME NEW U, IsFiniteSet(U), NEW g \in SUBSET (U \X U), NEW s \in SUBSET U,
         NEW f, Walks(g, s, Cardinality(U), f)
  PROVE  LET w == f[Cardinality(U)] IN
         /\ s \subseteq w /\ w \in SUBSET U /\ NoWayOut(g, w)
         /\ \A c : s \subseteq c /\ NoWayOut(g, c) => w \subseteq c
<1> DEFINE N == Cardinality(U)
<1>0. N \in Nat
  BY FS_CardinalityType
<1> HIDE DEF N
<1>1. \A k \in 0..N : f[k] = IF k = 0 THEN s ELSE f[k - 1] \cup NextTo(g, f[k - 1])
  BY <1>0 DEF Walks, N
<1> DEFINE Fine(k) == /\ s \subseteq f[k] /\ f[k] \in SUBSET U
                      /\ NoWayOut(g, f[k]) \/ Cardinality(f[k]) >= k
           G == {k \in 0..N : Fine(k)}
<1>2. 0 \in G
  <2>1. 0 \in 0..N
    BY <1>0
  <2>2. f[0] = s
    BY <1>1, <2>1
  <2>3. Cardinality(s) \in Nat
    BY FS_Subset, FS_CardinalityType
  <2> QED
    BY <2>1, <2>2, <2>3
<1>3. ASSUME NEW k \in 1..N, k - 1 \in G PROVE k \in G
  <2> DEFINE before == f[k - 1]
  <2>1. k \in 0..N /\ k # 0 /\ k \in Nat /\ k - 1 \in Nat
    BY <1>0
  <2>2. f[k] = before \cup NextTo(g, before)
    BY <1>1, <2>1
  <2>3. /\ s \subseteq before /\ before \in SUBSET U
        /\ NoWayOut(g, before) \/ Cardinality(before) >= k - 1
    BY <1>3
  <2> HIDE DEF Fine, before
  <2>4. NextTo(g, before) \in SUBSET U
    BY DEF NextTo
  <2>5. CASE NoWayOut(g, before)
    <3>1. f[k] = before
      BY <2>2, <2>5 DEF NextTo, NoWayOut
    <3> QED
      BY <3>1, <2>1, <2>3, <2>5 DEF Fine
  <2>6. CASE ~NoWayOut(g, before)
    <3>1. f[k] \in SUBSET U /\ before \subseteq f[k] /\ before # f[k]
      BY <2>2, <2>3, <2>4, <2>6 DEF NoWayOut, NextTo
    <3>2. IsFiniteSet(f[k]) /\ IsFiniteSet(before)
      BY <3>1, <2>3, FS_Subset
    <3>3. Cardinality(before) < Cardinality(f[k]) /\ Cardinality(before) \in Nat /\ Cardinality(f[k]) \in Nat
      BY <3>1, <3>2, FS_Subset, FS_CardinalityType
    <3>4. Cardinality(f[k]) >= k
      BY <3>3, <2>1, <2>3, <2>6
    <3> QED
      BY <3>1, <3>4, <2>1, <2>3 DEF Fine
  <2> QED
    BY <2>5, <2>6
<1> HIDE DEF G
<1>4. N \in G
  BY <1>0, <1>2, <1>3, CountTo
<1>5. Fine(N)
  BY <1>4 DEF G
<1>6. NoWayOut(g, f[N])
  <2>1. CASE Cardinality(f[N]) >= N
    <3>1. Cardinality(f[N]) <= N /\ Cardinality(f[N]) \in Nat /\ (Cardinality(f[N]) = N => f[N] = U)
      BY <1>5, FS_Subset, FS_CardinalityType DEF N
    <3>2. f[N] = U
      BY <2>1, <3>1, <1>0
    <3> QED
      BY <3>2 DEF NoWayOut
  <2> QED
    BY <1>5, <2>1
<1>7. ASSUME NEW c, s \subseteq c, NoWayOut(g, c) PROVE f[N] \subseteq c
  <2>1. Walks(g, s, N, f)
    BY DEF N
  <2> QED
    BY <2>1, <1>0, <1>7, WalkStays
<1> QED
  BY <1>5, <1>6, <1>7 DEF N

-----------------------------------------------------------------------------
(* A sequence after another has the elements of both, each once if no two   *)
(* of them are the same.                                                    *)
LEMMA OneAfterAnother ==
  ASSUME NEW S, NEW q \in Seq(S), NEW r \in Seq(S)
  PROVE  /\ q \o r \in Seq(S) /\ Len(q \o r) = Len(q) + Len(r)
         /\ Range(q \o r) = Range(q) \cup Range(r)
         /\ IsInjective(q) /\ IsInjective(r) /\ Range(q) \cap Range(r) = {} => IsInjective(q \o r)
<1> DEFINE c == q \o r
<1>1. /\ c \in Seq(S) /\ Len(q) \in Nat /\ Len(r) \in Nat /\ Len(c) = Len(q) + Len(r)
      /\ DOMAIN q = 1..Len(q) /\ DOMAIN r = 1..Len(r) /\ DOMAIN c = 1..Len(c)
      /\ \A i \in 1..Len(c) : c[i] = IF i <= Len(q) THEN q[i] ELSE r[i - Len(q)]
  BY ConcatProperties, LenProperties
<1> HIDE DEF c
<1>2. \A i \in 1..Len(c) : \/ i \in 1..Len(q) /\ c[i] = q[i]
                           \/ i > Len(q) /\ i - Len(q) \in 1..Len(r) /\ c[i] = r[i - Len(q)]
  BY <1>1
<1>3. \A i \in 1..Len(q) : i \in 1..Len(c) /\ c[i] = q[i]
  BY <1>1
<1>4. \A i \in 1..Len(r) : i + Len(q) \in 1..Len(c) /\ c[i + Len(q)] = r[i]
  BY <1>1
<1>5. Range(c) = Range(q) \cup Range(r)
  <2>1. Range(c) \subseteq Range(q) \cup Range(r)
    BY <1>1, <1>2 DEF Range
  <2>2. Range(q) \subseteq Range(c)
    BY <1>1, <1>3 DEF Range
  <2>3. Range(r) \subseteq Range(c)
    BY <1>1, <1>4 DEF Range
  <2> QED
    BY <2>1, <2>2, <2>3
<1>6. ASSUME IsInjective(q), IsInjective(r), Range(q) \cap Range(r) = {} PROVE IsInjective(c)
  <2> SUFFICES ASSUME NEW i \in 1..Len(c), NEW j \in 1..Len(c), c[i] = c[j] PROVE i = j
    BY <1>1 DEF IsInjective
  <2>1. \A k \in 1..Len(q) : q[k] \in Range(q)
    BY <1>1 DEF Range
  <2>2. \A k \in 1..Len(r) : r[k] \in Range(r)
    BY <1>1 DEF Range
  <2>3. \A k, l \in 1..Len(q) : q[k] = q[l] => k = l
    BY <1>1, <1>6 DEF IsInjective
  <2>4. \A k, l \in 1..Len(r) : r[k] = r[l] => k = l
    BY <1>1, <1>6 DEF IsInjective
  <2>5. CASE i \in 1..Len(q) /\ c[i] = q[i] /\ j \in 1..Len(q) /\ c[j] = q[j]
    BY <2>3, <2>5
  <2>6. CASE i \in 1..Len(q) /\ c[i] = q[i] /\ j - Len(q) \in 1..Len(r) /\ c[j] = r[j - Len(q)]
    BY <2>1, <2>2, <2>6, <1>6
  <2>7. CASE j \in 1..Len(q) /\ c[j] = q[j] /\ i - Len(q) \in 1..Len(r) /\ c[i] = r[i - Len(q)]
    BY <2>1, <2>2, <2>7, <1>6
  <2>8. CASE i - Len(q) \in 1..Len(r) /\ c[i] = r[i - Len(q)] /\ j - Len(q) \in 1..Len(r) /\ c[j] = r[j - Len(q)]
    <3>1. i - Len(q) = j - Len(q)
      BY <2>4, <2>8
    <3> QED
      BY <3>1, <1>1
  <2>9. /\ \/ i \in 1..Len(q) /\ c[i] = q[i]
           \/ i - Len(q) \in 1..Len(r) /\ c[i] = r[i - Len(q)]
        /\ \/ j \in 1..Len(q) /\ c[j] = q[j]
           \/ j - Len(q) \in 1..Len(r) /\ c[j] = r[j - Len(q)]
    BY <1>2
  <2> QED
    BY ONLY <2>5, <2>6, <2>7, <2>8, <2>9
<1> QED
  BY <1>1, <1>5, <1>6 DEF c

(* The beginning of a sequence.                                             *)
LEMMA TheFirstOnes ==
  ASSUME NEW S, NEW q \in Seq(S), NEW k \in Nat, k <= Len(q)
  PROVE  /\ SubSeq(q, 1, k) \in Seq(S) /\ Len(SubSeq(q, 1, k)) = k
         /\ Range(SubSeq(q, 1, k)) \subseteq Range(q)
         /\ IsInjective(q) => IsInjective(SubSeq(q, 1, k))
<1> DEFINE p == SubSeq(q, 1, k)
<1>1. /\ Len(q) \in Nat /\ DOMAIN q = 1..Len(q) /\ \A i \in 1..Len(q) : q[i] \in S
  BY LenProperties, ElementOfSeq
<1>2. p \in Seq(S) /\ Len(p) = k /\ \A i \in 1..k : p[i] = q[i]
  BY <1>1, SubSeqProperties
<1>3. DOMAIN p = 1..k
  BY <1>2, LenProperties
<1>4. \A i \in 1..k : i \in DOMAIN q
  BY <1>1
<1> HIDE DEF p
<1> QED
  BY <1>1, <1>2, <1>3, <1>4 DEF Range, IsInjective, p

(* Taking the steps of a loop, one after another: there is a function that  *)
(* says what each turn begins and ends with, and only one.                  *)

Loops(N, S, first, F, h) == h \in [0..N -> S] /\ h[0] = first /\ \A n \in 1..N : h[n] = F[n][h[n - 1]]
LEMMA LoopExists ==
  ASSUME NEW N \in Nat, NEW S, NEW first \in S, NEW F \in [1..N -> [S -> S]]
  PROVE  \E h : Loops(N, S, first, F, h)
<1> DEFINE Done(n, h) == h \in [0..N -> S] /\ h[0] = first /\ \A k \in 1..n : h[k] = F[k][h[k - 1]]
           G == {n \in Nat : n <= N => \E h : Done(n, h)}
<1>1. ASSUME NEW n \in Nat, \A m \in Nat : m < n => m \in G PROVE n \in G
  <2> SUFFICES ASSUME n <= N PROVE \E h : Done(n, h)
    OBVIOUS
  <2>1. CASE n = 0
    <3>1. Done(0, [k \in 0..N |-> first])
      OBVIOUS
    <3> QED
      BY <2>1, <3>1
  <2>2. CASE n # 0
    <3>1. n - 1 \in Nat /\ n - 1 < n /\ n - 1 <= N /\ n - 1 \in 0..N /\ n \in 1..N /\ n \in 0..N
      BY <2>2
    <3>2. PICK g : Done(n - 1, g)
      BY <1>1, <3>1
    <3> DEFINE h == [g EXCEPT ![n] = F[n][g[n - 1]]]
    <3>3. g[n - 1] \in S /\ F[n][g[n - 1]] \in S
      BY <3>1, <3>2
    <3>4. h \in [0..N -> S] /\ h[n] = F[n][g[n - 1]] /\ \A k \in 0..N : k # n => h[k] = g[k]
      BY <3>1, <3>2, <3>3
    <3> HIDE DEF h
    <3>5. h[0] = first
      BY <3>2, <3>4, <2>2
    <3>6. ASSUME NEW k \in 1..n PROVE h[k] = F[k][h[k - 1]]
      <4>1. k - 1 \in 0..N /\ k - 1 # n /\ k \in 0..N
        BY <3>1
      <4>2. CASE k = n
        BY <4>1, <4>2, <3>4
      <4>3. CASE k # n
        <5>1. k \in 1..(n - 1)
          BY <4>3, <3>1
        <5> QED
          BY <4>1, <4>3, <5>1, <3>2, <3>4
      <4> QED
        BY <4>2, <4>3
    <3>7. Done(n, h)
      BY <3>4, <3>5, <3>6
    <3> QED
      BY <3>7
  <2> QED
    BY <2>1, <2>2
<1> HIDE DEF G
<1>2. N \in G
  BY <1>1, CountUp
<1> QED
  BY <1>2 DEF G, Loops
=============================================================================
