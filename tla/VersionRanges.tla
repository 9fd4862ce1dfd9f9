---------------------------- MODULE VersionRanges ----------------------------
(***************************************************************************)
(* How versions are compared, and ranges of versions are read: SemVerEngine *)
(* (domain/dependencies/semver_engine.py), which advisories and pull       *)
(* requests use, and VersionSpec.are_conflicting (version.py), which rule  *)
(* PYH-DEP-003 uses.  A version is what is written of it: one to three     *)
(* numbers, and the number of a pre-release, after a dash (1.0.0-rc1) or   *)
(* not (1.0.0rc1).  A range is parts joined by commas, a part is clauses   *)
(* joined by blanks, a clause is an operator and a version.  The range is  *)
(* built part by part, and then asked.                                     *)
(***************************************************************************)
EXTENDS Integers, Sequences, FiniteSetsExt, SequencesExt

CONSTANTS RangeVersions,   \* versions, as they are written
          RangeParts,      \* parts of ranges
          SampleVersions,  \* those that are_conflicting tries by itself
          MaxParts         \* bound: parts of a range

Number == 0..3
Writing == [digits : UNION {[1..n -> Number] : n \in 1..3}, pre : Number, dashed : BOOLEAN]

Operators == {"^", "~", "~=", "==", "!=", ">=", ">", "<=", "<"}

ASSUME VersionRangesAssumption ==
    /\ RangeVersions \cup SampleVersions \subseteq Writing /\ MaxParts \in Nat
    /\ \A w \in SampleVersions : w.pre = 0
    /\ RangeParts \subseteq Seq([op : Operators, version : Writing])
    /\ \A p \in RangeParts : Len(p) \in 1..2

VARIABLES range,   \* the parts so far
          reply   \* what was asked of it and answered, or Unasked

rangeVars == <<range, reply>>
Unasked == [what |-> "nothing"]
RangeInit == range = << >> /\ reply = Unasked

Digit(digits, n) == IF n \in DOMAIN digits THEN digits[n] ELSE 0

(* The first three numbers there are, and the pre-release: one without a    *)
(* dash is a number like the others, and is lost behind three of them.      *)
ParseVersionTuple(w) ==
    LET numbers == IF w.pre # 0 /\ ~w.dashed THEN Append(w.digits, w.pre) ELSE w.digits
    IN [n \in 1..4 |-> IF n = 4 THEN (IF w.dashed THEN w.pre ELSE 0) ELSE Digit(numbers, n)]

(* A pre-release comes before its release.  Mutant: it does not.            *)
PreBeforeAsText(p, q) == p < q
PreBefore(p, q) == p # q /\ (q = 0 \/ (p # 0 /\ p < q))

FirstDifference(t, u) == CHOOSE n \in 1..4 : t[n] # u[n] /\ \A m \in 1..(n-1) : t[m] = u[m]
Before(t, u) ==
    /\ t # u
    /\ LET n == FirstDifference(t, u) IN IF n = 4 THEN PreBefore(t[4], u[4]) ELSE t[n] < u[n]
CompareVersions(t, u) == IF t = u THEN 0 ELSE IF Before(t, u) THEN -1 ELSE 1

(* The operator is that of the first clause of a part; whatever else there  *)
(* is in it are numbers of its version.                                     *)
BaseOf(piece) ==
    IF Len(piece) = 1 THEN ParseVersionTuple(piece[1].version)
    ELSE ParseVersionTuple([piece[1].version EXCEPT !.digits = @ \o piece[2].version.digits])

(* One of the parts of is_version_in_range; "~=" begins with "~", and "!="  *)
(* with nothing that is looked for.                                         *)
InPart(w, piece) ==
    LET base == BaseOf(piece)
        way == CompareVersions(ParseVersionTuple(w), base)
        below(upper) == Before(ParseVersionTuple(w), upper)
        op == piece[1].op
    IN CASE op = "^" -> way >= 0 /\ below(<<base[1] + 1, 0, 0, 0>>)
         [] op \in {"~", "~="} -> way >= 0 /\ below(<<base[1], base[2] + 1, 0, 0>>)
         [] op = ">=" -> way >= 0
         [] op = ">" -> way > 0
         [] op = "<=" -> way <= 0
         [] op = "<" -> way < 0
         [] op \in {"==", "!="} -> way = 0

IsVersionInRange(w) == \A n \in DOMAIN range : InPart(w, range[n])

AddPart(piece) == /\ Len(range) < MaxParts /\ reply = Unasked
                 /\ range' = Append(range, piece) /\ UNCHANGED reply

AskVersion(w) == /\ reply = Unasked
                 /\ reply' = [what |-> "version", version |-> w, answer |-> IsVersionInRange(w)]
                 /\ UNCHANGED range

(* What is written means: the order of versions, as one number, and what    *)
(* the operators stand for in package.json and in requirements (packaging,  *)
(* for the latter).                                                         *)
Place(w) == 64 * Digit(w.digits, 1) + 16 * Digit(w.digits, 2) + 4 * Digit(w.digits, 3)
            + (IF w.pre = 0 THEN 3 ELSE w.pre - 1)
Agree(w, base, n) == \A m \in 1..n : Digit(w.digits, m) = Digit(base.digits, m)
Leading(base) == IF Digit(base.digits, 1) # 0 THEN 1 ELSE IF Digit(base.digits, 2) # 0 THEN 2 ELSE 3
Means(w, clause) ==
    LET base == clause.version
        way == Place(w) - Place(base)
    IN CASE clause.op = "^" -> way >= 0 /\ Agree(w, base, Leading(base))
         [] clause.op = "~" -> way >= 0 /\ Agree(w, base, Min({Len(base.digits), 2}))
         [] clause.op = "~=" -> way >= 0 /\ Agree(w, base, Len(base.digits) - 1)
         [] clause.op = ">=" -> way >= 0
         [] clause.op = ">" -> way > 0
         [] clause.op = "<=" -> way <= 0
         [] clause.op = "<" -> way < 0
         [] clause.op = "==" -> way = 0
         [] clause.op = "!=" -> way # 0
MeantBy(w, parts) == \A n \in DOMAIN parts, m \in 1..2 : m \in DOMAIN parts[n] => Means(w, parts[n][m])

(* What packaging takes for a specifier.                                    *)
IsSpecifier(piece) ==
    Len(piece) = 1 /\ piece[1].op \notin {"^", "~"} /\ (piece[1].op = "~=" => Len(piece[1].version.digits) > 1)

(* Two packages ask for one other: the one for the first part, the other    *)
(* for the rest.  Only releases are considered here.                        *)
AskConflict ==
    /\ reply = Unasked /\ Len(range) > 1
    /\ \A n \in DOMAIN range : range[n][1].version.pre = 0
    /\ LET tried == SampleVersions \cup {range[n][1].version : n \in DOMAIN range}
       IN reply' = [what |-> "conflict",
                    answer |-> /\ \A n \in DOMAIN range : IsSpecifier(range[n])
                               /\ \A w \in tried : ~MeantBy(w, range)]
    /\ UNCHANGED range

RangeNext == \/ \E piece \in RangeParts : AddPart(piece)
             \/ \E w \in RangeVersions : AskVersion(w)
             \/ AskConflict
RangeSpec == RangeInit /\ [][RangeNext]_rangeVars

-----------------------------------------------------------------------------
RangeTypeOK == /\ Len(range) <= MaxParts /\ \A n \in DOMAIN range : Len(range[n]) \in 1..2
               /\ reply = Unasked \/ reply.answer \in BOOLEAN

Dashed(w) == w.pre = 0 \/ w.dashed
(* The engine reads a part as it is meant where it has one clause, and what *)
(* the operator leaves out is what the engine's upper bound leaves out.     *)
ReadAsMeant(w, piece) ==
    /\ Len(piece) = 1 /\ Dashed(w) /\ Dashed(piece[1].version)
    /\ CASE piece[1].op = "^" -> w.pre = 0 /\ piece[1].version.digits[1] # 0
         [] piece[1].op = "~" -> w.pre = 0 /\ Len(piece[1].version.digits) > 1
         [] piece[1].op = "~=" -> w.pre = 0 /\ Len(piece[1].version.digits) = 3
         [] piece[1].op = "!=" -> FALSE
         [] OTHER -> TRUE

(* A version is in a range when every part means it, for all that the       *)
(* engine reads as it is meant.  A caret of a version below 1 only lets in  *)
(* more, so what an advisory says of such a range is never missed.          *)
RangesRight ==
    reply.what = "version" =>
        /\ (\A n \in DOMAIN range : ReadAsMeant(reply.version, range[n]))
              => reply.answer = MeantBy(reply.version, range)
        /\ (/\ \A n \in DOMAIN range : ReadAsMeant(reply.version, range[n])
                   \/ (range[n][1].op = "^" /\ Len(range[n]) = 1 /\ Dashed(reply.version)
                                            /\ Dashed(range[n][1].version))
            /\ MeantBy(reply.version, range))
              => reply.answer

(* Two requirements are said to conflict when no version meets both, unless *)
(* the least that could meet them is itself shut out or is not named: only  *)
(* named versions are tried, and a few more.                                *)
Releases == [digits : [1..3 -> Number], pre : {0}, dashed : {FALSE}]
ConflictsRight ==
    reply.what = "conflict" =>
        /\ ((\E w \in Releases : MeantBy(w, range)) /\ reply.answer) =>
               \/ \E n \in DOMAIN range : range[n][1].op \in {">", "!="}
               \/ \A n \in DOMAIN range : range[n][1].op \in {"<", "<="}
        /\ (\A w \in Releases : ~MeantBy(w, range)) =>
               (reply.answer \/ \E n \in DOMAIN range : ~IsSpecifier(range[n]))
=============================================================================
