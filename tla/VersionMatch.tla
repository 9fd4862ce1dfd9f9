---------------------------- MODULE VersionMatch ----------------------------
(***************************************************************************)
(* VersionMatcher (domain/vulnerabilities/version_matcher.py): one advisory *)
(* is weighed against one dependency.  _build_intervals reads the events of *)
(* the advisory's range one by one, as osv.py took them over; evaluate then *)
(* judges the dependency.  A version is a number, or Invalid where packaging*)
(* cannot read what is written; a constraint is the set of versions it      *)
(* accepts.  An advisory has one range here: the code takes several one     *)
(* after the other and asks whether any of them holds.                      *)
(***************************************************************************)
EXTENDS Integers, Sequences, FiniteSetsExt

CONSTANTS MatchVersions,  \* the versions there are
          MaxEvents,      \* bound: events of the range
          NoVersion,      \* None, or nothing written
          Invalid         \* what packaging refuses

ASSUME VersionMatchAssumption ==
    /\ MatchVersions \subseteq Nat /\ MaxEvents \in Nat
    /\ {NoVersion, Invalid} \cap Nat = {} /\ NoVersion # Invalid

VARIABLES events,      \* of the range, as read so far
          introduced,  \* current_introduced
          intervals,   \* those closed so far
          verdict      \* what evaluate returned, NoVersion before

matchVars == <<events, introduced, intervals, verdict>>

(* None for what cannot be read.  Mutant: what is written, as it is.        *)
ParsedAsWritten(raw) == raw
Parsed(raw) == IF raw = Invalid THEN NoVersion ELSE raw
Event == [kind : {"introduced", "fixed", "last_affected"}, at : MatchVersions \cup {Invalid}]
Constraint == {NoVersion, Invalid} \cup ({limits[1]..limits[2] : limits \in MatchVersions \X MatchVersions} \ {{}})
MatchedDep == [version : MatchVersions \cup {NoVersion, Invalid}, constraint : Constraint]

MatchInit == events = << >> /\ introduced = NoVersion /\ intervals = {} /\ verdict = NoVersion

(* Mutant: a fix that closes nothing, so that the next event decides.       *)
ReadEventOpen(e) ==
    /\ verdict = NoVersion /\ Len(events) < MaxEvents
    /\ events' = Append(events, e)
    /\ intervals' = IF e.kind = "fixed" THEN intervals \cup {[from |-> introduced, to |-> Parsed(e.at)]} ELSE intervals
    /\ introduced' = IF e.kind = "introduced" THEN Parsed(e.at) ELSE introduced
    /\ UNCHANGED verdict
(* One turn of the loop of _build_intervals.                                *)
ReadEvent(e) ==
    /\ verdict = NoVersion /\ Len(events) < MaxEvents
    /\ events' = Append(events, e)
    /\ intervals' = IF e.kind = "fixed" THEN intervals \cup {[from |-> introduced, to |-> Parsed(e.at)]} ELSE intervals
    /\ introduced' = IF e.kind = "introduced" THEN Parsed(e.at) ELSE NoVersion
    /\ UNCHANGED verdict

AllIntervals == intervals \cup {[from |-> v, to |-> NoVersion] : v \in {introduced} \ {NoVersion}}

IsVersionAffected(v) ==
    \E iv \in AllIntervals : /\ iv.from # NoVersion => v >= iv.from
                             /\ iv.to # NoVersion => v < iv.to

(* Only the ends of the intervals are tried, the fixed version among them.  *)
OverlapsAffected(accepts) ==
    \/ accepts = Invalid
    \/ \E iv \in AllIntervals : {iv.from, iv.to} \cap accepts # {}

FixedPlaces == {n \in DOMAIN events : events[n].kind = "fixed"}
ParsedFixes == {events[n].at : n \in FixedPlaces} \ {Invalid}

Remediation(v) ==
    IF ParsedFixes = {} THEN NoVersion
    ELSE LET later == {f \in ParsedFixes : f > v} IN
         IF later # {} THEN Min(later) ELSE Max(ParsedFixes)

Match(dep, status, fix, compatible) ==
    [dep |-> dep, status |-> status, fix |-> fix, compatible |-> compatible]

Evaluate(dep, withdrawn) ==
    IF withdrawn THEN Match(dep, "WITHDRAWN", NoVersion, TRUE)
    ELSE IF dep.version \in MatchVersions
    THEN LET fix == Remediation(dep.version) IN
         Match(dep, IF IsVersionAffected(dep.version) THEN "AFFECTED" ELSE "NOT_AFFECTED", fix,
               fix = NoVersion \/ dep.constraint \in {NoVersion, Invalid} \/ fix \in dep.constraint)
    ELSE IF dep.constraint # NoVersion
    THEN Match(dep, IF OverlapsAffected(dep.constraint) THEN "POTENTIALLY_AFFECTED" ELSE "NOT_AFFECTED",
               IF FixedPlaces = {} THEN NoVersion ELSE events[Min(FixedPlaces)].at, TRUE)
    ELSE Match(dep, "UNKNOWN", NoVersion, TRUE)

Judge(dep, withdrawn) == /\ verdict = NoVersion
                         /\ verdict' = Evaluate(dep, withdrawn)
                         /\ UNCHANGED <<events, introduced, intervals>>

MatchNext == \/ \E e \in Event : ReadEvent(e)
             \/ \E dep \in MatchedDep, withdrawn \in BOOLEAN : Judge(dep, withdrawn)
MatchSpec == MatchInit /\ [][MatchNext]_matchVars

-----------------------------------------------------------------------------
MatchTypeOK ==
    /\ events \in Seq(Event) /\ introduced \in MatchVersions \cup {NoVersion}
    /\ intervals \subseteq [from : MatchVersions \cup {NoVersion}, to : MatchVersions \cup {NoVersion}]
    /\ verdict # NoVersion =>
          /\ verdict.dep \in MatchedDep /\ verdict.compatible \in BOOLEAN
          /\ verdict.status \in {"WITHDRAWN", "AFFECTED", "NOT_AFFECTED", "POTENTIALLY_AFFECTED", "UNKNOWN"}
          /\ verdict.fix \in MatchVersions \cup {NoVersion, Invalid}

(* What the events say of a version, whatever order they stand in: the last *)
(* introduction at or below it is not followed, up to it, by a fix.         *)
VersionAt(kind) == {events[n].at : n \in {m \in DOMAIN events : events[m].kind = kind}} \ {Invalid}
Vulnerable(v) ==
    \E i \in VersionAt("introduced") : /\ i <= v
                                /\ \A f \in VersionAt("fixed") : ~(i <= f /\ f <= v)
                                /\ \A l \in VersionAt("last_affected") : ~(i <= l /\ l < v)

(* Introductions and fixes in turn, in the order of their versions.         *)
InOrder == \A n \in DOMAIN events :
              /\ events[n].at # Invalid
              /\ events[n].kind = IF n % 2 = 1 THEN "introduced" ELSE "fixed"
              /\ n > 1 => events[n - 1].at # Invalid /\ events[n - 1].at < events[n].at

(* Of an advisory whose events alternate in order, evaluate says AFFECTED   *)
(* of exactly the vulnerable versions, and the fix it names for one of them *)
(* is not itself vulnerable.  Of a constraint it says NOT_AFFECTED wrongly  *)
(* only when all it accepts lies inside one vulnerable interval, and        *)
(* POTENTIALLY_AFFECTED wrongly only when it accepts no less than a fix.    *)
VerdictRight ==
    verdict # NoVersion /\ InOrder =>
       /\ verdict.status = "AFFECTED" =>
             /\ Vulnerable(verdict.dep.version)
             /\ verdict.fix # NoVersion => ~Vulnerable(verdict.fix)
       /\ verdict.status = "NOT_AFFECTED" /\ verdict.dep.version \in MatchVersions =>
             ~Vulnerable(verdict.dep.version)
       /\ verdict.status = "NOT_AFFECTED" /\ verdict.dep.version \notin MatchVersions =>
             \/ \A v \in verdict.dep.constraint : ~Vulnerable(v)
             \/ \A v \in verdict.dep.constraint : Vulnerable(v) /\ v \notin VersionAt("introduced")
       /\ verdict.status = "POTENTIALLY_AFFECTED" /\ verdict.dep.constraint # Invalid =>
             \/ \E v \in verdict.dep.constraint : Vulnerable(v)
             \/ Min(verdict.dep.constraint) \in VersionAt("fixed")

(* version_matcher.py:168, "Treat last_affected as upper limit": a version  *)
(* from an introduction up to the last_affected that follows it is affected.*)
LastAffectedCounts ==
    verdict # NoVersion /\ Len(events) = 2 /\ verdict.dep.version \in MatchVersions =>
        \A a, b \in MatchVersions :
            /\ events = <<[kind |-> "introduced", at |-> a], [kind |-> "last_affected", at |-> b]>>
            /\ a <= verdict.dep.version /\ verdict.dep.version <= b
            => verdict.status # "NOT_AFFECTED"
=============================================================================
