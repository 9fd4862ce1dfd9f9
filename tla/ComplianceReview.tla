-------------------------- MODULE ComplianceReview --------------------------
(***************************************************************************)
(* Assessments of compliance (domain/compliance/assessment.py).  People    *)
(* create assessments of an organisation, evaluate its controls against    *)
(* findings, review each other's assessments, and ask for and approve      *)
(* exceptions, which last for a time.  The controls and their states are   *)
(* shared by every organisation.  Calls come from one thread and in any    *)
(* order; nothing in the code says who calls what when.                    *)
(***************************************************************************)
EXTENDS Naturals, Sequences, FiniteSets, FiniteSetsExt

CONSTANTS Assessments,    \* assessment ids
          Controls,       \* the controls of the framework
          Organisations,
          People,
          Nobody,
          Lifetime,       \* expiration_days, in ticks
          MaxExceptions,  \* bound: how many are asked for
          ReviewHorizon   \* bound: how far the clock goes

ASSUME ComplianceAssumption ==
    /\ Nobody \notin People /\ IsFiniteSet(Controls)
    /\ {Lifetime, MaxExceptions, ReviewHorizon} \subseteq Nat

VARIABLES assessments, \* by id: organisation, assessor, reviewer, status and score
          evaluations, \* history: of each, what it last said of the controls, excused by what, and when
          reviewed,    \* history: of each, the score its last reviewer saw
          controlStatus, \* the state of each control in the registry
          exceptions,  \* in the order they were asked for
          gaps,        \* the controls and organisations there are gaps for
          reviewTime

complianceVars == <<assessments, evaluations, reviewed, controlStatus, exceptions, gaps, reviewTime>>

NotMade == [status |-> "none"]
NotEvaluated == [said |-> [c \in Controls |-> "NOT_ASSESSED"], by |-> [c \in Controls |-> 0], at |-> 0]
Made == {a \in Assessments : assessments[a] # NotMade}

ComplianceInit ==
    /\ assessments = [a \in Assessments |-> NotMade]
    /\ evaluations = [a \in Assessments |-> NotEvaluated]
    /\ reviewed = [a \in Assessments |-> 0]
    /\ controlStatus = [c \in Controls |-> "NOT_ASSESSED"]
    /\ exceptions = << >> /\ gaps = {} /\ reviewTime = 0

CreateAssessment(a, o, p) ==
    /\ a \notin Made
    /\ assessments' = [assessments EXCEPT ![a] =
                          [organisation |-> o, assessor |-> p, reviewer |-> Nobody, status |-> "DRAFT", score |-> 0]]
    /\ UNCHANGED <<evaluations, reviewed, controlStatus, exceptions, gaps, reviewTime>>

(* submit_four_eyes_review, in any status.                                  *)
SubmitReview(a, p, approved) ==
    /\ a \in Made /\ assessments[a].assessor # p
    /\ assessments' = [assessments EXCEPT ![a].reviewer = p,
                                          ![a].status = IF approved THEN "APPROVED" ELSE "REVIEW"]
    /\ reviewed' = [reviewed EXCEPT ![a] = assessments[a].score]
    /\ UNCHANGED <<evaluations, controlStatus, exceptions, gaps, reviewTime>>

Approved(c, o) ==
    {n \in DOMAIN exceptions : /\ exceptions[n].control = c /\ exceptions[n].organisation = o
                               /\ exceptions[n].status = "APPROVED"}

(* Mutant: an exception that was approved once holds for ever.              *)
ApprovedEver(c, o) == Approved(c, o)
Unexpired(c, o) == {n \in Approved(c, o) : exceptions[n].expires >= reviewTime}

(* _get_active_exception: the first that holds, and those before it whose   *)
(* time is over are marked.                                                 *)
ActiveException(c, o) == IF Unexpired(c, o) = {} THEN 0 ELSE Min(Unexpired(c, o))
ExpiredBefore(c, o) ==
    {n \in Approved(c, o) \ Unexpired(c, o) : ActiveException(c, o) # 0 => n < ActiveException(c, o)}

(* "high" where a finding of a rule of the control is critical or high,     *)
(* "low" where all of them are less.  An exception leaves the state that    *)
(* the registry has for a control as it was.                                *)
EvaluateControls(a, found) ==
    /\ a \in Made
    /\ LET o == assessments[a].organisation
           excuse == [c \in Controls |-> ActiveException(c, o)]
           said == [c \in Controls |->
                      IF excuse[c] # 0 THEN "NOT_APPLICABLE"
                      ELSE CASE found[c] = "none" -> "COMPLIANT"
                             [] found[c] = "high" -> "NON_COMPLIANT"
                             [] OTHER -> "PARTIALLY_COMPLIANT"]
           counted == {c \in Controls : said[c] \in {"NOT_APPLICABLE", "COMPLIANT"}}
           expired == UNION {ExpiredBefore(c, o) : c \in Controls}
       IN /\ controlStatus' = [c \in Controls |-> IF excuse[c] # 0 THEN controlStatus[c] ELSE said[c]]
          /\ gaps' = gaps \cup {<<c, o>> : c \in {d \in Controls : said[d] = "NON_COMPLIANT"}}
          /\ exceptions' = [n \in DOMAIN exceptions |->
                              IF n \in expired THEN [exceptions[n] EXCEPT !.status = "EXPIRED"] ELSE exceptions[n]]
          /\ assessments' = [assessments EXCEPT ![a].score = Cardinality(counted), ![a].status = "IN_PROGRESS"]
          /\ evaluations' = [evaluations EXCEPT ![a] = [said |-> said, by |-> excuse, at |-> reviewTime]]
    /\ UNCHANGED <<reviewed, reviewTime>>

RequestException(c, o, p) ==
    /\ Len(exceptions) < MaxExceptions
    /\ exceptions' = Append(exceptions, [control |-> c, organisation |-> o, owner |-> p, approver |-> Nobody,
                                         status |-> "PENDING_APPROVAL", expires |-> reviewTime + Lifetime])
    /\ UNCHANGED <<assessments, evaluations, reviewed, controlStatus, gaps, reviewTime>>

(* approve_exception, in any status: one that expired may be approved again. *)
ApproveException(n, p) ==
    /\ n \in DOMAIN exceptions /\ exceptions[n].owner # p
    /\ exceptions' = [exceptions EXCEPT ![n].approver = p, ![n].status = "APPROVED"]
    /\ UNCHANGED <<assessments, evaluations, reviewed, controlStatus, gaps, reviewTime>>

ReviewTick ==
    /\ reviewTime < ReviewHorizon /\ reviewTime' = reviewTime + 1
    /\ UNCHANGED <<assessments, evaluations, reviewed, controlStatus, exceptions, gaps>>

ComplianceNext ==
    \/ \E a \in Assessments, o \in Organisations, p \in People : CreateAssessment(a, o, p)
    \/ \E a \in Assessments, p \in People, approved \in BOOLEAN : SubmitReview(a, p, approved)
    \/ \E a \in Assessments, found \in [Controls -> {"none", "low", "high"}] : EvaluateControls(a, found)
    \/ \E c \in Controls, o \in Organisations, p \in People : RequestException(c, o, p)
    \/ \E n \in 1..MaxExceptions, p \in People : ApproveException(n, p)
    \/ ReviewTick
ComplianceSpec == ComplianceInit /\ [][ComplianceNext]_complianceVars

-----------------------------------------------------------------------------
ControlStates == {"NOT_ASSESSED", "NOT_APPLICABLE", "COMPLIANT", "PARTIALLY_COMPLIANT", "NON_COMPLIANT"}
ComplianceTypeOK ==
    /\ \A a \in Made : /\ assessments[a].organisation \in Organisations /\ assessments[a].assessor \in People
                       /\ assessments[a].reviewer \in People \cup {Nobody}
                       /\ assessments[a].status \in {"DRAFT", "IN_PROGRESS", "REVIEW", "APPROVED"}
                       /\ assessments[a].score \in 0..Cardinality(Controls)
    /\ \A a \in Assessments : evaluations[a].said \in [Controls -> ControlStates]
    /\ controlStatus \in [Controls -> ControlStates]
    /\ Len(exceptions) <= MaxExceptions /\ gaps \subseteq Controls \X Organisations
    /\ reviewTime \in 0..ReviewHorizon

(* What stands as approved was approved by someone else than its assessor,  *)
(* and its score is the one that reviewer saw: whoever evaluates it again   *)
(* takes the approval back.                                                 *)
ApprovalStands ==
    \A a \in Made : assessments[a].status = "APPROVED" =>
        /\ assessments[a].reviewer \notin {assessments[a].assessor, Nobody}
        /\ assessments[a].score = reviewed[a]

(* A control is left out only for an exception of that control and that     *)
(* organisation, which somebody else than its owner approved, and whose     *)
(* time was not over, although it may be approved again when it is.         *)
ExcusedRightly ==
    \A a \in Made, c \in Controls : evaluations[a].by[c] # 0 =>
        LET x == exceptions[evaluations[a].by[c]] IN
        /\ x.control = c /\ x.organisation = assessments[a].organisation
        /\ x.approver \notin {x.owner, Nobody}
        /\ evaluations[a].at <= x.expires

(* What an evaluation found to fail is a gap of that organisation, and what *)
(* no organisation was ever found failing is in the registry as no failure. *)
GapsTell ==
    /\ \A a \in Made, c \in Controls :
          evaluations[a].said[c] = "NON_COMPLIANT" => <<c, assessments[a].organisation>> \in gaps
    /\ \A c \in Controls : controlStatus[c] = "NON_COMPLIANT" => \E o \in Organisations : <<c, o>> \in gaps

(* Nothing counts as approved, excused or failing but by what the rules of  *)
(* the review allow, in whatever order people do their part.                *)
ComplianceKept == ApprovalStands /\ ExcusedRightly /\ GapsTell
=============================================================================
