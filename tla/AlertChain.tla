----------------------------- MODULE AlertChain -----------------------------
(***************************************************************************)
(* From an event to an incident (domain/operations): SecurityEventBus drops *)
(* what it saw within its window and calls the subscribers; a subscriber    *)
(* reports the condition to AlertEngine and dispatches the alert; operators *)
(* set the status of alerts; IncidentCorrelationEngine groups those open by *)
(* repository.  The subscriber and the operators are not in the code.  The  *)
(* calls come from one thread.                                              *)
(***************************************************************************)
EXTENDS Naturals, FiniteSets, FiniteSetsExt

CONSTANTS Events,         \* deduplication hashes; also the ids of the alerts made from them
          Conditions,     \* deduplication keys of alerts
          NoAlert,
          ConditionOf,    \* the condition an event's subscriber reports
          WeightOf,       \* and its severity's weight
          RepositoryOf,   \* the repository of a condition
          IncidentOf,     \* INC-<repository>, '/' replaced: two may share one
          Providers,      \* how many notification providers are registered
          OperatorStatus, \* what operators set an alert to
          DedupWindow,    \* deduplication_window_seconds
          EventHorizon    \* bound: how far the clock goes

AlertStatus == {"OPEN", "ACKNOWLEDGED", "INVESTIGATING", "RESOLVED", "SUPPRESSED"}

ASSUME AlertChainAssumption ==
    /\ NoAlert \notin Events \union AlertStatus
    /\ OperatorStatus \subseteq AlertStatus
    /\ ConditionOf \in [Events -> Conditions] /\ WeightOf \in [Events -> Nat]
    /\ Providers \in Nat /\ DedupWindow \in Nat \ {0} /\ EventHorizon \in Nat

VARIABLES seenAt,     \* _seen_event_hashes: when, 0 while not seen (the clock starts at 1)
          accepted,   \* _event_history: how often each event is in it
          alerts,     \* by id: condition, weight and status, or NoAlert
          dedupIndex, \* _dedup_index
          incidents,  \* by id: its alerts and weight, none while there is none
          notified,   \* how many providers each alert has gone to
          reported,   \* history: the weights each condition was reported with
          eventTime

alertVars == <<seenAt, accepted, alerts, dedupIndex, incidents, notified, reported, eventTime>>

Incidents == {IncidentOf[RepositoryOf[c]] : c \in Conditions}
NoIncident == [alerts |-> {}, weight |-> 0]

AlertInit == /\ seenAt = [e \in Events |-> 0] /\ accepted = [e \in Events |-> 0]
             /\ alerts = [e \in Events |-> [status |-> NoAlert]]
             /\ dedupIndex = [c \in Conditions |-> NoAlert]
             /\ incidents = [i \in Incidents |-> NoIncident]
             /\ notified = [e \in Events |-> 0]
             /\ reported = [c \in Conditions |-> {}]
             /\ eventTime = 1

Duplicate(e) == seenAt[e] # 0 /\ eventTime - seenAt[e] < DedupWindow

(* Mutant: the newest weight replaces the one there is.                     *)
ReportedNewest(e) ==
    LET c == ConditionOf[e]
        known == dedupIndex[c]
    IN /\ reported' = [reported EXCEPT ![c] = @ \union {WeightOf[e]}]
       /\ \/ /\ known = NoAlert
             /\ alerts' = [alerts EXCEPT ![e] = [condition |-> c, weight |-> WeightOf[e], status |-> "OPEN"]]
             /\ dedupIndex' = [dedupIndex EXCEPT ![c] = e]
          \/ /\ known # NoAlert
             /\ alerts' = [alerts EXCEPT ![known].weight = WeightOf[e]]
             /\ UNCHANGED dedupIndex

(* create_or_deduplicate_alert: whatever became of the first alert, it      *)
(* stands for the condition and its severity only rises.                    *)
Reported(e) ==
    LET c == ConditionOf[e]
        known == dedupIndex[c]
    IN /\ reported' = [reported EXCEPT ![c] = @ \union {WeightOf[e]}]
       /\ \/ /\ known = NoAlert
             /\ alerts' = [alerts EXCEPT ![e] = [condition |-> c, weight |-> WeightOf[e], status |-> "OPEN"]]
             /\ dedupIndex' = [dedupIndex EXCEPT ![c] = e]
          \/ /\ known # NoAlert
             /\ alerts' = [alerts EXCEPT ![known].weight = Max({@, WeightOf[e]})]
             /\ UNCHANGED dedupIndex

(* dispatch: a provider that raises hides the alert from those after it.    *)
Dispatched(a) == \E n \in 0..Providers : notified' = [notified EXCEPT ![a] = @ + n]

(* publish: the hash is kept, then the subscribers run; one that raises is  *)
(* passed over, and the event counts as seen all the same.                  *)
Publish(e) ==
    /\ ~Duplicate(e)
    /\ seenAt' = [seenAt EXCEPT ![e] = eventTime]
    /\ accepted' = [accepted EXCEPT ![e] = @ + 1]
    /\ \/ UNCHANGED <<alerts, dedupIndex, notified, reported>>
       \/ Reported(e) /\ Dispatched(dedupIndex'[ConditionOf[e]])
    /\ UNCHANGED <<incidents, eventTime>>

SetAlert(e, s) == /\ alerts[e].status \in AlertStatus \ {s}
                  /\ alerts' = [alerts EXCEPT ![e].status = s]
                  /\ UNCHANGED <<seenAt, accepted, dedupIndex, incidents, notified, reported, eventTime>>

OpenAlerts == {e \in Events : alerts[e].status \in {"OPEN", "INVESTIGATING"}}
RepoOfAlert(e) == RepositoryOf[alerts[e].condition]
AlertsOf(repo) == {e \in OpenAlerts : RepoOfAlert(e) = repo}

(* correlate_alerts(get_open_alerts()): each group overwrites the incident  *)
(* of its id, also one that another repository's group has just written; an *)
(* incident with no open alert left stays as it is.                         *)
CorrelateAlerts ==
    /\ OpenAlerts # {}
    /\ \E newest \in [Incidents -> {RepositoryOf[c] : c \in Conditions}] :
          /\ \A i \in Incidents :
                \/ IncidentOf[newest[i]] = i /\ AlertsOf(newest[i]) # {}
                \/ \A e \in OpenAlerts : IncidentOf[RepoOfAlert(e)] # i
          /\ incidents' = [i \in Incidents |->
                IF IncidentOf[newest[i]] = i /\ AlertsOf(newest[i]) # {}
                THEN [alerts |-> AlertsOf(newest[i]),
                      weight |-> Max({alerts[e].weight : e \in AlertsOf(newest[i])})]
                ELSE incidents[i]]
    /\ UNCHANGED <<seenAt, accepted, alerts, dedupIndex, notified, reported, eventTime>>

EventTick == /\ eventTime < EventHorizon /\ eventTime' = eventTime + 1
             /\ UNCHANGED <<seenAt, accepted, alerts, dedupIndex, incidents, notified, reported>>

AlertNext == \/ \E e \in Events : Publish(e) \/ (\E s \in OperatorStatus : SetAlert(e, s))
             \/ CorrelateAlerts \/ EventTick
AlertSpec == AlertInit /\ [][AlertNext]_alertVars

-----------------------------------------------------------------------------
Alert == [condition : Conditions, weight : Nat, status : AlertStatus] \union [status : {NoAlert}]
AlertTypeOK ==
    /\ seenAt \in [Events -> Nat] /\ accepted \in [Events -> Nat]
    /\ alerts \in [Events -> Alert]
    /\ dedupIndex \in [Conditions -> Events \union {NoAlert}]
    /\ incidents \in [Incidents -> [alerts : SUBSET Events, weight : Nat]]
    /\ notified \in [Events -> Nat]
    /\ reported \in [Conditions -> SUBSET Nat]
    /\ eventTime \in Nat

(* An event is acted on once per window, however often it is delivered.     *)
OncePerWindow == \A e \in Events : accepted[e] * DedupWindow < eventTime + DedupWindow

(* A condition reported has one alert, with the worst severity it was ever  *)
(* reported with, whatever order the reports came in.                       *)
WorstKnown == \A c \in Conditions : reported[c] # {} =>
    /\ {e \in Events : alerts[e].status # NoAlert /\ alerts[e].condition = c} = {dedupIndex[c]}
    /\ alerts[dedupIndex[c]].weight = Max(reported[c])

(* An incident shows alerts of one repository and a severity not above that *)
(* of the worst of them.                                                    *)
IncidentsBacked == \A i \in Incidents : incidents[i] # NoIncident =>
    /\ \E e \in incidents[i].alerts : incidents[i].weight <= alerts[e].weight
    /\ \A e, f \in incidents[i].alerts : RepoOfAlert(e) = RepoOfAlert(f)

(* What the chain tells an operator.                                        *)
AlertsTell == OncePerWindow /\ WorstKnown /\ IncidentsBacked
=============================================================================
