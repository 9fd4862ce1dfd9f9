------------------------------- MODULE MCFaults -------------------------------
(***************************************************************************)
(* The job manager and the webhook pipeline of the API with every failure: *)
(* what they run raises, their saves fail, GitHub reorders and repeats,    *)
(* and the process stops.  The two share no state, so each behaviour is    *)
(* one of either, chosen in the initial state.                             *)
(***************************************************************************)
EXTENDS ScanJobs, WebhookPipeline, TLC

VARIABLE part

faultyVars == <<part, vars, webhookVars>>

FaultyInit == part \in {"jobs", "webhook"} /\ Init /\ WebhookInit

FaultyNext ==
    \/ part = "jobs" /\ Next /\ UNCHANGED <<part, webhookVars>>
    \/ part = "webhook" /\ WebhookNext /\ UNCHANGED <<part, vars>>

FaultySpec == FaultyInit /\ [][FaultyNext]_faultyVars

JobsAndWorkers == Permutations(Jobs) \union Permutations(Workers)
ThreeCommits == <<"web#1", "lib#7", "web#1">>
=============================================================================
