------------------------------ MODULE MCEndings ------------------------------
(***************************************************************************)
(* Work that must come to an end: saves and reads of the record store, the *)
(* scans of two pool threads, and the requests of the webhook pipeline.    *)
(* The three share nothing, so a behaviour is one of a single one of them, *)
(* chosen in the initial state, while the other two stay as they began.    *)
(***************************************************************************)
EXTENDS ScanStore

CONSTANTS Clones,   \* the scans of the pool
          Sent      \* the deliveries GitHub sends

VARIABLES part,
          pc, content, helper, lists, cursor, saw, outcome,        \* Workspaces
          sent, answer, tracked, request, jobs, work, latest,      \* WebhookPipeline
          dead, listed, timeline, stops

(* Two request threads of the API server and the command line.              *)
ApiAndCli == [t \in Threads |-> IF t = "cli" THEN "shell" ELSE "server"]

(* What each delivery is about.                                             *)
FiveEvents == <<"web#1", "lib#7", "lib#7", "none", "web#1">>

Pool == INSTANCE Workspaces WITH
            Scans <- Clones, MaxConcurrent <- 2, HasToken <- TRUE, temp <- lists

Hooks == INSTANCE WebhookPipeline WITH
            Deliveries <- Sent, PRs <- {"web#1", "lib#7"}, NoPR <- "none",
            PrOf <- FiveEvents, Capacity <- 5, MaxAttempts <- 2,
            Network <- {"redeliver"}, WebhookFaults <- {"analysis"}, MaxJobs <- 5,
            MaxCrashes <- 0, crashes <- stops

poolVars == <<pc, content, helper, lists, cursor, saw, outcome>>
hookVars == <<sent, answer, tracked, request, jobs, work, latest, dead, listed,
              timeline, stops>>
sumVars == <<part, vars, poolVars, hookVars>>

SumInit == /\ part \in {"store", "pool", "hooks"}
           /\ Init /\ Pool!Init /\ Hooks!WebhookInit

SumNext ==
    \/ part = "store" /\ Next /\ UNCHANGED <<part, poolVars, hookVars>>
    \/ part = "pool" /\ Pool!Next /\ UNCHANGED <<part, vars, hookVars>>
    \/ part = "hooks" /\ Hooks!WebhookNext /\ UNCHANGED <<part, vars, poolVars>>

(* The fairness of each module, for the part that is at work.               *)
SumFairness ==
    /\ \A t \in Threads : SF_sumVars(part = "store" /\ Save(t)
                                     /\ UNCHANGED <<part, poolVars, hookVars>>)
    /\ \A s \in Clones : WF_sumVars(part = "pool" /\ Pool!Step(s)
                                    /\ UNCHANGED <<part, vars, hookVars>>)
    /\ WF_sumVars(part = "hooks" /\ Hooks!ServeRequest /\ UNCHANGED <<part, vars, poolVars>>)

SumSpec == SumInit /\ [][SumNext]_sumVars /\ SumFairness

(* Whatever begins ends: every save, however the lock is held and whatever  *)
(* raises (ScanResultStore._write); every scan, however the other walks and *)
(* clears the lists that the two share (RepositoryManager.cleanup); every   *)
(* webhook request, whatever the jobs it works off raise                    *)
(* (WebhookQueueManager and its routes).                                    *)
EverythingEnds == EverySaveEnds /\ Pool!EveryScanEnds /\ Hooks!EveryRequestAnswered
=============================================================================
