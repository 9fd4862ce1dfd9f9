------------------------------ MODULE MCServices ------------------------------
(***************************************************************************)
(* The services that live as long as a process, or longer: the working     *)
(* copies with one scan at a time, the webhook pipeline without crashes,   *)
(* both job queues, what a scan takes before it runs, the chain from an    *)
(* event to an incident, the integrations, the language server, the        *)
(* advisory database and the review of compliance.  In the code no two of  *)
(* them share state, so each behaviour is one of a single part, chosen in  *)
(* the initial state, while the others stay as they began.                 *)
(***************************************************************************)
EXTENDS Workspaces, WebhookPipeline, PriorityJobQueue, SecurityJobQueue,
        ScanCapacity, AlertChain, IntegrationEngine, LanguageServer,
        AdvisoryDatabase, ComplianceReview

VARIABLE part

Parts == {"workspaces", "webhook", "priority queue", "security queue", "capacity",
          "alerts", "integrations", "language server", "advisories", "compliance"}

serviceVars == <<part, vars, webhookVars, priorityVars, opsVars, capacityVars,
                 alertVars, integrationVars, lspVars, dbVars, complianceVars>>

ServicesInit ==
    /\ part \in Parts
    /\ Init /\ WebhookInit /\ PriorityInit /\ OpsInit /\ CapacityInit
    /\ AlertInit /\ IntegrationInit /\ LspInit /\ DbInit /\ ComplianceInit

\* All parts but p stay as they are.
OnlyIn(p) ==
    /\ part = p /\ UNCHANGED part
    /\ p # "workspaces" => UNCHANGED vars
    /\ p # "webhook" => UNCHANGED webhookVars
    /\ p # "priority queue" => UNCHANGED priorityVars
    /\ p # "security queue" => UNCHANGED opsVars
    /\ p # "capacity" => UNCHANGED capacityVars
    /\ p # "alerts" => UNCHANGED alertVars
    /\ p # "integrations" => UNCHANGED integrationVars
    /\ p # "language server" => UNCHANGED lspVars
    /\ p # "advisories" => UNCHANGED dbVars
    /\ p # "compliance" => UNCHANGED complianceVars

ServicesNext ==
    \/ OnlyIn("workspaces") /\ Next
    \/ OnlyIn("webhook") /\ WebhookNext
    \/ OnlyIn("priority queue") /\ PriorityNext
    \/ OnlyIn("security queue") /\ OpsNext
    \/ OnlyIn("capacity") /\ CapacityNext
    \/ OnlyIn("alerts") /\ AlertNext
    \/ OnlyIn("integrations") /\ IntegrationNext
    \/ OnlyIn("language server") /\ LspNext
    \/ OnlyIn("advisories") /\ DbNext
    \/ OnlyIn("compliance") /\ ComplianceNext

ServicesSpec == ServicesInit /\ [][ServicesNext]_serviceVars

\* Every variable of the service that is at work has its type; the working copies have
\* their own.
ServicesTypeOK ==
    CASE part = "workspaces" -> TRUE
      [] part = "webhook" -> WebhookTypeOK
      [] part = "priority queue" -> PriorityTypeOK
      [] part = "security queue" -> OpsTypeOK
      [] part = "capacity" -> CapacityTypeOK
      [] part = "alerts" -> AlertTypeOK
      [] part = "integrations" -> IntegrationTypeOK
      [] part = "language server" -> LspTypeOK
      [] part = "advisories" -> DbTypeOK
      [] part = "compliance" -> ComplianceTypeOK

\* Both job queues implement RetryQueue: no job runs more often than it may, none is
\* lost between two of its runs, and one that has ended stays ended.
QueuesKeepJobs == PriorityKeepsJobs /\ SecurityQueueKeepsJobs

\* A scan works only with what it holds: a lease that nobody else has, and a slot of
\* its organisation and of its pool that is counted for as long as it has it.
CapacityKept == LeaseHolds /\ SlotsAccounted

\* What the process tells others: an alert has the worst severity its condition was ever
\* reported with, and a provider that keeps failing is left alone until it may have
\* recovered.
OthersTold == AlertsTell /\ BreakerProtects

-----------------------------------------------------------------------------
(* Constants for the run                                                    *)

FiveEvents == <<"web#1", "lib#7", "lib#7", "none", "web#1">>
JobPriorities == [j \in QueueJobs |-> IF j = "j1" THEN 1 ELSE 2]
TwoNamedAlike == [j \in OpsJobs |-> IF j = "j3" THEN "b" ELSE "a"]
OpsPriorities == [j \in OpsJobs |-> IF j = "j2" THEN 3 ELSE 1]
LastElsewhere == [e \in Events |-> IF e = "e3" THEN "k2" ELSE "k1"]
SecondWorse == [e \in Events |-> IF e = "e2" THEN 4 ELSE 3]
TwoRepositories == [c \in Conditions |-> IF c = "k1" THEN "a/b" ELSE "a-b"]
OneIncident == [r \in {"a/b", "a-b"} |-> "INC-a-b"]
=============================================================================
