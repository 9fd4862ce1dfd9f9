--------------------------- MODULE WebhookPipeline ---------------------------
(***************************************************************************)
(* The GitHub webhook from the delivery of an event to the record of a pull *)
(* request: the replay cache of GitHubWebhookHandler (domain/github/        *)
(* webhook_handler.py), the jobs and retries of GitHubWebhookEventQueue     *)
(* (domain/github/webhook_queue.py), and process_github_webhook, which ties *)
(* them to the store (application/services/security_app_service.py).        *)
(*                                                                         *)
(* The endpoint runs on the event loop and awaits nothing once it has the   *)
(* body, so one request is in progress at a time.  It may still stop at any *)
(* step: the records in the store survive, everything else is lost.         *)
(* Deliveries are numbered in the order of the commits they are about.  A   *)
(* request refused before the replay cache (size, signature) changes        *)
(* nothing and is left out.                                                 *)
(***************************************************************************)
EXTENDS Naturals, Sequences, FiniteSets, Functions

CONSTANTS Deliveries,   \* delivery ids, ordered as the events happened
          PRs,          \* pull requests (repository#number)
          NoPR,         \* the pull request of any other event
          PrOf,         \* the pull request a delivery is about
          Capacity,     \* MAX_TRACKED_DELIVERIES
          MaxAttempts,  \* WebhookJob.max_attempts
          Network,      \* what GitHub may do besides: "redeliver", "reorder"
          WebhookFaults, \* what may raise: the "body" checks, the "installation" save, the "analysis"
          MaxJobs,      \* bound: jobs of one process
          MaxCrashes    \* bound: how often the process stops

ASSUME WebhookAssumption ==
    /\ Deliveries \subseteq Nat \ {0}
    /\ NoPR \notin PRs
    /\ PrOf \in [Deliveries -> PRs \union {NoPR}]
    /\ Capacity \in Nat \ {0} /\ MaxAttempts \in Nat \ {0}
    /\ Network \subseteq {"redeliver", "reorder"}
    /\ WebhookFaults \subseteq {"body", "installation", "analysis"}
    /\ MaxJobs \in Nat /\ MaxCrashes \in Nat

VARIABLES sent,      \* the deliveries GitHub has sent at least once
          answer,    \* its last answer for each delivery
          tracked,   \* _processed_deliveries, oldest first
          request,   \* the request in progress: its step, its delivery, the job it took
          jobs,      \* the jobs, numbered as they were created: delivery, status, attempts
          work,      \* _work_queue
          latest,    \* _pr_active_jobs: the newest job of each pull request, 0 for none
          dead,      \* dead_letter_queue
          listed,    \* on disk: pull requests whose repository the installation record lists
          timeline,  \* on disk: the deliveries analysed into each pull request's record
          crashes    \* how often the process has stopped

memory == <<tracked, jobs, work, latest, dead>>
disk   == <<listed, timeline>>
webhookVars   == <<sent, answer, memory, request, disk, crashes>>

JobIds == 1..MaxJobs
Live   == {"QUEUED", "IN_PROGRESS"}
Job    == [delivery : Deliveries, status : Live \union {"OBSOLETE", "COMPLETED", "DEAD_LETTER"},
           attempts : 0..MaxAttempts]
NoRequest   == [at |-> "idle"]

WebhookInit == /\ sent = {}
        /\ answer = [d \in Deliveries |-> "none"]
        /\ tracked = << >>
        /\ request = NoRequest
        /\ jobs = << >>
        /\ work = << >>
        /\ latest = [p \in PRs |-> 0]
        /\ dead = << >>
        /\ listed = {}
        /\ timeline = [p \in PRs |-> << >>]
        /\ crashes = 0

Answer(d, what) == answer' = [answer EXCEPT ![d] = what]
PrOfJob(j)      == PrOf[jobs[j].delivery]

-----------------------------------------------------------------------------
(* GitHub sends the events in order, unless it reorders or redelivers them. *)
Sends(d) == /\ IF d \in sent THEN "redeliver" \in Network
                             ELSE \/ "reorder" \in Network
                                  \/ \A e \in Deliveries : e < d => e \in sent
            /\ sent' = sent \union {d}

(* Mutant: an id that is already there is recorded and let through.         *)
TrackAll(d) == LET longer == Append(tracked, d)
               IN  tracked' = IF Len(longer) > Capacity THEN Tail(longer) ELSE longer

(* The oldest entry goes when the cache is over its capacity.               *)
Track(d) == /\ d \notin Range(tracked)
            /\ LET longer == Append(tracked, d)
               IN  tracked' = IF Len(longer) > Capacity THEN Tail(longer) ELSE longer

(* parse_event: the id is recorded before the body is parsed.               *)
Receive(d) == /\ request = NoRequest
              /\ Len(jobs) < MaxJobs
              /\ Sends(d)
              /\ Track(d)
              /\ \/ /\ request' = [at |-> "installation", delivery |-> d]
                    /\ UNCHANGED answer
                 \/ "body" \in WebhookFaults /\ Answer(d, "400") /\ UNCHANGED request
              /\ UNCHANGED <<jobs, work, latest, dead, disk, crashes>>

(* A duplicate is answered without a job.                                   *)
Skip(d) == /\ request = NoRequest
           /\ Sends(d)
           /\ d \in Range(tracked)
           /\ Answer(d, "DUPLICATE_DELIVERY")
           /\ UNCHANGED <<memory, request, disk, crashes>>

(* _record_installation.                                                    *)
RecordInstallation ==
    /\ request.at = "installation"
    /\ LET d == request.delivery
       IN  \/ /\ listed' = listed \union ({PrOf[d]} \ {NoPR})
              /\ request' = [request EXCEPT !.at = "enqueue"]
              /\ UNCHANGED answer
           \/ /\ "installation" \in WebhookFaults
              /\ Answer(d, "500")
              /\ request' = NoRequest
              /\ UNCHANGED listed
    /\ UNCHANGED <<sent, memory, timeline, crashes>>

(* Mutant: the older job of the pull request stays in the race.             *)
EnqueueKeeps ==
    /\ request.at = "enqueue"
    /\ LET d   == request.delivery
           new == Len(jobs) + 1
       IN  /\ jobs' = Append(jobs, [delivery |-> d, status |-> "QUEUED", attempts |-> 0])
           /\ latest' = [p \in PRs |-> IF p = PrOf[d] THEN new ELSE latest[p]]
           /\ work' = Append(work, new)
    /\ request' = [request EXCEPT !.at = "take"]
    /\ UNCHANGED <<sent, answer, tracked, dead, disk, crashes>>

(* Mutant: the job is created and never put on the work queue.              *)
EnqueueUnqueued ==
    /\ request.at = "enqueue"
    /\ jobs' = Append(jobs, [delivery |-> request.delivery, status |-> "QUEUED", attempts |-> 0])
    /\ request' = [request EXCEPT !.at = "take"]
    /\ UNCHANGED <<sent, answer, tracked, work, latest, dead, disk, crashes>>

(* enqueue_event: the older job of the same pull request is obsolete.       *)
Superseded(d) == {j \in 1..Len(jobs) : /\ PrOf[d] # NoPR /\ latest[PrOf[d]] = j
                                       /\ jobs[j].status \in Live}

Enqueue ==
    /\ request.at = "enqueue"
    /\ LET d   == request.delivery
           new == Len(jobs) + 1
       IN  /\ jobs' = Append([j \in 1..Len(jobs) |->
                                 IF j \in Superseded(d) THEN [jobs[j] EXCEPT !.status = "OBSOLETE"]
                                                        ELSE jobs[j]],
                             [delivery |-> d, status |-> "QUEUED", attempts |-> 0])
           /\ latest' = [p \in PRs |-> IF p = PrOf[d] THEN new ELSE latest[p]]
           /\ work' = Append(work, new)
    /\ request' = [request EXCEPT !.at = "take"]
    /\ UNCHANGED <<sent, answer, tracked, dead, disk, crashes>>

(* process_next takes one job, whichever is first; an obsolete one is       *)
(* skipped and the request is over.                                         *)
TakeNext ==
    /\ request.at = "take" /\ work # << >>
    /\ work' = Tail(work)
    /\ LET j == Head(work)
       IN  IF jobs[j].status = "OBSOLETE"
           THEN /\ Answer(request.delivery, "ACCEPTED")
                /\ request' = NoRequest
                /\ UNCHANGED jobs
           ELSE /\ jobs' = [jobs EXCEPT ![j].status = "IN_PROGRESS", ![j].attempts = @ + 1]
                /\ request' = [at |-> "analyse", delivery |-> request.delivery, job |-> j]
                /\ UNCHANGED answer
    /\ UNCHANGED <<sent, tracked, latest, dead, disk, crashes>>

(* _handle_queued_webhook_job: the analysis of a pull request is appended   *)
(* to its record; other events need nothing.                                *)
Analyse ==
    /\ request.at = "analyse"
    /\ LET j == request.job
           p == PrOfJob(j)
       IN  /\ jobs' = [jobs EXCEPT ![j].status = "COMPLETED"]
           /\ timeline' = IF p = NoPR THEN timeline
                          ELSE [timeline EXCEPT ![p] = Append(@, jobs[j].delivery)]
    /\ Answer(request.delivery, "ACCEPTED")
    /\ request' = NoRequest
    /\ UNCHANGED <<sent, tracked, work, latest, dead, listed, crashes>>

(* Mutant: one attempt more than allowed.                                   *)
RetryForever ==
    /\ request.at = "analyse" /\ "analysis" \in WebhookFaults /\ PrOfJob(request.job) # NoPR
    /\ jobs' = [jobs EXCEPT ![request.job].status = "QUEUED"]
    /\ work' = Append(work, request.job)
    /\ Answer(request.delivery, "ACCEPTED")
    /\ request' = NoRequest
    /\ UNCHANGED <<sent, tracked, latest, dead, disk, crashes>>

(* The analysis raises: the job goes to the back of the queue, or is dead.  *)
AnalysisFails ==
    /\ request.at = "analyse" /\ "analysis" \in WebhookFaults /\ PrOfJob(request.job) # NoPR
    /\ LET j == request.job
       IN  IF jobs[j].attempts < MaxAttempts
           THEN /\ jobs' = [jobs EXCEPT ![j].status = "QUEUED"]
                /\ work' = Append(work, j)
                /\ UNCHANGED dead
           ELSE /\ jobs' = [jobs EXCEPT ![j].status = "DEAD_LETTER"]
                /\ dead' = Append(dead, j)
                /\ UNCHANGED work
    /\ Answer(request.delivery, "ACCEPTED")
    /\ request' = NoRequest
    /\ UNCHANGED <<sent, tracked, latest, disk, crashes>>

(* The process stops and starts anew: the request gets no answer.           *)
StopProcess == /\ crashes < MaxCrashes
         /\ crashes' = crashes + 1
         /\ request' = NoRequest
         /\ tracked' = << >> /\ jobs' = << >> /\ work' = << >> /\ dead' = << >>
         /\ latest' = [p \in PRs |-> 0]
         /\ UNCHANGED <<sent, answer, disk>>

ServeRequest == RecordInstallation \/ Enqueue \/ TakeNext \/ Analyse \/ AnalysisFails
WebhookNext  == (\E d \in Deliveries : Receive(d) \/ Skip(d)) \/ ServeRequest \/ StopProcess
WebhookSpec  == WebhookInit /\ [][WebhookNext]_webhookVars

(* A request that has begun goes on; GitHub need not send another.          *)
WebhookFairSpec == WebhookSpec /\ WF_webhookVars(ServeRequest)

-----------------------------------------------------------------------------
WebhookTypeOK == /\ sent \subseteq Deliveries
          /\ answer \in [Deliveries -> {"none", "400", "500", "DUPLICATE_DELIVERY", "ACCEPTED"}]
          /\ tracked \in Seq(Deliveries)
          /\ request \in {NoRequest}
                 \union [at : {"installation", "enqueue", "take"}, delivery : Deliveries]
                 \union [at : {"analyse"}, delivery : Deliveries, job : 1..Len(jobs)]
          /\ jobs \in Seq(Job)
          /\ work \in Seq(1..Len(jobs))
          /\ latest \in [PRs -> 0..Len(jobs)]
          /\ dead \in Seq(1..Len(jobs))
          /\ listed \subseteq PRs
          /\ timeline \in [PRs -> Seq(Deliveries)]
          /\ crashes \in Nat

(* A job waits in the work queue, once, or is in the hands of the request,   *)
(* or has been decided; the dead letters are the jobs that used up their    *)
(* attempts.                                                                *)
JobsAccounted ==
    /\ IsInjective(work) /\ IsInjective(dead)
    /\ \A j \in 1..Len(jobs) :
          /\ jobs[j].status = "QUEUED" => j \in Range(work)
          /\ jobs[j].status = "IN_PROGRESS" <=> request.at = "analyse" /\ request.job = j
          /\ j \in Range(work) => jobs[j].status \in {"QUEUED", "OBSOLETE"}
          /\ j \in Range(dead) <=> jobs[j].status = "DEAD_LETTER"

(* Of the jobs of a pull request only the newest can still run: an older    *)
(* commit is never analysed after a newer one arrived, retries included.    *)
OnlyNewestRuns ==
    \A j \in 1..Len(jobs) :
        jobs[j].status \in Live /\ PrOfJob(j) # NoPR => latest[PrOfJob(j)] = j

(* Once the newest job of a pull request has completed, its record shows    *)
(* that job's commit.                                                       *)
NewestStands ==
    \A p \in PRs : latest[p] # 0 /\ jobs[latest[p]].status = "COMPLETED" =>
        /\ timeline[p] # << >>
        /\ timeline[p][Len(timeline[p])] = jobs[latest[p]].delivery

(* For each pull request the newest commit wins, in the queue and on record. *)
NewestWins == OnlyNewestRuns /\ NewestStands

(* The record of a pull request moves forward: each commit is analysed once *)
(* at most, and none after a newer one.                                     *)
ForwardOnly == \A p \in PRs : \A a, b \in 1..Len(timeline[p]) :
                   a < b => timeline[p][a] < timeline[p][b]

(* A delivery answered as already processed did become a job.               *)
DuplicateWasAccepted ==
    \A d \in Deliveries : answer[d] = "DUPLICATE_DELIVERY" =>
        \E j \in 1..Len(jobs) : jobs[j].delivery = d

(* A delivery sent again does no harm: no commit is analysed a second time  *)
(* or after a newer one, and none is turned away that never became a job.   *)
RetriesHarmless == ForwardOnly /\ DuplicateWasAccepted

(* A request that has begun gets its answer, whatever the head of the queue *)
(* is and whatever raises.                                                  *)
EveryRequestAnswered == request # NoRequest ~> request = NoRequest

(* Every event that was accepted is analysed, skipped or dead-lettered.     *)
EveryAcceptedDecided ==
    \A j \in JobIds : (j <= Len(jobs) /\ jobs[j].status \in Live)
                          ~> ~(j <= Len(jobs) /\ jobs[j].status \in Live)
=============================================================================
