---------------------------- MODULE WebhookProofs ----------------------------
(***************************************************************************)
(* The theorems about WebhookPipeline, for any number of deliveries, pull  *)
(* requests and jobs.  That the jobs are accounted for and that the newest *)
(* commit wins holds whatever GitHub and the process do.  That a delivery  *)
(* sent again does no harm needs what the replay cache is for: a process   *)
(* that goes on, events in order, and a cache with room for what was sent. *)
(***************************************************************************)
EXTENDS WebhookPipeline, QueueLemmas, TLAPS

(* A job that waits has an attempt left.                                    *)
AttemptsLeft == \A j \in 1..Len(jobs) :
    jobs[j].status = "QUEUED" => jobs[j].attempts < MaxAttempts

(* latest names a job of that pull request, and none came after it.         *)
LatestIsLast ==
    /\ \A p \in PRs : latest[p] # 0 => PrOfJob(latest[p]) = p
    /\ \A j \in 1..Len(jobs) : PrOfJob(j) # NoPR => j <= latest[PrOfJob(j)]

WInv == /\ WebhookTypeOK /\ JobsAccounted /\ AttemptsLeft
        /\ OnlyNewestRuns /\ LatestIsLast /\ NewestStands

-----------------------------------------------------------------------------
(* Job j is given a status and a number of attempts.                        *)
Moves(j, s, n) ==
    jobs' = [jobs EXCEPT ![j] = [delivery |-> jobs[j].delivery, status |-> s, attempts |-> n]]

Statuses == Live \union {"OBSOLETE", "COMPLETED", "DEAD_LETTER"}

(* The fields of a job have their types. *)
LEMMA JobFields ==
  ASSUME jobs \in Seq(Job), NEW j \in 1..Len(jobs)
  PROVE  /\ jobs[j] \in Job
         /\ jobs[j].delivery \in Deliveries
         /\ jobs[j].status \in Statuses
         /\ jobs[j].attempts \in 0..MaxAttempts
         /\ PrOfJob(j) \in PRs \union {NoPR}
<1>1. jobs[j] \in Job
  BY ElementOfSeq
<1> QED
  BY <1>1, WebhookAssumption DEF Job, Statuses, PrOfJob

(* Moving a job changes its status and its attempts, and nothing of others. *)
LEMMA MovedJob ==
  ASSUME jobs \in Seq(Job), NEW j \in 1..Len(jobs), NEW s \in Statuses, NEW n \in 0..MaxAttempts,
         Moves(j, s, n)
  PROVE  /\ jobs' \in Seq(Job) /\ Len(jobs') = Len(jobs) /\ Len(jobs) \in Nat
         /\ jobs'[j].status = s /\ jobs'[j].attempts = n
         /\ \A k \in 1..Len(jobs) : jobs'[k].delivery = jobs[k].delivery
         /\ \A k \in 1..Len(jobs) : k # j => jobs'[k] = jobs[k]
<1> DEFINE r == [delivery |-> jobs[j].delivery, status |-> s, attempts |-> n]
<1>1. r \in Job
  BY JobFields DEF Job, Statuses
<1>2. /\ jobs' \in Seq(Job) /\ Len(jobs') = Len(jobs)
      /\ \A k \in 1..Len(jobs) : jobs'[k] = IF k = j THEN r ELSE jobs[k]
  BY <1>1, ExceptSeq DEF Moves
<1>3. Len(jobs) \in Nat
  BY LenProperties
<1> QED
  BY <1>2, <1>3

(* What a request holds at each of its steps. *)
LEMMA RequestFields ==
  ASSUME WebhookTypeOK
  PROVE  /\ request.at \in {"installation", "enqueue", "take"} =>
               request \in [at : {"installation", "enqueue", "take"}, delivery : Deliveries]
         /\ request.at = "analyse" =>
               request \in [at : {"analyse"}, delivery : Deliveries, job : 1..Len(jobs)]
         /\ request # NoRequest => request.at \in {"installation", "enqueue", "take", "analyse"}
         /\ NoRequest.at = "idle"
BY DEF WebhookTypeOK, NoRequest

(* What enqueue_event does to the jobs there are, and the one it adds.      *)
LEMMA EnqueuedJob ==
  ASSUME WebhookTypeOK, Enqueue
  PROVE  LET d   == request.delivery
             new == Len(jobs) + 1
         IN  /\ jobs' \in Seq(Job) /\ Len(jobs) \in Nat /\ Len(jobs') = new
             /\ jobs'[new] = [delivery |-> d, status |-> "QUEUED", attempts |-> 0]
             /\ \A j \in 1..Len(jobs) :
                   /\ jobs'[j].delivery = jobs[j].delivery
                   /\ jobs'[j].attempts = jobs[j].attempts
                   /\ jobs'[j].status = IF j \in Superseded(d) THEN "OBSOLETE" ELSE jobs[j].status
             /\ latest' = [p \in PRs |-> IF p = PrOf[d] THEN new ELSE latest[p]]
             /\ work' = Append(work, new)
             /\ d \in Deliveries /\ request.at = "enqueue"
             /\ request'.at = "take" /\ request'.delivery = d
             /\ UNCHANGED <<sent, answer, tracked, dead, disk, crashes>>
<1> DEFINE d == request.delivery
           new == Len(jobs) + 1
           kept == [j \in 1..Len(jobs) |->
                       IF j \in Superseded(d) THEN [jobs[j] EXCEPT !.status = "OBSOLETE"] ELSE jobs[j]]
           job == [delivery |-> d, status |-> "QUEUED", attempts |-> 0]
<1>0. /\ request \in [at : {"installation", "enqueue", "take"}, delivery : Deliveries]
      /\ request.at = "enqueue"
  BY RequestFields DEF Enqueue
<1>1. Len(jobs) \in Nat /\ jobs \in Seq(Job)
  BY LenProperties DEF WebhookTypeOK
<1>2. job \in Job
  BY <1>0, WebhookAssumption DEF Job, Live
<1>3. \A j \in 1..Len(jobs) : kept[j] \in Job
  BY <1>1, JobFields DEF Job, Statuses
<1>4. kept \in Seq(Job)
  BY <1>1, <1>3, IsASeq
<1>5. Len(kept) = Len(jobs)
  BY <1>1, <1>4, LenProperties
<1>6. jobs' = Append(kept, job)
  BY DEF Enqueue
<1>7. /\ jobs' \in Seq(Job) /\ Len(jobs') = new /\ jobs'[new] = job
      /\ \A j \in 1..Len(jobs) : jobs'[j] = kept[j]
  BY <1>2, <1>4, <1>5, <1>6, AppendProperties
<1>8. \A j \in 1..Len(jobs) :
         /\ jobs'[j].delivery = jobs[j].delivery
         /\ jobs'[j].attempts = jobs[j].attempts
         /\ jobs'[j].status = IF j \in Superseded(d) THEN "OBSOLETE" ELSE jobs[j].status
  BY <1>1, <1>7, JobFields DEF Job
<1> HIDE DEF kept, job
<1>9. request'.at = "take" /\ request'.delivery = d
  BY <1>0 DEF Enqueue
<1> QED
  BY <1>0, <1>1, <1>7, <1>8, <1>9 DEF Enqueue, job

(* Changing two fields of a job leaves its delivery. *)
LEMMA TwoFields ==
  ASSUME NEW r \in Job, NEW s, NEW n
  PROVE  [r EXCEPT !.status = s, !.attempts = n]
             = [delivery |-> r.delivery, status |-> s, attempts |-> n]
<1>1. [r EXCEPT !.status = s] = [delivery |-> r.delivery, status |-> s, attempts |-> r.attempts]
  BY DEF Job
<1>2. [[delivery |-> r.delivery, status |-> s, attempts |-> r.attempts] EXCEPT !.attempts = n]
          = [delivery |-> r.delivery, status |-> s, attempts |-> n]
  OBVIOUS
<1>3. [r EXCEPT !.status = s, !.attempts = n] = [[r EXCEPT !.status = s] EXCEPT !.attempts = n]
  BY Zenon
<1> QED
  BY <1>1, <1>2, <1>3

(* Setting the status alone keeps the attempts. *)
LEMMA StatusMoves ==
  ASSUME jobs \in Seq(Job), NEW j \in 1..Len(jobs), NEW s,
         jobs' = [jobs EXCEPT ![j].status = s]
  PROVE  Moves(j, s, jobs[j].attempts)
<1>1. [jobs[j] EXCEPT !.status = s]
          = [delivery |-> jobs[j].delivery, status |-> s, attempts |-> jobs[j].attempts]
  BY JobFields DEF Job
<1> QED
  BY <1>1 DEF Moves

(* process_next takes the head of the queue, which is obsolete or queued.   *)
LEMMA TakenJob ==
  ASSUME WInv, TakeNext, NEW j, j = Head(work)
  PROVE  /\ j \in 1..Len(jobs) /\ j \in Range(work)
         /\ work' \in Seq(1..Len(jobs)) /\ IsInjective(work') /\ Range(work') = Range(work) \ {j}
         /\ request.at = "take" /\ request.delivery \in Deliveries
         /\ \/ /\ jobs[j].status = "OBSOLETE" /\ UNCHANGED jobs
               /\ request' = NoRequest /\ Answer(request.delivery, "ACCEPTED")
            \/ /\ jobs[j].status = "QUEUED" /\ jobs[j].attempts + 1 \in 0..MaxAttempts
               /\ Moves(j, "IN_PROGRESS", jobs[j].attempts + 1)
               /\ request' = [at |-> "analyse", delivery |-> request.delivery, job |-> j]
               /\ UNCHANGED answer
         /\ UNCHANGED <<sent, tracked, latest, dead, disk, crashes>>
<1>1. /\ work \in Seq(1..Len(jobs)) /\ work # << >> /\ IsInjective(work) /\ work' = Tail(work)
      /\ jobs \in Seq(Job)
  BY DEF WInv, WebhookTypeOK, JobsAccounted, TakeNext
<1>2. /\ j \in 1..Len(jobs) /\ j \in Range(work)
      /\ work' \in Seq(1..Len(jobs)) /\ IsInjective(work') /\ Range(work') = Range(work) \ {j}
  BY <1>1, TakeHead
<1>3. jobs[j].status \in {"QUEUED", "OBSOLETE"}
  BY <1>2 DEF WInv, JobsAccounted
<1>4. request.at = "take" /\ request.delivery \in Deliveries
  BY RequestFields DEF WInv, TakeNext
<1>5. CASE jobs[j].status = "OBSOLETE"
  BY <1>2, <1>4, <1>5 DEF TakeNext
<1>6. CASE jobs[j].status = "QUEUED"
  <2>1. jobs[j].attempts \in 0..MaxAttempts /\ jobs[j].attempts < MaxAttempts
    BY <1>1, <1>2, <1>6, JobFields DEF WInv, AttemptsLeft
  <2>2. jobs[j].attempts + 1 \in 0..MaxAttempts
    BY <2>1, WebhookAssumption
  <2>3. /\ jobs' = [jobs EXCEPT ![j].status = "IN_PROGRESS", ![j].attempts = @ + 1]
        /\ request' = [at |-> "analyse", delivery |-> request.delivery, job |-> j]
        /\ UNCHANGED answer
    BY <1>6 DEF TakeNext
  <2>4. [jobs[j] EXCEPT !.status = "IN_PROGRESS", !.attempts = @ + 1]
          = [delivery |-> jobs[j].delivery, status |-> "IN_PROGRESS", attempts |-> jobs[j].attempts + 1]
    <3>1. jobs[j] \in Job
      BY <1>1, <1>2, JobFields
    <3> QED
      BY <3>1, TwoFields
  <2>5. jobs' = [jobs EXCEPT ![j] = [jobs[j] EXCEPT !.status = "IN_PROGRESS", !.attempts = @ + 1]]
    <3>1. jobs \in [1..Len(jobs) -> Job]
      BY <1>1, LenProperties
    <3> QED
      BY ONLY <1>2, <2>3, <3>1 DEF Job
  <2>6. Moves(j, "IN_PROGRESS", jobs[j].attempts + 1)
    BY <2>4, <2>5 DEF Moves
  <2> QED
    BY <1>2, <1>4, <1>6, <2>2, <2>3, <2>6 DEF TakeNext
<1> QED
  BY <1>3, <1>5, <1>6

(* The job that is analysed is the one in progress.                         *)
LEMMA AnalysedJob ==
  ASSUME WInv, request.at = "analyse", NEW j, j = request.job
  PROVE  /\ j \in 1..Len(jobs) /\ jobs[j].status = "IN_PROGRESS"
         /\ jobs[j].attempts \in 0..MaxAttempts /\ j \notin Range(work) /\ j \notin Range(dead)
         /\ request.delivery \in Deliveries /\ jobs[j].delivery \in Deliveries
         /\ PrOfJob(j) \in PRs \union {NoPR}
<1>1. j \in 1..Len(jobs) /\ request.delivery \in Deliveries
  BY RequestFields DEF WInv
<1>2. jobs[j].status = "IN_PROGRESS" /\ j \notin Range(work) /\ j \notin Range(dead)
  BY <1>1 DEF WInv, JobsAccounted
<1> QED
  BY <1>1, <1>2, JobFields DEF WInv, WebhookTypeOK

(* A failed analysis puts it back or gives it up.                           *)
LEMMA FailedJob ==
  ASSUME WInv, AnalysisFails, NEW j, j = request.job
  PROVE  /\ \/ /\ jobs[j].attempts < MaxAttempts /\ Moves(j, "QUEUED", jobs[j].attempts)
               /\ work' = Append(work, j) /\ UNCHANGED dead
            \/ /\ Moves(j, "DEAD_LETTER", jobs[j].attempts)
               /\ dead' = Append(dead, j) /\ UNCHANGED work
         /\ request.at = "analyse" /\ request' = NoRequest /\ Answer(request.delivery, "ACCEPTED")
         /\ UNCHANGED <<sent, tracked, latest, disk, crashes>>
<1>1. j \in 1..Len(jobs) /\ jobs \in Seq(Job)
  BY AnalysedJob DEF AnalysisFails, WInv, WebhookTypeOK
<1>2. CASE jobs[j].attempts < MaxAttempts
  BY <1>1, <1>2, StatusMoves DEF AnalysisFails
<1>3. CASE ~(jobs[j].attempts < MaxAttempts)
  BY <1>1, <1>3, StatusMoves DEF AnalysisFails
<1> QED
  BY <1>2, <1>3

-----------------------------------------------------------------------------
(* Sequences of job numbers are still that when there is one job more. *)
LEMMA MoreJobs ==
  ASSUME NEW n \in Nat, NEW q \in Seq(1..n)
  PROVE  q \in Seq(1..(n + 1))
BY SeqMonotonic

(* Every value of every variable stays in its type. *)
LEMMA WebhookTypeStep == WInv /\ [WebhookNext]_webhookVars => WebhookTypeOK'
<1> SUFFICES ASSUME WInv, [WebhookNext]_webhookVars PROVE WebhookTypeOK'
  OBVIOUS
<1> USE WebhookAssumption
<1>t. WebhookTypeOK
  BY DEF WInv
<1>s. /\ tracked \in Seq(Deliveries) /\ jobs \in Seq(Job)
      /\ work \in Seq(1..Len(jobs)) /\ dead \in Seq(1..Len(jobs))
      /\ timeline \in [PRs -> Seq(Deliveries)]
  BY <1>t DEF WebhookTypeOK
<1>1. ASSUME NEW d \in Deliveries, Receive(d) PROVE WebhookTypeOK'
  <2>1. tracked' \in Seq(Deliveries)
    <3>0. tracked \in Seq(Deliveries) /\ d \in Deliveries
      BY ONLY <1>s, <1>1
    <3>1. Append(tracked, d) \in Seq(Deliveries) /\ Append(tracked, d) # << >>
      BY ONLY <3>0, AppendProperties
    <3>2. Tail(Append(tracked, d)) \in Seq(Deliveries)
      BY <3>1, HeadTailProperties
    <3>3. tracked' = Append(tracked, d) \/ tracked' = Tail(Append(tracked, d))
      BY ONLY <1>1 DEF Receive, Track
    <3> QED
      BY ONLY <3>1, <3>2, <3>3
  <2>2. answer' \in [Deliveries -> {"none", "400", "500", "DUPLICATE_DELIVERY", "ACCEPTED"}]
    BY <1>t, <1>1 DEF Receive, Answer, WebhookTypeOK
  <2> QED
    BY <1>t, <1>1, <2>1, <2>2 DEF Receive, Sends, disk, WebhookTypeOK
<1>2. ASSUME NEW d \in Deliveries, Skip(d) PROVE WebhookTypeOK'
  BY <1>t, <1>2 DEF Skip, Sends, Answer, memory, disk, WebhookTypeOK
<1>3. CASE RecordInstallation
  <2>1. /\ request \in [at : {"installation", "enqueue", "take"}, delivery : Deliveries]
        /\ request.delivery \in Deliveries
    BY <1>t, <1>3, RequestFields DEF RecordInstallation
  <2>2. request' \in {NoRequest} \union [at : {"installation", "enqueue", "take"}, delivery : Deliveries]
    BY <1>3, <2>1 DEF RecordInstallation
  <2>3. listed' \subseteq PRs
    BY <1>t, <1>3, <2>1 DEF RecordInstallation, WebhookTypeOK
  <2>4. answer' \in [Deliveries -> {"none", "400", "500", "DUPLICATE_DELIVERY", "ACCEPTED"}]
    BY <1>t, <1>3, <2>1 DEF RecordInstallation, Answer, WebhookTypeOK
  <2> QED
    BY <1>t, <1>3, <2>2, <2>3, <2>4 DEF RecordInstallation, memory, WebhookTypeOK
<1>4. CASE Enqueue
  <2>1. /\ jobs' \in Seq(Job) /\ Len(jobs) \in Nat /\ Len(jobs') = Len(jobs) + 1
        /\ latest' = [p \in PRs |-> IF p = PrOf[request.delivery] THEN Len(jobs) + 1 ELSE latest[p]]
        /\ work' = Append(work, Len(jobs) + 1)
        /\ UNCHANGED <<sent, answer, tracked, dead, disk, crashes>>
    BY <1>t, <1>4, EnqueuedJob
  <2>2. work' \in Seq(1..Len(jobs')) /\ dead' \in Seq(1..Len(jobs'))
    <3>1. work \in Seq(1..(Len(jobs) + 1)) /\ dead \in Seq(1..(Len(jobs) + 1))
      BY <1>t, <2>1, MoreJobs DEF WebhookTypeOK
    <3>2. Len(jobs) + 1 \in 1..(Len(jobs) + 1)
      BY <2>1
    <3> QED
      BY <2>1, <3>1, <3>2, AppendProperties
  <2>3. request' \in [at : {"installation", "enqueue", "take"}, delivery : Deliveries]
    BY <1>t, <1>4, RequestFields DEF Enqueue
  <2>4. latest' \in [PRs -> 0..Len(jobs')]
    BY <1>t, <2>1 DEF WebhookTypeOK
  <2> QED
    BY <1>t, <2>1, <2>2, <2>3, <2>4 DEF disk, WebhookTypeOK
<1>5. CASE TakeNext
  <2> DEFINE j == Head(work)
  <2>1. /\ j \in 1..Len(jobs) /\ work' \in Seq(1..Len(jobs)) /\ request.delivery \in Deliveries
        /\ UNCHANGED <<sent, tracked, latest, dead, disk, crashes>>
    BY <1>5, TakenJob
  <2>2. CASE UNCHANGED jobs /\ request' = NoRequest /\ Answer(request.delivery, "ACCEPTED")
    BY <1>t, <2>1, <2>2 DEF Answer, disk, WebhookTypeOK
  <2>3. CASE /\ jobs[j].attempts + 1 \in 0..MaxAttempts
             /\ Moves(j, "IN_PROGRESS", jobs[j].attempts + 1)
             /\ request' = [at |-> "analyse", delivery |-> request.delivery, job |-> j]
             /\ UNCHANGED answer
    <3>1. jobs' \in Seq(Job) /\ Len(jobs') = Len(jobs)
      BY <1>t, <2>1, <2>3, MovedJob DEF Statuses, Live, WebhookTypeOK
    <3>2. request' \in [at : {"analyse"}, delivery : Deliveries, job : 1..Len(jobs)]
      BY <2>1, <2>3
    <3> QED
      BY <1>t, <2>1, <2>3, <3>1, <3>2 DEF disk, WebhookTypeOK
  <2> QED
    BY <1>5, <2>2, <2>3, TakenJob
<1>6. CASE Analyse
  <2> DEFINE j == request.job
  <2>1. /\ j \in 1..Len(jobs) /\ request.delivery \in Deliveries /\ jobs[j].delivery \in Deliveries
        /\ jobs[j].attempts \in 0..MaxAttempts /\ jobs \in Seq(Job)
    BY <1>t, <1>6, AnalysedJob DEF Analyse, WebhookTypeOK
  <2>2. jobs' \in Seq(Job) /\ Len(jobs') = Len(jobs)
    BY <1>6, <2>1, StatusMoves, MovedJob DEF Analyse, Statuses
  <2>3. timeline' \in [PRs -> Seq(Deliveries)]
    <3>1. \A p \in PRs : Append(timeline[p], jobs[j].delivery) \in Seq(Deliveries)
      BY <1>s, <2>1, AppendProperties
    <3> QED
      BY <1>t, <1>6, <3>1 DEF Analyse, WebhookTypeOK
  <2> QED
    BY <1>t, <1>6, <2>1, <2>2, <2>3 DEF Analyse, Answer, WebhookTypeOK
<1>7. CASE AnalysisFails
  <2> DEFINE j == request.job
  <2>1. /\ j \in 1..Len(jobs) /\ request.delivery \in Deliveries
        /\ jobs[j].attempts \in 0..MaxAttempts /\ jobs \in Seq(Job)
        /\ request' = NoRequest /\ Answer(request.delivery, "ACCEPTED")
        /\ UNCHANGED <<sent, tracked, latest, disk, crashes>>
    BY <1>t, <1>7, AnalysedJob, FailedJob DEF AnalysisFails, WebhookTypeOK
  <2>2. jobs' \in Seq(Job) /\ Len(jobs') = Len(jobs)
    BY <1>7, <2>1, FailedJob, MovedJob DEF Statuses, Live
  <2>3. work' \in Seq(1..Len(jobs)) /\ dead' \in Seq(1..Len(jobs))
    <3>1. Append(work, j) \in Seq(1..Len(jobs)) /\ Append(dead, j) \in Seq(1..Len(jobs))
      BY <1>s, <2>1, AppendProperties
    <3> QED
      BY <1>s, <1>7, <3>1, FailedJob
  <2> QED
    BY <1>t, <2>1, <2>2, <2>3 DEF Answer, disk, WebhookTypeOK
<1>8. CASE StopProcess
  <2>1. /\ tracked' \in Seq(Deliveries) /\ jobs' \in Seq(Job)
        /\ work' \in Seq(1..Len(jobs')) /\ dead' \in Seq(1..Len(jobs'))
    BY <1>8, EmptySeq DEF StopProcess
  <2>2. Len(jobs') = 0
    BY <1>8, EmptySeq DEF StopProcess
  <2>3. latest' \in [PRs -> 0..Len(jobs')]
    BY <1>8, <2>2 DEF StopProcess
  <2> QED
    BY <1>t, <1>8, <2>1, <2>3 DEF StopProcess, disk, WebhookTypeOK
<1>9. CASE UNCHANGED webhookVars
  BY <1>t, <1>9 DEF webhookVars, memory, disk, WebhookTypeOK
<1> QED
  BY <1>1, <1>2, <1>3, <1>4, <1>5, <1>6, <1>7, <1>8, <1>9 DEF WebhookNext, ServeRequest

-----------------------------------------------------------------------------
(* The queues hold numbers of jobs. *)
LEMMA QueuesHoldJobs ==
  ASSUME WebhookTypeOK
  PROVE  Range(work) \subseteq 1..Len(jobs) /\ Range(dead) \subseteq 1..Len(jobs)
<1>1. work \in Seq(1..Len(jobs)) /\ dead \in Seq(1..Len(jobs))
  BY DEF WebhookTypeOK
<1>2. /\ work \in [1..Len(work) -> 1..Len(jobs)] /\ DOMAIN work = 1..Len(work)
      /\ dead \in [1..Len(dead) -> 1..Len(jobs)] /\ DOMAIN dead = 1..Len(dead)
  BY <1>1, LenProperties
<1> QED
  BY <1>2 DEF Range

(* Where a job is, and its status, go together after every step. *)
LEMMA AccountedStep == WInv /\ [WebhookNext]_webhookVars => JobsAccounted'
<1> SUFFICES ASSUME WInv, [WebhookNext]_webhookVars PROVE JobsAccounted'
  OBVIOUS
<1>s. /\ jobs \in Seq(Job) /\ work \in Seq(1..Len(jobs)) /\ dead \in Seq(1..Len(jobs))
      /\ WebhookTypeOK /\ JobsAccounted
      /\ Range(work) \subseteq 1..Len(jobs) /\ Range(dead) \subseteq 1..Len(jobs)
  BY QueuesHoldJobs DEF WInv, WebhookTypeOK
<1>n. NoRequest.at = "idle"
  BY DEF NoRequest
<1>1. ASSUME UNCHANGED <<jobs, work, dead>>, request.at # "analyse", request'.at # "analyse"
      PROVE  JobsAccounted'
  BY <1>1, <1>s DEF JobsAccounted
<1>2. ASSUME NEW d \in Deliveries, Receive(d) PROVE JobsAccounted'
  BY <1>1, <1>2, <1>n DEF Receive
<1>3. ASSUME NEW d \in Deliveries, Skip(d) PROVE JobsAccounted'
  BY <1>1, <1>3, <1>n DEF Skip, memory
<1>4. CASE RecordInstallation
  <2>1. request'.at # "analyse" /\ request.at # "analyse"
    BY <1>4, <1>n, <1>s, RequestFields DEF RecordInstallation
  <2> QED
    BY <1>1, <1>4, <2>1 DEF RecordInstallation, memory
<1>5. CASE Enqueue
  <2> DEFINE new == Len(jobs) + 1
  <2>1. /\ Len(jobs) \in Nat /\ Len(jobs') = new /\ jobs'[new].status = "QUEUED"
        /\ \A j \in 1..Len(jobs) :
              jobs'[j].status = IF j \in Superseded(request.delivery) THEN "OBSOLETE" ELSE jobs[j].status
        /\ work' = Append(work, new) /\ UNCHANGED dead
        /\ request.at = "enqueue" /\ request'.at = "take"
    BY <1>5, <1>s, EnqueuedJob
  <2>2. /\ IsInjective(work') /\ Range(work') = Range(work) \union {new}
    <3>1. work \in Seq(1..new) /\ new \in 1..new /\ new \notin Range(work)
      BY <1>s, <2>1, MoreJobs
    <3> QED
      BY <1>s, <2>1, <3>1, AppendOne DEF JobsAccounted
  <2>3. \A j \in Superseded(request.delivery) : jobs[j].status \in Live
    BY DEF Superseded
  <2>4. ASSUME NEW j \in 1..Len(jobs)
        PROVE  /\ jobs'[j].status = "QUEUED" => j \in Range(work')
               /\ jobs'[j].status # "IN_PROGRESS"
               /\ j \in Range(work') => jobs'[j].status \in {"QUEUED", "OBSOLETE"}
               /\ j \in Range(dead') <=> jobs'[j].status = "DEAD_LETTER"
    <3>1. j # new
      BY <2>1
    <3>2. CASE j \in Superseded(request.delivery)
      BY <1>s, <2>1, <2>2, <2>3, <3>1, <3>2 DEF JobsAccounted, Live
    <3>3. CASE j \notin Superseded(request.delivery)
      BY <1>s, <2>1, <2>2, <3>1, <3>3 DEF JobsAccounted
    <3> QED
      BY <3>2, <3>3
  <2>5. new \in Range(work') /\ new \notin Range(dead')
    BY <1>s, <2>1, <2>2
  <2>6. \A j \in 1..Len(jobs') : j \in 1..Len(jobs) \/ j = new
    BY <2>1
  <2> QED
    BY <1>s, <2>1, <2>2, <2>4, <2>5, <2>6 DEF JobsAccounted
<1>6. CASE TakeNext
  <2> DEFINE j == Head(work)
  <2>1. /\ j \in 1..Len(jobs) /\ j \in Range(work)
        /\ IsInjective(work') /\ Range(work') = Range(work) \ {j}
        /\ request.at = "take" /\ UNCHANGED dead
    BY <1>6, TakenJob
  <2>2. CASE jobs[j].status = "OBSOLETE" /\ UNCHANGED jobs /\ request' = NoRequest
    BY <1>n, <1>s, <2>1, <2>2 DEF JobsAccounted
  <2>3. CASE /\ jobs[j].status = "QUEUED" /\ jobs[j].attempts + 1 \in 0..MaxAttempts
             /\ Moves(j, "IN_PROGRESS", jobs[j].attempts + 1)
             /\ request' = [at |-> "analyse", delivery |-> request.delivery, job |-> j]
    <3>1. /\ Len(jobs') = Len(jobs) /\ jobs'[j].status = "IN_PROGRESS"
          /\ \A k \in 1..Len(jobs) : k # j => jobs'[k] = jobs[k]
      BY <1>s, <2>1, <2>3, MovedJob DEF Statuses, Live
    <3>2. request'.at = "analyse" /\ request'.job = j
      BY <2>3
    <3> QED
      BY <1>s, <2>1, <2>3, <3>1, <3>2 DEF JobsAccounted
  <2> QED
    BY <1>6, <2>2, <2>3, TakenJob
<1>7. CASE Analyse
  <2> DEFINE j == request.job
  <2>1. /\ j \in 1..Len(jobs) /\ jobs[j].status = "IN_PROGRESS" /\ jobs[j].attempts \in 0..MaxAttempts
        /\ j \notin Range(work) /\ j \notin Range(dead)
    BY <1>7, AnalysedJob DEF Analyse
  <2>2. Moves(j, "COMPLETED", jobs[j].attempts)
    BY <1>7, <1>s, <2>1, StatusMoves DEF Analyse
  <2>3. /\ Len(jobs') = Len(jobs) /\ jobs'[j].status = "COMPLETED"
        /\ \A k \in 1..Len(jobs) : k # j => jobs'[k] = jobs[k]
    BY <1>s, <2>1, <2>2, MovedJob DEF Statuses
  <2>4. request.at = "analyse" /\ request' = NoRequest /\ UNCHANGED <<work, dead>>
    BY <1>7 DEF Analyse
  <2> QED
    BY <1>n, <1>s, <2>1, <2>3, <2>4 DEF JobsAccounted
<1>8. CASE AnalysisFails
  <2> DEFINE j == request.job
  <2>1. /\ j \in 1..Len(jobs) /\ jobs[j].status = "IN_PROGRESS" /\ jobs[j].attempts \in 0..MaxAttempts
        /\ j \notin Range(work) /\ j \notin Range(dead)
        /\ request.at = "analyse" /\ request' = NoRequest
    BY <1>8, AnalysedJob, FailedJob DEF AnalysisFails
  <2>2. ASSUME NEW s \in {"QUEUED", "DEAD_LETTER"}, Moves(j, s, jobs[j].attempts)
        PROVE  /\ Len(jobs') = Len(jobs) /\ jobs'[j].status = s
               /\ \A k \in 1..Len(jobs) : k # j => jobs'[k] = jobs[k]
    BY <1>s, <2>1, <2>2, MovedJob DEF Statuses, Live
  <2>3. CASE /\ Moves(j, "QUEUED", jobs[j].attempts)
             /\ work' = Append(work, j) /\ UNCHANGED dead
    <3>1. IsInjective(work') /\ Range(work') = Range(work) \union {j}
      BY <1>s, <2>1, <2>3, AppendOne DEF JobsAccounted
    <3> QED
      BY <1>n, <1>s, <2>1, <2>2, <2>3, <3>1 DEF JobsAccounted
  <2>4. CASE /\ Moves(j, "DEAD_LETTER", jobs[j].attempts)
             /\ dead' = Append(dead, j) /\ UNCHANGED work
    <3>1. IsInjective(dead') /\ Range(dead') = Range(dead) \union {j}
      BY <1>s, <2>1, <2>4, AppendOne DEF JobsAccounted
    <3> QED
      BY <1>n, <1>s, <2>1, <2>2, <2>4, <3>1 DEF JobsAccounted
  <2> QED
    BY <1>8, <2>3, <2>4, FailedJob
<1>9. CASE StopProcess
  <2>1. jobs' = << >> /\ work' = << >> /\ dead' = << >> /\ Len(jobs') = 0
    BY <1>9 DEF StopProcess
  <2> QED
    BY <2>1, EmptyQueue DEF JobsAccounted
<1>10. CASE UNCHANGED webhookVars
  BY <1>10, <1>s DEF webhookVars, memory, JobsAccounted
<1> QED
  BY <1>2, <1>3, <1>4, <1>5, <1>6, <1>7, <1>8, <1>9, <1>10 DEF WebhookNext, ServeRequest

-----------------------------------------------------------------------------
(* A job that moves keeps its delivery, and with it its pull request. *)
LEMMA SamePR ==
  ASSUME \A k \in 1..Len(jobs) : jobs'[k].delivery = jobs[k].delivery
  PROVE  \A k \in 1..Len(jobs) : PrOf[jobs'[k].delivery] = PrOfJob(k)
BY DEF PrOfJob

(* The jobs there are keep their place in the race when one of them moves,  *)
(* and only moves that make it live must be justified.                      *)
LEMMA RaceGoesOn ==
  ASSUME WInv, NEW j \in 1..Len(jobs), NEW s \in Statuses, NEW n \in 0..MaxAttempts,
         Moves(j, s, n), s \in Live => jobs[j].status \in Live, s = "QUEUED" => n < MaxAttempts,
         UNCHANGED latest
  PROVE  AttemptsLeft' /\ OnlyNewestRuns' /\ LatestIsLast'
<1>1. jobs \in Seq(Job) /\ latest \in [PRs -> 0..Len(jobs)]
  BY DEF WInv, WebhookTypeOK
<1>2. /\ Len(jobs') = Len(jobs) /\ Len(jobs) \in Nat /\ jobs'[j].status = s /\ jobs'[j].attempts = n
      /\ \A k \in 1..Len(jobs) : jobs'[k].delivery = jobs[k].delivery
      /\ \A k \in 1..Len(jobs) : k # j => jobs'[k] = jobs[k]
  BY <1>1, MovedJob
<1>3. \A k \in 1..Len(jobs) : PrOf[jobs'[k].delivery] = PrOfJob(k)
  BY <1>2, SamePR
<1>4. AttemptsLeft'
  BY <1>2 DEF WInv, AttemptsLeft
<1>5. OnlyNewestRuns'
  BY <1>2, <1>3 DEF WInv, OnlyNewestRuns, PrOfJob
<1>6. LatestIsLast'
  <2>1. \A p \in PRs : latest[p] # 0 => latest[p] \in 1..Len(jobs)
    BY <1>1, <1>2
  <2> QED
    BY <1>2, <1>3, <2>1 DEF WInv, LatestIsLast, PrOfJob
<1> QED
  BY <1>4, <1>5, <1>6

(* Only the newest job of a pull request is in the race after every step.   *)
LEMMA RaceStep ==
  WInv /\ [WebhookNext]_webhookVars => AttemptsLeft' /\ OnlyNewestRuns' /\ LatestIsLast'
<1> DEFINE Race == AttemptsLeft /\ OnlyNewestRuns /\ LatestIsLast
<1> SUFFICES ASSUME WInv, [WebhookNext]_webhookVars PROVE Race'
  OBVIOUS
<1>s. /\ jobs \in Seq(Job) /\ latest \in [PRs -> 0..Len(jobs)] /\ WebhookTypeOK /\ Race
  BY DEF WInv, WebhookTypeOK
<1>1. CASE UNCHANGED <<jobs, latest>>
  BY <1>1, <1>s DEF AttemptsLeft, OnlyNewestRuns, LatestIsLast, PrOfJob
<1>2. (\E d \in Deliveries : Receive(d) \/ Skip(d)) \/ RecordInstallation \/ UNCHANGED webhookVars
          => UNCHANGED <<jobs, latest>>
  BY DEF Receive, Skip, RecordInstallation, webhookVars, memory
<1>3. CASE Enqueue
  <2> DEFINE new == Len(jobs) + 1
             d == request.delivery
  <2>1. /\ Len(jobs) \in Nat /\ Len(jobs') = new /\ d \in Deliveries
        /\ jobs'[new] = [delivery |-> d, status |-> "QUEUED", attempts |-> 0]
        /\ \A j \in 1..Len(jobs) :
              /\ jobs'[j].delivery = jobs[j].delivery
              /\ jobs'[j].attempts = jobs[j].attempts
              /\ jobs'[j].status = IF j \in Superseded(d) THEN "OBSOLETE" ELSE jobs[j].status
        /\ latest' = [p \in PRs |-> IF p = PrOf[d] THEN new ELSE latest[p]]
    BY <1>3, <1>s, EnqueuedJob
  <2>2. /\ \A k \in 1..Len(jobs) : PrOf[jobs'[k].delivery] = PrOfJob(k)
        /\ PrOf[jobs'[new].delivery] = PrOf[d]
    BY <2>1, SamePR
  <2>3. \A j \in 1..Len(jobs') : j \in 1..Len(jobs) \/ j = new
    BY <2>1
  <2>4. AttemptsLeft'
    <3>1. 0 < MaxAttempts
      BY WebhookAssumption
    <3>2. jobs'[new].attempts = 0
      BY <2>1
    <3> QED
      BY <1>s, <2>1, <2>3, <3>1, <3>2 DEF AttemptsLeft
  <2>5. \A k \in 1..Len(jobs) : PrOfJob(k) \in PRs \union {NoPR}
    BY <1>s, JobFields
  <2>6. PrOf[d] \in PRs \union {NoPR} /\ NoPR \notin PRs
    BY <2>1, WebhookAssumption
  <2>7. ASSUME NEW j \in 1..Len(jobs), jobs'[j].status \in Live, PrOfJob(j) # NoPR
        PROVE  latest'[PrOfJob(j)] = j
    <3>1. j \notin Superseded(d) /\ jobs[j].status \in Live
      BY <2>1, <2>7 DEF Live
    <3>2. latest[PrOfJob(j)] = j
      BY <1>s, <2>7, <3>1 DEF OnlyNewestRuns
    <3>3. PrOfJob(j) # PrOf[d]
      BY <2>7, <3>1, <3>2 DEF Superseded
    <3> QED
      BY <2>1, <2>5, <2>7, <3>2, <3>3
  <2>8. PrOf[d] # NoPR => latest'[PrOf[d]] = new
    BY <2>1, <2>6
  <2>9. OnlyNewestRuns'
    BY <2>2, <2>3, <2>7, <2>8 DEF OnlyNewestRuns, PrOfJob
  <2>10. ASSUME NEW p \in PRs, latest'[p] # 0
         PROVE  PrOf[jobs'[latest'[p]].delivery] = p
    <3>1. CASE p = PrOf[d]
      BY <2>1, <2>2, <3>1
    <3>2. CASE p # PrOf[d]
      <4>1. latest'[p] = latest[p] /\ latest[p] \in 1..Len(jobs)
        BY <1>s, <2>1, <2>10, <3>2
      <4> QED
        BY <1>s, <2>2, <2>10, <4>1 DEF LatestIsLast
    <3> QED
      BY <3>1, <3>2
  <2>11. ASSUME NEW j \in 1..Len(jobs), PrOfJob(j) # NoPR
         PROVE  j <= latest'[PrOfJob(j)]
    <3>1. j <= latest[PrOfJob(j)] /\ PrOfJob(j) \in PRs
      BY <1>s, <2>5, <2>11 DEF LatestIsLast
    <3> QED
      BY <2>1, <3>1
  <2>12. LatestIsLast'
    <3>1. \A p \in PRs : latest'[p] # 0 => PrOf[jobs'[latest'[p]].delivery] = p
      BY <2>10
    <3>2. \A j \in 1..Len(jobs') : LET p == PrOf[jobs'[j].delivery]
                                     IN  p # NoPR => j <= latest'[p]
      BY <2>1, <2>2, <2>3, <2>8, <2>11
    <3> QED
      BY <3>1, <3>2 DEF LatestIsLast, PrOfJob
  <2> QED
    BY <2>4, <2>9, <2>12
<1>4. CASE TakeNext
  <2> DEFINE j == Head(work)
  <2>1. j \in 1..Len(jobs) /\ UNCHANGED latest
    BY <1>4, TakenJob
  <2>2. CASE jobs[j].status = "OBSOLETE" /\ UNCHANGED jobs /\ request' = NoRequest
    BY <1>1, <2>1, <2>2
  <2>3. CASE /\ jobs[j].status = "QUEUED" /\ jobs[j].attempts + 1 \in 0..MaxAttempts
             /\ Moves(j, "IN_PROGRESS", jobs[j].attempts + 1)
    BY <2>1, <2>3, RaceGoesOn DEF Statuses, Live
  <2> QED
    BY <1>4, <2>2, <2>3, TakenJob
<1>5. CASE Analyse
  <2> DEFINE j == request.job
  <2>1. /\ j \in 1..Len(jobs) /\ jobs[j].attempts \in 0..MaxAttempts /\ UNCHANGED latest
    BY <1>5, AnalysedJob DEF Analyse
  <2>2. Moves(j, "COMPLETED", jobs[j].attempts)
    BY <1>5, <1>s, <2>1, StatusMoves DEF Analyse
  <2> QED
    BY <2>1, <2>2, RaceGoesOn DEF Statuses, Live
<1>6. CASE AnalysisFails
  <2> DEFINE j == request.job
  <2>1. /\ j \in 1..Len(jobs) /\ jobs[j].attempts \in 0..MaxAttempts /\ UNCHANGED latest
        /\ jobs[j].status \in Live
    BY <1>6, AnalysedJob DEF AnalysisFails, Live
  <2>2. CASE jobs[j].attempts < MaxAttempts /\ Moves(j, "QUEUED", jobs[j].attempts)
    BY <2>1, <2>2, RaceGoesOn DEF Statuses, Live
  <2>3. CASE Moves(j, "DEAD_LETTER", jobs[j].attempts)
    BY <2>1, <2>3, RaceGoesOn DEF Statuses, Live
  <2> QED
    BY <1>6, <2>2, <2>3, FailedJob
<1>7. CASE StopProcess
  <2>1. jobs' = << >> /\ Len(jobs') = 0 /\ latest' = [p \in PRs |-> 0]
    BY <1>7 DEF StopProcess
  <2> QED
    BY <2>1 DEF AttemptsLeft, OnlyNewestRuns, LatestIsLast
<1> QED
  BY <1>1, <1>2, <1>3, <1>4, <1>5, <1>6, <1>7 DEF WebhookNext, ServeRequest

-----------------------------------------------------------------------------
(* A record goes on standing while nothing is added to it and no job but    *)
(* those that had completed is seen as completed.                           *)
LEMMA StillStands ==
  ASSUME NewestStands, UNCHANGED timeline,
         \A p \in PRs : latest'[p] # 0 /\ jobs'[latest'[p]].status = "COMPLETED" =>
             /\ latest'[p] = latest[p]
             /\ jobs[latest[p]].status = "COMPLETED"
             /\ jobs'[latest[p]].delivery = jobs[latest[p]].delivery
  PROVE  NewestStands'
BY DEF NewestStands

(* What completes is the newest job of its pull request, and goes on record. *)
LEMMA StandsStep == WInv /\ [WebhookNext]_webhookVars => NewestStands'
<1> SUFFICES ASSUME WInv, [WebhookNext]_webhookVars PROVE NewestStands'
  OBVIOUS
<1>s. /\ jobs \in Seq(Job) /\ latest \in [PRs -> 0..Len(jobs)] /\ Len(jobs) \in Nat
      /\ timeline \in [PRs -> Seq(Deliveries)] /\ WebhookTypeOK /\ NewestStands
      /\ \A p \in PRs : latest[p] # 0 => latest[p] \in 1..Len(jobs)
  <2>1. /\ jobs \in Seq(Job) /\ latest \in [PRs -> 0..Len(jobs)]
        /\ timeline \in [PRs -> Seq(Deliveries)] /\ WebhookTypeOK /\ NewestStands
    BY DEF WInv, WebhookTypeOK
  <2>2. Len(jobs) \in Nat
    BY <2>1, LenProperties
  <2> QED
    BY <2>1, <2>2
<1>1. CASE UNCHANGED <<jobs, latest, timeline>>
  BY <1>1, <1>s, StillStands
<1>2. (\E d \in Deliveries : Receive(d) \/ Skip(d)) \/ RecordInstallation \/ UNCHANGED webhookVars
          => UNCHANGED <<jobs, latest, timeline>>
  BY DEF Receive, Skip, RecordInstallation, webhookVars, memory, disk
<1>3. ASSUME NEW j \in 1..Len(jobs), NEW s \in Statuses \ {"COMPLETED"}, NEW n \in 0..MaxAttempts,
             Moves(j, s, n), UNCHANGED <<latest, timeline>>
      PROVE  NewestStands'
  <2>1. /\ jobs'[j].status = s
        /\ \A k \in 1..Len(jobs) : k # j => jobs'[k] = jobs[k]
    BY <1>3, <1>s, MovedJob
  <2> QED
    BY <1>3, <1>s, <2>1, StillStands
<1>4. CASE Enqueue
  <2> DEFINE new == Len(jobs) + 1
             d == request.delivery
  <2>1. /\ jobs'[new].status = "QUEUED" /\ UNCHANGED timeline
        /\ \A j \in 1..Len(jobs) :
              /\ jobs'[j].delivery = jobs[j].delivery
              /\ jobs'[j].status = IF j \in Superseded(d) THEN "OBSOLETE" ELSE jobs[j].status
        /\ latest' = [p \in PRs |-> IF p = PrOf[d] THEN new ELSE latest[p]]
    BY <1>4, <1>s, EnqueuedJob DEF disk
  <2> HIDE DEF new
  <2>2. ASSUME NEW p \in PRs, latest'[p] # 0, jobs'[latest'[p]].status = "COMPLETED"
        PROVE  /\ latest'[p] = latest[p] /\ jobs[latest[p]].status = "COMPLETED"
               /\ jobs'[latest[p]].delivery = jobs[latest[p]].delivery
    <3>1. p # PrOf[d]
      BY <2>1, <2>2
    <3>2. latest'[p] = latest[p] /\ latest[p] \in 1..Len(jobs)
      BY <1>s, <2>1, <2>2, <3>1
    <3> QED
      BY <2>1, <2>2, <3>2
  <2> QED
    BY <1>s, <2>1, <2>2, StillStands
<1>5. CASE TakeNext
  <2> DEFINE j == Head(work)
  <2>1. j \in 1..Len(jobs) /\ UNCHANGED <<latest, timeline>>
    BY <1>5, TakenJob DEF disk
  <2>2. CASE jobs[j].status = "OBSOLETE" /\ UNCHANGED jobs /\ request' = NoRequest
    BY <1>1, <2>1, <2>2
  <2>3. CASE /\ jobs[j].status = "QUEUED" /\ jobs[j].attempts + 1 \in 0..MaxAttempts
             /\ Moves(j, "IN_PROGRESS", jobs[j].attempts + 1)
    BY <1>3, <2>1, <2>3 DEF Statuses, Live
  <2> QED
    BY <1>5, <2>2, <2>3, TakenJob
<1>6. CASE Analyse
  <2> DEFINE j == request.job
             p == PrOfJob(j)
  <2>1. /\ j \in 1..Len(jobs) /\ jobs[j].attempts \in 0..MaxAttempts
        /\ jobs[j].status = "IN_PROGRESS" /\ jobs[j].delivery \in Deliveries
        /\ p \in PRs \union {NoPR} /\ UNCHANGED latest
        /\ timeline' = IF p = NoPR THEN timeline
                       ELSE [timeline EXCEPT ![p] = Append(@, jobs[j].delivery)]
    BY <1>6, AnalysedJob DEF Analyse
  <2>2. Moves(j, "COMPLETED", jobs[j].attempts)
    BY <1>6, <1>s, <2>1, StatusMoves DEF Analyse
  <2>3. /\ \A k \in 1..Len(jobs) : jobs'[k].delivery = jobs[k].delivery
        /\ \A k \in 1..Len(jobs) : k # j => jobs'[k] = jobs[k]
    BY <1>s, <2>1, <2>2, MovedJob DEF Statuses
  <2>4. p # NoPR => latest[p] = j
    BY <2>1 DEF WInv, OnlyNewestRuns, Live
  <2>5. \A q \in PRs : latest[q] = j => q = p
    BY <1>s, <2>1 DEF WInv, LatestIsLast
  <2> HIDE DEF p, j
  <2>6. ASSUME NEW q \in PRs, latest'[q] # 0, jobs'[latest'[q]].status = "COMPLETED"
        PROVE  /\ timeline'[q] # << >>
               /\ timeline'[q][Len(timeline'[q])] = jobs'[latest'[q]].delivery
    <3>1. CASE q = p
      <4>1. p # NoPR /\ latest'[q] = j /\ timeline'[q] = Append(timeline[q], jobs[j].delivery)
        BY <1>s, <2>1, <2>4, <3>1, WebhookAssumption
      <4>2. timeline[q] \in Seq(Deliveries)
        BY <1>s
      <4> QED
        BY <2>1, <2>3, <4>1, <4>2, AppendProperties, LenProperties
    <3>2. CASE q # p
      <4>1. latest'[q] = latest[q] /\ latest[q] # j /\ timeline'[q] = timeline[q]
        BY <1>s, <2>1, <2>5, <3>2
      <4>2. jobs'[latest[q]] = jobs[latest[q]]
        BY <1>s, <2>3, <2>6, <4>1
      <4> QED
        BY <1>s, <2>6, <4>1, <4>2 DEF NewestStands
    <3> QED
      BY <3>1, <3>2
  <2> QED
    BY <2>6 DEF NewestStands
<1>7. CASE AnalysisFails
  <2> DEFINE j == request.job
  <2>1. /\ j \in 1..Len(jobs) /\ jobs[j].attempts \in 0..MaxAttempts /\ UNCHANGED <<latest, timeline>>
    BY <1>7, AnalysedJob DEF AnalysisFails, disk
  <2>2. Moves(j, "QUEUED", jobs[j].attempts) \/ Moves(j, "DEAD_LETTER", jobs[j].attempts)
    BY <1>7, FailedJob
  <2> QED
    BY <1>3, <2>1, <2>2 DEF Statuses, Live
<1>8. CASE StopProcess
  <2>1. \A p \in PRs : latest'[p] = 0
    BY <1>8 DEF StopProcess
  <2> QED
    BY <2>1 DEF NewestStands
<1> QED
  BY <1>1, <1>2, <1>4, <1>5, <1>6, <1>7, <1>8 DEF WebhookNext, ServeRequest

-----------------------------------------------------------------------------
LEMMA WebhookInvariant == WebhookSpec => []WInv
<1>1. WebhookInit => WInv
  <2> SUFFICES ASSUME WebhookInit PROVE WInv
    OBVIOUS
  <2>1. Len(jobs) = 0 /\ Range(work) = {} /\ Range(dead) = {} /\ IsInjective(work) /\ IsInjective(dead)
    BY EmptyQueue, EmptySeq DEF WebhookInit
  <2>2. /\ tracked \in Seq(Deliveries) /\ jobs \in Seq(Job) /\ work \in Seq(1..Len(jobs))
        /\ dead \in Seq(1..Len(jobs)) /\ timeline \in [PRs -> Seq(Deliveries)]
    BY EmptySeq DEF WebhookInit
  <2>3. latest \in [PRs -> 0..Len(jobs)]
    BY <2>1 DEF WebhookInit
  <2>4. WebhookTypeOK
    BY <2>2, <2>3 DEF WebhookInit, WebhookTypeOK
  <2>5. NewestStands
    BY DEF WebhookInit, NewestStands
  <2>6. JobsAccounted /\ AttemptsLeft /\ OnlyNewestRuns /\ LatestIsLast
    BY <2>1 DEF WebhookInit, JobsAccounted, AttemptsLeft, OnlyNewestRuns, LatestIsLast
  <2> QED
    BY <2>4, <2>5, <2>6 DEF WInv
<1>2. WInv /\ [WebhookNext]_webhookVars => WInv'
  BY WebhookTypeStep, AccountedStep, RaceStep, StandsStep DEF WInv
<1> QED
  BY <1>1, <1>2, PTL DEF WebhookSpec

(* Every variable keeps its type, whatever GitHub sends and whatever fails.  *)
THEOREM WebhookTypeCorrect == WebhookSpec => []WebhookTypeOK
BY WebhookInvariant, PTL DEF WInv

(* No job of the event queue (webhook_queue.py) is lost or queued twice, and *)
(* the dead letters are the jobs that used up their attempts.               *)
THEOREM EveryJobAccounted == WebhookSpec => []JobsAccounted
BY WebhookInvariant, PTL DEF WInv

(* Of the commits of a pull request only the newest can still be analysed,   *)
(* and once it has been, the record shows it: with retries, events out of   *)
(* order and redelivered, failures and restarts.                            *)
THEOREM NewestAlwaysWins == WebhookSpec => []NewestWins
BY WebhookInvariant, PTL DEF WInv, NewestWins

-----------------------------------------------------------------------------
(* What a redelivery relies on: the process goes on, events come in order,  *)
(* and the replay cache has room for every delivery.                        *)
Orderly == /\ MaxCrashes = 0
           /\ "reorder" \notin Network
           /\ IsFiniteSet(Deliveries) /\ Cardinality(Deliveries) <= Capacity

(* The request has a delivery that is not yet a job.                        *)
BeforeJob == request.at \in {"installation", "enqueue"}
HasJob(d) == \E j \in 1..Len(jobs) : jobs[j].delivery = d

(* The cache knows every delivery sent, each once.                          *)
RemembersAll == IsInjective(tracked) /\ Range(tracked) = sent

SentInOrder == \A d \in sent, e \in Deliveries : e < d => e \in sent

(* Jobs are numbered as the events happened.                                *)
JobsInOrder ==
    /\ \A i, j \in 1..Len(jobs) : i < j => jobs[i].delivery < jobs[j].delivery
    /\ \A j \in 1..Len(jobs) : jobs[j].delivery \in sent
    /\ BeforeJob => /\ request.delivery \in sent
                    /\ \A j \in 1..Len(jobs) : jobs[j].delivery < request.delivery

(* What is on record of a pull request are deliveries of its completed jobs. *)
Recorded == \A p \in PRs : \A a \in 1..Len(timeline[p]) : \E j \in 1..Len(jobs) :
    /\ jobs[j].delivery = timeline[p][a]
    /\ jobs[j].status = "COMPLETED" /\ PrOfJob(j) = p

OrderInv == RemembersAll /\ SentInOrder /\ JobsInOrder /\ Recorded /\ ForwardOnly

(* In one life of the process nothing leaves the list of jobs, no delivery  *)
(* of a job changes and a completed job stays completed.                    *)
JobsStay == /\ Len(jobs) <= Len(jobs')
            /\ \A j \in 1..Len(jobs) :
                  /\ jobs'[j].delivery = jobs[j].delivery
                  /\ jobs[j].status = "COMPLETED" => jobs'[j].status = "COMPLETED"

(* How the deliveries move in a step of one life of the process: a request  *)
(* comes in or is skipped, its delivery becomes a job, or the queue works.  *)
LEMMA DeliveryMoves ==
  ASSUME WInv, MaxCrashes = 0, [WebhookNext]_webhookVars
  PROVE  /\ JobsStay
         /\ \/ \E d \in Deliveries : Receive(d)
            \/ \E d \in Deliveries : Skip(d)
            \/ RecordInstallation
            \/ Enqueue
            \/ ~BeforeJob /\ ~BeforeJob' /\ Len(jobs') = Len(jobs) /\ UNCHANGED <<sent, tracked>>
                   /\ (UNCHANGED timeline \/ Analyse)
                   /\ \A d \in Deliveries : answer'[d] = "DUPLICATE_DELIVERY" =>
                                                answer[d] = "DUPLICATE_DELIVERY"
            \/ UNCHANGED webhookVars
<1> DEFINE Works == ~BeforeJob /\ ~BeforeJob' /\ Len(jobs') = Len(jobs) /\ UNCHANGED <<sent, tracked>>
                    /\ (UNCHANGED timeline \/ Analyse)
                    /\ \A d \in Deliveries : answer'[d] = "DUPLICATE_DELIVERY" =>
                                                 answer[d] = "DUPLICATE_DELIVERY"
<1>s. /\ jobs \in Seq(Job) /\ Len(jobs) \in Nat /\ WebhookTypeOK
      /\ answer \in [Deliveries -> {"none", "400", "500", "DUPLICATE_DELIVERY", "ACCEPTED"}]
  <2>1. jobs \in Seq(Job) /\ WebhookTypeOK
    BY DEF WInv, WebhookTypeOK
  <2> QED
    BY <2>1, LenProperties DEF WebhookTypeOK
<1>n. NoRequest.at = "idle"
  BY DEF NoRequest
<1>a. ASSUME NEW d \in Deliveries, Answer(d, "ACCEPTED")
      PROVE  \A e \in Deliveries : answer'[e] = "DUPLICATE_DELIVERY" => answer[e] = "DUPLICATE_DELIVERY"
  BY <1>a, <1>s DEF Answer
<1>1. ASSUME UNCHANGED jobs PROVE JobsStay /\ Len(jobs') = Len(jobs)
  BY <1>1, <1>s DEF JobsStay
<1>2. ~StopProcess
  BY <1>s DEF StopProcess, WebhookTypeOK
<1>3. ASSUME NEW j \in 1..Len(jobs), jobs[j].status # "COMPLETED", NEW s \in Statuses,
             NEW n \in 0..MaxAttempts, Moves(j, s, n)
      PROVE  JobsStay /\ Len(jobs') = Len(jobs)
  <2>1. /\ Len(jobs') = Len(jobs)
        /\ \A k \in 1..Len(jobs) : jobs'[k].delivery = jobs[k].delivery
        /\ \A k \in 1..Len(jobs) : k # j => jobs'[k] = jobs[k]
    BY <1>3, <1>s, MovedJob
  <2> QED
    BY <1>3, <1>s, <2>1 DEF JobsStay
<1>4. CASE Enqueue
  <2>1. /\ Len(jobs') = Len(jobs) + 1
        /\ \A j \in 1..Len(jobs) :
              /\ jobs'[j].delivery = jobs[j].delivery
              /\ jobs'[j].status = IF j \in Superseded(request.delivery) THEN "OBSOLETE" ELSE jobs[j].status
    BY <1>4, <1>s, EnqueuedJob
  <2>2. \A j \in Superseded(request.delivery) : jobs[j].status # "COMPLETED"
    BY DEF Superseded, Live
  <2> QED
    BY <1>4, <1>s, <2>1, <2>2 DEF JobsStay
<1>5. CASE TakeNext
  <2> DEFINE j == Head(work)
  <2>1. j \in 1..Len(jobs) /\ UNCHANGED <<sent, tracked, timeline>> /\ request.delivery \in Deliveries
    BY <1>5, TakenJob DEF disk
  <2>b. ~BeforeJob
    BY <1>5 DEF TakeNext, BeforeJob
  <2>2. CASE /\ UNCHANGED jobs /\ request' = NoRequest /\ Answer(request.delivery, "ACCEPTED")
    <3>1. Works
      BY <1>a, <1>n, <2>1, <2>b, <2>2 DEF BeforeJob
    <3> QED
      BY <1>1, <2>2, <3>1
  <2>3. CASE /\ jobs[j].status = "QUEUED" /\ jobs[j].attempts + 1 \in 0..MaxAttempts
             /\ Moves(j, "IN_PROGRESS", jobs[j].attempts + 1)
             /\ request' = [at |-> "analyse", delivery |-> request.delivery, job |-> j]
             /\ UNCHANGED answer
    <3>1. JobsStay /\ Len(jobs') = Len(jobs)
      BY <1>3, <2>1, <2>3 DEF Statuses, Live
    <3>2. request'.at = "analyse"
      BY <2>3
    <3> QED
      BY <2>1, <2>b, <2>3, <3>1, <3>2 DEF BeforeJob
  <2> QED
    BY <1>5, <2>2, <2>3, TakenJob
<1>6. CASE Analyse \/ AnalysisFails
  <2> DEFINE j == request.job
  <2>1. /\ j \in 1..Len(jobs) /\ jobs[j].attempts \in 0..MaxAttempts /\ jobs[j].status = "IN_PROGRESS"
        /\ request.delivery \in Deliveries
    BY <1>6, AnalysedJob DEF Analyse, AnalysisFails
  <2>2. /\ request' = NoRequest /\ Answer(request.delivery, "ACCEPTED") /\ UNCHANGED <<sent, tracked>>
        /\ UNCHANGED timeline \/ Analyse
        /\ ~BeforeJob
    BY <1>6 DEF Analyse, AnalysisFails, disk, BeforeJob
  <2>3. \E s \in Statuses : Moves(j, s, jobs[j].attempts)
    <3>1. CASE Analyse
      BY <1>s, <2>1, <3>1, StatusMoves DEF Analyse, Statuses
    <3>2. CASE AnalysisFails
      BY <3>2, FailedJob DEF Statuses, Live
    <3> QED
      BY <1>6, <3>1, <3>2
  <2>4. JobsStay /\ Len(jobs') = Len(jobs)
    BY <1>3, <2>1, <2>3
  <2> QED
    BY <1>a, <1>n, <2>1, <2>2, <2>4 DEF BeforeJob
<1>7. ((\E d \in Deliveries : Receive(d) \/ Skip(d)) \/ RecordInstallation \/ UNCHANGED webhookVars)
         => UNCHANGED jobs
  BY DEF Receive, Skip, RecordInstallation, webhookVars, memory
<1> QED
  BY <1>1, <1>2, <1>4, <1>5, <1>6, <1>7 DEF WebhookNext, ServeRequest

(* The replay cache takes the id of a delivery it does not know, and loses  *)
(* none: there is room.                                                     *)
LEMMA CacheStep ==
  ASSUME Orderly, WInv, OrderInv, NEW d \in Deliveries, Receive(d)
  PROVE  /\ RemembersAll' /\ SentInOrder' /\ d \notin sent /\ sent' = sent \union {d}
         /\ \A e \in sent : e < d
<1>s. /\ tracked \in Seq(Deliveries) /\ IsInjective(tracked) /\ Range(tracked) = sent
      /\ sent \subseteq Deliveries /\ Deliveries \subseteq Nat
  BY WebhookAssumption DEF WInv, WebhookTypeOK, OrderInv, RemembersAll
<1>1. d \notin sent
  BY <1>s DEF Receive, Track
<1>2. sent' = sent \union {d} /\ \A e \in Deliveries : e < d => e \in sent
  BY <1>1 DEF Receive, Sends, Orderly
<1>3. \A e \in sent : e < d
  BY <1>s, <1>1 DEF OrderInv, SentInOrder
<1>4. SentInOrder'
  <2> SUFFICES ASSUME NEW f \in sent', NEW e \in Deliveries, e < f PROVE e \in sent'
    BY DEF SentInOrder
  <2> QED
    BY <1>2 DEF OrderInv, SentInOrder
<1> DEFINE longer == Append(tracked, d)
<1>5. /\ longer \in Seq(Deliveries) /\ Range(longer) = Range(tracked) \union {d} /\ IsInjective(longer)
  BY <1>s, <1>1, AppendOne
<1>6. tracked' = IF Len(longer) > Capacity THEN Tail(longer) ELSE longer
  BY DEF Receive, Track
<1> HIDE DEF longer
<1>7. Len(longer) <= Cardinality(Deliveries) /\ Len(longer) \in Nat
  BY <1>5, DistinctFit, LenProperties DEF Orderly
<1>8. ~(Len(longer) > Capacity)
  BY <1>7, FS_CardinalityType, WebhookAssumption DEF Orderly
<1>9. tracked' = longer
  BY <1>6, <1>8
<1>10. RemembersAll'
  BY ONLY <1>s, <1>2, <1>5, <1>9 DEF RemembersAll
<1> QED
  BY <1>1, <1>2, <1>3, <1>4, <1>10

(* The order of the deliveries is kept from the wire to the list of jobs.   *)
LEMMA InOrderStep ==
  ASSUME Orderly, WInv, OrderInv, [WebhookNext]_webhookVars
  PROVE  RemembersAll' /\ SentInOrder' /\ JobsInOrder'
<1>s. /\ RemembersAll /\ SentInOrder /\ JobsInOrder /\ MaxCrashes = 0 /\ WebhookTypeOK
      /\ sent \subseteq Deliveries /\ Deliveries \subseteq Nat /\ Len(jobs) \in Nat
      /\ NoRequest.at = "idle"
  <2>1. jobs \in Seq(Job)
    BY DEF WInv, WebhookTypeOK
  <2> QED
    BY <2>1, LenProperties, WebhookAssumption
       DEF WInv, WebhookTypeOK, OrderInv, Orderly, NoRequest
<1>1. ASSUME NEW d \in Deliveries, Receive(d) PROVE RemembersAll' /\ SentInOrder' /\ JobsInOrder'
  <2>1. /\ RemembersAll' /\ SentInOrder' /\ sent' = sent \union {d} /\ \A e \in sent : e < d
    BY <1>1, CacheStep
  <2>2. UNCHANGED jobs /\ (request' = [at |-> "installation", delivery |-> d] \/ request' = NoRequest)
    BY <1>1 DEF Receive
  <2>3. \A j \in 1..Len(jobs) : jobs[j].delivery \in sent
    BY <1>s DEF JobsInOrder
  <2>4. BeforeJob' => request'.delivery = d
    BY <1>s, <2>2 DEF BeforeJob
  <2>5. JobsInOrder'
    BY <1>s, <2>1, <2>2, <2>3, <2>4 DEF JobsInOrder
  <2> QED
    BY <2>1, <2>5
<1>2. ASSUME NEW d \in Deliveries, Skip(d) PROVE RemembersAll' /\ SentInOrder' /\ JobsInOrder'
  <2>1. UNCHANGED <<tracked, sent, jobs, request>>
    BY <1>s, <1>2 DEF Skip, Sends, memory, RemembersAll
  <2> QED
    BY <1>s, <2>1 DEF RemembersAll, SentInOrder, JobsInOrder, BeforeJob
<1>3. CASE RecordInstallation
  <2>1. UNCHANGED <<tracked, sent, jobs>>
    BY <1>3 DEF RecordInstallation, memory
  <2>2. request \in [at : {"installation", "enqueue", "take"}, delivery : Deliveries] /\ BeforeJob
    BY <1>3, <1>s, RequestFields DEF RecordInstallation, BeforeJob
  <2>3. BeforeJob' => request'.delivery = request.delivery
    BY <1>3, <1>s, <2>2 DEF RecordInstallation, BeforeJob
  <2> QED
    BY <1>s, <2>1, <2>2, <2>3 DEF RemembersAll, SentInOrder, JobsInOrder
<1>4. CASE Enqueue
  <2> DEFINE d == request.delivery
             new == Len(jobs) + 1
  <2>1. /\ Len(jobs') = new /\ jobs'[new].delivery = d
        /\ \A j \in 1..Len(jobs) : jobs'[j].delivery = jobs[j].delivery
        /\ request.at = "enqueue" /\ request'.at = "take" /\ UNCHANGED <<sent, tracked>>
    BY <1>4, <1>s, EnqueuedJob
  <2>2. d \in sent /\ \A j \in 1..Len(jobs) : jobs[j].delivery < d
    BY <1>s, <2>1 DEF JobsInOrder, BeforeJob
  <2>3. \A j \in 1..Len(jobs') : j \in 1..Len(jobs) \/ j = new
    BY <1>s, <2>1
  <2> HIDE DEF d
  <2>4. \A i, j \in 1..Len(jobs') : i < j => jobs'[i].delivery < jobs'[j].delivery
    <3> SUFFICES ASSUME NEW i \in 1..Len(jobs'), NEW j \in 1..Len(jobs'), i < j
                 PROVE  jobs'[i].delivery < jobs'[j].delivery
      OBVIOUS
    <3>1. i \in 1..Len(jobs)
      BY <1>s, <2>1
    <3>2. CASE j \in 1..Len(jobs)
      BY <1>s, <2>1, <3>1, <3>2 DEF JobsInOrder
    <3>3. CASE j = new
      BY <2>1, <2>2, <3>1, <3>3
    <3> QED
      BY <2>3, <3>2, <3>3
  <2>5. \A j \in 1..Len(jobs') : jobs'[j].delivery \in sent'
    BY <1>s, <2>1, <2>2, <2>3 DEF JobsInOrder
  <2>6. ~BeforeJob'
    BY <2>1 DEF BeforeJob
  <2> QED
    BY <1>s, <2>1, <2>4, <2>5, <2>6 DEF RemembersAll, SentInOrder, JobsInOrder
<1>5. CASE ~BeforeJob' /\ Len(jobs') = Len(jobs) /\ UNCHANGED <<sent, tracked>> /\ JobsStay
  BY <1>5, <1>s DEF RemembersAll, SentInOrder, JobsInOrder, JobsStay
<1>6. CASE UNCHANGED webhookVars
  BY <1>6, <1>s DEF RemembersAll, SentInOrder, JobsInOrder, BeforeJob, webhookVars, memory
<1> QED
  BY <1>s, <1>1, <1>2, <1>3, <1>4, <1>5, <1>6, DeliveryMoves

(* The record of a pull request takes the commit of its newest job, which   *)
(* comes after every commit already there.                                  *)
LEMMA RecordStep ==
  ASSUME Orderly, WInv, OrderInv, [WebhookNext]_webhookVars
  PROVE  Recorded' /\ ForwardOnly'
<1>s. /\ jobs \in Seq(Job) /\ Len(jobs) \in Nat /\ timeline \in [PRs -> Seq(Deliveries)]
      /\ Deliveries \subseteq Nat
      /\ Recorded /\ ForwardOnly /\ JobsInOrder
  <2>1. jobs \in Seq(Job) /\ timeline \in [PRs -> Seq(Deliveries)]
    BY DEF WInv, WebhookTypeOK
  <2> QED
    BY <2>1, LenProperties, WebhookAssumption DEF OrderInv
<1>1. JobsStay
  BY DeliveryMoves DEF Orderly
<1>2. ASSUME NEW p \in PRs, NEW a \in 1..Len(timeline[p])
      PROVE  \E j \in 1..Len(jobs') : /\ jobs'[j].delivery = timeline[p][a]
                                      /\ jobs'[j].status = "COMPLETED"
                                      /\ PrOf[jobs'[j].delivery] = p
  <2>1. PICK j \in 1..Len(jobs) : /\ jobs[j].delivery = timeline[p][a]
                                  /\ jobs[j].status = "COMPLETED" /\ PrOfJob(j) = p
    BY <1>s DEF Recorded
  <2>2. j \in 1..Len(jobs')
    BY <1>1, <1>s DEF JobsStay
  <2> QED
    BY <1>1, <2>1, <2>2 DEF JobsStay, PrOfJob
<1>3. CASE UNCHANGED timeline
  BY <1>s, <1>2, <1>3 DEF Recorded, ForwardOnly, PrOfJob
<1>4. CASE Analyse
  <2> DEFINE j == request.job
             p == PrOfJob(j)
             c == jobs[j].delivery
  <2>1. /\ j \in 1..Len(jobs) /\ jobs[j].status = "IN_PROGRESS" /\ c \in Deliveries
        /\ p \in PRs \union {NoPR} /\ jobs[j].attempts \in 0..MaxAttempts
        /\ timeline' = IF p = NoPR THEN timeline ELSE [timeline EXCEPT ![p] = Append(@, c)]
    BY <1>4, AnalysedJob DEF Analyse
  <2>2. CASE p = NoPR
    BY <1>3, <2>1, <2>2
  <2>3. CASE p # NoPR
    <3>1. Moves(j, "COMPLETED", jobs[j].attempts)
      BY <1>4, <1>s, <2>1, StatusMoves DEF Analyse
    <3>2. jobs'[j].status = "COMPLETED" /\ jobs'[j].delivery = c /\ j \in 1..Len(jobs')
      BY <1>s, <2>1, <3>1, MovedJob DEF Statuses
    <3>3. p \in PRs /\ PrOf[c] = p
      BY <2>1, <2>3 DEF PrOfJob
    <3>4. latest[p] = j
      BY <2>1, <2>3 DEF WInv, OnlyNewestRuns, Live
    <3>5. \A i \in 1..Len(jobs) : PrOfJob(i) = p => i <= j
      BY <2>3, <3>4 DEF WInv, LatestIsLast
    <3>6. ASSUME NEW a \in 1..Len(timeline[p]) PROVE timeline[p][a] < c
      <4>1. PICK i \in 1..Len(jobs) : /\ jobs[i].delivery = timeline[p][a]
                                      /\ jobs[i].status = "COMPLETED" /\ PrOfJob(i) = p
        BY <1>s, <3>3 DEF Recorded
      <4>2. i < j
        BY <1>s, <2>1, <3>5, <4>1
      <4> QED
        BY <1>s, <2>1, <4>1, <4>2 DEF JobsInOrder
    <3> HIDE DEF p, c, j
    <3>7. /\ timeline[p] \in Seq(Deliveries) /\ Len(timeline[p]) \in Nat
          /\ timeline'[p] = Append(timeline[p], c)
          /\ \A q \in PRs : q # p => timeline'[q] = timeline[q]
      <4>1. timeline[p] \in Seq(Deliveries)
        BY <1>s, <3>3
      <4> QED
        BY <1>s, <2>1, <2>3, <3>3, <4>1, LenProperties
    <3>8. /\ Len(timeline'[p]) = Len(timeline[p]) + 1
          /\ timeline'[p][Len(timeline[p]) + 1] = c
          /\ \A a \in 1..Len(timeline[p]) : timeline'[p][a] = timeline[p][a]
      BY <2>1, <3>7, AppendProperties
    <3>9. \A a \in 1..Len(timeline'[p]) : a \in 1..Len(timeline[p]) \/ a = Len(timeline[p]) + 1
      BY <3>7, <3>8
    <3>10. Recorded'
      <4> SUFFICES ASSUME NEW q \in PRs, NEW a \in 1..Len(timeline'[q])
                   PROVE  \E i \in 1..Len(jobs') : /\ jobs'[i].delivery = timeline'[q][a]
                                                   /\ jobs'[i].status = "COMPLETED"
                                                   /\ PrOf[jobs'[i].delivery] = q
        BY DEF Recorded, PrOfJob
      <4>1. CASE q # p \/ a \in 1..Len(timeline[p])
        <5>1. a \in 1..Len(timeline[q]) /\ timeline'[q][a] = timeline[q][a]
          <6>1. CASE q # p
            BY <3>7, <6>1
          <6>2. CASE q = p /\ a \in 1..Len(timeline[p])
            BY <3>8, <6>2
          <6> QED
            BY <4>1, <6>1, <6>2
        <5> QED
          BY <1>2, <5>1
      <4>2. CASE q = p /\ a = Len(timeline[p]) + 1
        BY <3>2, <3>3, <3>8, <4>2
      <4> QED
        BY <3>9, <4>1, <4>2
    <3>11. ForwardOnly'
      <4> SUFFICES ASSUME NEW q \in PRs, NEW a \in 1..Len(timeline'[q]), NEW b \in 1..Len(timeline'[q]),
                          a < b
                   PROVE  timeline'[q][a] < timeline'[q][b]
        BY DEF ForwardOnly
      <4>1. CASE q # p
        BY <1>s, <3>7, <4>1 DEF ForwardOnly
      <4>2. CASE q = p /\ b \in 1..Len(timeline[p])
        <5>1. a \in 1..Len(timeline[p])
          BY <3>7, <3>9, <4>2
        <5> QED
          BY <1>s, <3>3, <3>8, <4>2, <5>1 DEF ForwardOnly
      <4>3. CASE q = p /\ b = Len(timeline[p]) + 1
        <5>1. a \in 1..Len(timeline[p])
          BY <3>7, <3>9, <4>3
        <5> QED
          BY <3>6, <3>8, <4>3, <5>1
      <4> QED
        BY <3>9, <4>1, <4>2, <4>3
    <3> QED
      BY <3>10, <3>11
  <2> QED
    BY <2>2, <2>3
<1>5. (\/ \E d \in Deliveries : Receive(d) \/ Skip(d)
       \/ RecordInstallation \/ Enqueue \/ UNCHANGED webhookVars) => UNCHANGED timeline
  BY DEF Receive, Skip, RecordInstallation, Enqueue, webhookVars, disk
<1> QED
  BY <1>3, <1>4, <1>5, DeliveryMoves DEF Orderly

(* A delivery in the replay cache, or one answered as already processed, is *)
(* a job or about to become one.                                            *)
BecameJobs == /\ \A d \in Range(tracked) : HasJob(d) \/ (BeforeJob /\ request.delivery = d)
              /\ DuplicateWasAccepted

LEMMA BecameJobsStep ==
  ASSUME MaxCrashes = 0, WebhookFaults \subseteq {"analysis"}, WInv, BecameJobs,
         [WebhookNext]_webhookVars
  PROVE  BecameJobs'
<1>s. /\ tracked \in Seq(Deliveries) /\ Len(jobs) \in Nat /\ WebhookTypeOK
      /\ answer \in [Deliveries -> {"none", "400", "500", "DUPLICATE_DELIVERY", "ACCEPTED"}]
      /\ "body" \notin WebhookFaults /\ "installation" \notin WebhookFaults
      /\ NoRequest.at = "idle"
  <2>1. jobs \in Seq(Job)
    BY DEF WInv, WebhookTypeOK
  <2> QED
    BY <2>1, LenProperties DEF WInv, WebhookTypeOK, NoRequest
<1>1. JobsStay
  BY DeliveryMoves
<1>2. ASSUME NEW d, HasJob(d) PROVE HasJob(d)'
  BY <1>1, <1>2, <1>s DEF HasJob, JobsStay
<1>3. ASSUME \A d \in Deliveries : answer'[d] = "DUPLICATE_DELIVERY" =>
                 answer[d] = "DUPLICATE_DELIVERY" \/ HasJob(d)
      PROVE  DuplicateWasAccepted'
  <2> SUFFICES ASSUME NEW d \in Deliveries, answer'[d] = "DUPLICATE_DELIVERY" PROVE HasJob(d)'
    BY DEF DuplicateWasAccepted, HasJob
  <2>1. HasJob(d)
    BY <1>3 DEF BecameJobs, DuplicateWasAccepted, HasJob
  <2> QED
    BY <1>2, <2>1
<1>4. ASSUME NEW d \in Deliveries, Receive(d) PROVE BecameJobs'
  <2>1. request'.at = "installation" /\ request'.delivery = d /\ UNCHANGED answer /\ ~BeforeJob
    BY <1>4, <1>s DEF Receive, BeforeJob
  <2> DEFINE longer == Append(tracked, d)
  <2>2. longer \in Seq(Deliveries) /\ Range(longer) = Range(tracked) \union {d} /\ longer # << >>
    BY <1>s, AppendOne, AppendProperties
  <2>3. tracked' = Tail(longer) \/ tracked' = longer
    BY <1>4 DEF Receive, Track
  <2> HIDE DEF longer
  <2>4. Range(tracked') \subseteq Range(tracked) \union {d}
    BY <2>2, <2>3, TailHolds
  <2>5. BeforeJob'
    BY <2>1 DEF BeforeJob
  <2> QED
    BY <1>2, <1>3, <2>1, <2>4, <2>5 DEF BecameJobs
<1>5. ASSUME NEW d \in Deliveries, Skip(d) PROVE BecameJobs'
  <2>1. /\ UNCHANGED <<tracked, request>> /\ request = NoRequest
        /\ d \in Range(tracked) /\ Answer(d, "DUPLICATE_DELIVERY")
    BY <1>5 DEF Skip, memory
  <2>2. ~BeforeJob /\ ~BeforeJob'
    BY <1>s, <2>1 DEF BeforeJob
  <2>3. \A e \in Range(tracked) : HasJob(e)
    BY <2>2 DEF BecameJobs
  <2>4. \A e \in Deliveries : answer'[e] = "DUPLICATE_DELIVERY" =>
            answer[e] = "DUPLICATE_DELIVERY" \/ HasJob(e)
    BY <1>s, <2>1, <2>3 DEF Answer
  <2> QED
    BY <1>2, <1>3, <2>1, <2>3, <2>4 DEF BecameJobs
<1>6. CASE RecordInstallation
  <2>1. UNCHANGED <<tracked, answer>> /\ request' = [request EXCEPT !.at = "enqueue"]
    BY <1>6, <1>s DEF RecordInstallation, memory
  <2>2. request \in [at : {"installation", "enqueue", "take"}, delivery : Deliveries]
    BY <1>6, <1>s, RequestFields DEF RecordInstallation
  <2>3. BeforeJob' /\ request'.delivery = request.delivery
    BY <2>1, <2>2 DEF BeforeJob
  <2> QED
    BY <1>2, <1>3, <2>1, <2>3 DEF BecameJobs
<1>7. CASE Enqueue
  <2>1. /\ UNCHANGED <<tracked, answer>> /\ Len(jobs') = Len(jobs) + 1
        /\ jobs'[Len(jobs) + 1].delivery = request.delivery
    BY <1>7, <1>s, EnqueuedJob
  <2>2. \E j \in 1..Len(jobs') : jobs'[j].delivery = request.delivery
    BY <1>s, <2>1
  <2>3. \A d \in Range(tracked) : HasJob(d)'
    BY <1>2, <2>2 DEF BecameJobs, HasJob
  <2> QED
    BY <1>3, <2>1, <2>3 DEF BecameJobs
<1>8. CASE /\ ~BeforeJob /\ ~BeforeJob' /\ UNCHANGED tracked
           /\ \A d \in Deliveries : answer'[d] = "DUPLICATE_DELIVERY" =>
                                        answer[d] = "DUPLICATE_DELIVERY"
  BY <1>2, <1>3, <1>8 DEF BecameJobs
<1>9. CASE UNCHANGED webhookVars
  BY <1>2, <1>3, <1>9 DEF BecameJobs, BeforeJob, webhookVars, memory
<1> QED
  BY <1>4, <1>5, <1>6, <1>7, <1>8, <1>9, DeliveryMoves

-----------------------------------------------------------------------------
(* The record of a pull request moves forward: no commit is analysed twice  *)
(* or after a newer one, with retries, redeliveries and any failure, while  *)
(* events come in order to a process that goes on and whose replay cache    *)
(* has room for them.                                                       *)
THEOREM RecordMovesForward == ASSUME Orderly PROVE WebhookSpec => []ForwardOnly
<1>1. WebhookInit => OrderInv
  BY EmptyQueue DEF WebhookInit, OrderInv, RemembersAll, SentInOrder, JobsInOrder, Recorded,
                    ForwardOnly, BeforeJob, NoRequest
<1>2. Orderly /\ WInv /\ OrderInv /\ [WebhookNext]_webhookVars => OrderInv'
  BY InOrderStep, RecordStep DEF OrderInv
<1>3. Orderly
  OBVIOUS
<1>4. Orderly => Orderly'
  BY DEF Orderly
<1> QED
  BY <1>1, <1>2, <1>3, <1>4, WebhookInvariant, PTL DEF WebhookSpec, OrderInv

(* A delivery is answered as already processed only if it became a job, in  *)
(* one life of a process where nothing raises between the replay cache and  *)
(* the queue: whatever order events come in, however small the cache is and *)
(* however often the analysis fails.                                        *)
THEOREM DuplicatesBecameJobs ==
  ASSUME MaxCrashes = 0, WebhookFaults \subseteq {"analysis"}
  PROVE  WebhookSpec => []DuplicateWasAccepted
<1> DEFINE Sound == MaxCrashes = 0 /\ WebhookFaults \subseteq {"analysis"}
<1>1. WebhookInit => BecameJobs
  BY EmptyQueue DEF WebhookInit, BecameJobs, DuplicateWasAccepted
<1>2. Sound /\ WInv /\ BecameJobs /\ [WebhookNext]_webhookVars => BecameJobs'
  BY BecameJobsStep
<1>3. Sound
  OBVIOUS
<1>4. BecameJobs => DuplicateWasAccepted
  BY DEF BecameJobs
<1> HIDE DEF Sound
<1>5. Sound => Sound'
  BY DEF Sound
<1> QED
  BY <1>1, <1>2, <1>3, <1>4, <1>5, WebhookInvariant, PTL DEF WebhookSpec

(* A delivery sent again does no harm, under the conditions of both.        *)
THEOREM RetriesDoNoHarm ==
  ASSUME Orderly, WebhookFaults \subseteq {"analysis"}
  PROVE  WebhookSpec => []RetriesHarmless
<1>1. WebhookSpec => []ForwardOnly
  BY RecordMovesForward
<1>2. WebhookSpec => []DuplicateWasAccepted
  BY DuplicatesBecameJobs DEF Orderly
<1> QED
  BY <1>1, <1>2, PTL DEF RetriesHarmless
=============================================================================
