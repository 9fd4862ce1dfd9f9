-------------------------- MODULE SecurityJobQueue --------------------------
(***************************************************************************)
(* SecurityJobQueue and SecurityWorker (domain/operations/queue.py), as     *)
(* SecurityApplicationService builds them: one queue, one worker, called by *)
(* one thread.  enqueue makes a new job object each time, so the jobs here  *)
(* are the objects; two of them may bear the same id, and _all_jobs then    *)
(* lists the later one.  While a handler runs it may enqueue more.          *)
(***************************************************************************)
EXTENDS Naturals

CONSTANTS OpsJobs, NoOpsJob,
          OpsId,          \* the job_id each job is enqueued under
          OpsPriority,    \* PRIORITY_MAP of its type
          OpsHandled,     \* the jobs whose type has a handler
          MaxRetries      \* max_retries

ASSUME SecurityJobQueueAssumption ==
    /\ NoOpsJob \notin OpsJobs
    /\ OpsPriority \in [OpsJobs -> Nat]
    /\ OpsHandled \subseteq OpsJobs
    /\ MaxRetries \in Nat

VARIABLES opsHeap,    \* _heap
          opsJob,     \* status and retry_count, or status "none" before enqueue
          deadJobs,   \* _dead_jobs: how often each job is in the list
          allJobs,    \* _all_jobs: by id
          opsRunning, \* the job process_one is at
          opsTaken    \* history: how often each job was popped

opsVars == <<opsHeap, opsJob, deadJobs, allJobs, opsRunning, opsTaken>>

OpsIds == {OpsId[j] : j \in OpsJobs}
OpsStatus == {"none", "QUEUED", "RUNNING", "COMPLETED", "FAILED", "RETRYING"}

OpsInit == /\ opsHeap = {}
           /\ opsJob = [j \in OpsJobs |-> [status |-> "none", retries |-> 0]]
           /\ deadJobs = [j \in OpsJobs |-> 0]
           /\ allJobs = [i \in OpsIds |-> NoOpsJob]
           /\ opsRunning = NoOpsJob
           /\ opsTaken = [j \in OpsJobs |-> 0]

SetStatus(j, s) == opsJob' = [opsJob EXCEPT ![j].status = s]

EnqueueOps(j) == /\ opsJob[j].status = "none"
                 /\ SetStatus(j, "QUEUED")
                 /\ opsHeap' = opsHeap \union {j}
                 /\ allJobs' = [allJobs EXCEPT ![OpsId[j]] = j]
                 /\ UNCHANGED <<deadJobs, opsRunning, opsTaken>>

(* Of equal priorities heapq yields either.                                 *)
FirstOps == {j \in opsHeap : \A k \in opsHeap : OpsPriority[j] <= OpsPriority[k]}

(* process_one up to the handler: without one the job counts as completed.  *)
ProcessOne ==
    /\ opsRunning = NoOpsJob
    /\ \E j \in FirstOps :
          /\ opsHeap' = opsHeap \ {j}
          /\ opsTaken' = [opsTaken EXCEPT ![j] = @ + 1]
          /\ IF j \in OpsHandled
             THEN SetStatus(j, "RUNNING") /\ opsRunning' = j
             ELSE SetStatus(j, "COMPLETED") /\ UNCHANGED opsRunning
    /\ UNCHANGED <<deadJobs, allJobs>>

HandlerReturns == /\ opsRunning # NoOpsJob
                  /\ SetStatus(opsRunning, "COMPLETED")
                  /\ opsRunning' = NoOpsJob
                  /\ UNCHANGED <<opsHeap, deadJobs, allJobs, opsTaken>>

(* Mutant: retry_count <= max_retries.                                      *)
RaiseOnceMore ==
    /\ opsRunning # NoOpsJob
    /\ opsRunning' = NoOpsJob
    /\ \/ /\ opsJob[opsRunning].retries <= MaxRetries
          /\ opsJob' = [opsJob EXCEPT ![opsRunning] = [status |-> "RETRYING", retries |-> @.retries + 1]]
          /\ opsHeap' = opsHeap \union {opsRunning}
          /\ UNCHANGED deadJobs
       \/ /\ opsJob[opsRunning].retries > MaxRetries
          /\ SetStatus(opsRunning, "FAILED")
          /\ deadJobs' = [deadJobs EXCEPT ![opsRunning] = @ + 1]
          /\ UNCHANGED opsHeap
    /\ UNCHANGED <<allJobs, opsTaken>>

(* handle_job_failure: the job goes back at once, with its priority.        *)
HandlerRaises ==
    /\ opsRunning # NoOpsJob
    /\ opsRunning' = NoOpsJob
    /\ \/ /\ opsJob[opsRunning].retries < MaxRetries
          /\ opsJob' = [opsJob EXCEPT ![opsRunning] = [status |-> "RETRYING", retries |-> @.retries + 1]]
          /\ opsHeap' = opsHeap \union {opsRunning}
          /\ UNCHANGED deadJobs
       \/ /\ opsJob[opsRunning].retries >= MaxRetries
          /\ SetStatus(opsRunning, "FAILED")
          /\ deadJobs' = [deadJobs EXCEPT ![opsRunning] = @ + 1]
          /\ UNCHANGED opsHeap
    /\ UNCHANGED <<allJobs, opsTaken>>

OpsNext == \/ \E j \in OpsJobs : EnqueueOps(j)
           \/ ProcessOne \/ HandlerReturns \/ HandlerRaises
OpsSpec == OpsInit /\ [][OpsNext]_opsVars

-----------------------------------------------------------------------------
OpsTypeOK == /\ opsHeap \subseteq OpsJobs
             /\ opsJob \in [OpsJobs -> [status : OpsStatus, retries : 0..MaxRetries]]
             /\ deadJobs \in [OpsJobs -> Nat]
             /\ allJobs \in [OpsIds -> OpsJobs \union {NoOpsJob}]
             /\ opsRunning \in OpsJobs \union {NoOpsJob}
             /\ opsTaken \in [OpsJobs -> Nat]

(* Where a job is; one without a handler is popped and done in one step, so *)
(* its run does not count.                                                  *)
OpsPhase(j) ==
    LET s == opsJob[j].status IN
    CASE s = "none"                                                  -> "new"
      [] s \in {"QUEUED", "RETRYING"} /\ j \in opsHeap /\ opsRunning # j -> "waiting"
      [] s = "RUNNING" /\ j \notin opsHeap /\ opsRunning = j         -> "running"
      [] s = "COMPLETED" /\ j \notin opsHeap                         -> "done"
      [] s = "FAILED" /\ j \notin opsHeap /\ deadJobs[j] = 1         -> "dead"
      [] OTHER                                                       -> "lost"

(* The queue implements the abstract one for the jobs that have a handler:  *)
(* whatever the others do, and under whatever id it was enqueued, each is   *)
(* in the heap, with the worker, or done, or once in the dead letters, and  *)
(* there only after max_retries + 1 runs.                                   *)
SecurityQueue == INSTANCE RetryQueue WITH
    Work <- OpsHandled, Limit <- MaxRetries + 1,
    runs <- [j \in OpsHandled |-> opsTaken[j]],
    phase <- [j \in OpsHandled |-> OpsPhase(j)]
SecurityQueueKeepsJobs == SecurityQueue!RQSpec
=============================================================================
