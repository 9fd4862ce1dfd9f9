-------------------------- MODULE PriorityJobQueue --------------------------
(***************************************************************************)
(* PriorityJobQueue and DeadLetterQueue                                     *)
(* (infrastructure/scaling/distributed_queue.py): a heap of job objects     *)
(* that _jobs and the workers share, ordered by priority and creation time. *)
(* Every method runs under the queue's lock, so it is one step; popping a   *)
(* dead letter for replay is not, and enqueue follows as a step of its own. *)
(* Workers and operators are not in the code: any number of them call the   *)
(* methods, a worker after dequeue reports nothing or a failure.            *)
(***************************************************************************)
EXTENDS Naturals, FiniteSets

CONSTANTS QueueJobs, QueueWorkers, NoJob,
          PriorityOf,     \* JobPriority of each job, 1 first
          MaxQueueAttempts,    \* max_attempts
          QueueHorizon,   \* bound: how far the clock goes
          MaxReplays      \* bound: how often dead letters are replayed

ASSUME PriorityJobQueueAssumption ==
    /\ NoJob \notin QueueJobs
    /\ PriorityOf \in [QueueJobs -> Nat]
    /\ MaxQueueAttempts \in Nat \ {0}
    /\ QueueHorizon \in Nat /\ MaxReplays \in Nat

VARIABLES heap,        \* _heap, a job object at most once
          job,         \* each job: its state, attempts and created_timestamp
          dlq,         \* _dlq_store
          held,        \* the job each worker works on
          replaying,   \* jobs an operator popped from the dead letters
          handed,      \* history: how often each job was handed out
          clock, replays

priorityVars == <<heap, job, dlq, held, replaying, handed, clock, replays>>

JobStates == {"CREATED", "QUEUED", "RUNNING", "FAILED", "CANCELLED", "RETRYING"}

PriorityInit == /\ heap = {} /\ dlq = {} /\ replaying = {}
                /\ job = [j \in QueueJobs |-> [state |-> "CREATED", attempts |-> 0, time |-> 0]]
                /\ held = [w \in QueueWorkers |-> NoJob]
                /\ handed = [j \in QueueJobs |-> 0]
                /\ clock = 0 /\ replays = 0

SetState(j, s) == job' = [job EXCEPT ![j].state = s]
Waits(j) == job[j].state \in {"QUEUED", "RETRYING"}

EnqueueJob(j) ==
    /\ \/ job[j].state = "CREATED" /\ UNCHANGED replaying
       \/ j \in replaying /\ replaying' = replaying \ {j}
    /\ job' = [job EXCEPT ![j].state = "QUEUED",
                          ![j].time = IF job[j].state = "CREATED" THEN clock ELSE @]
    /\ heap' = heap \union {j}
    /\ UNCHANGED <<dlq, held, handed, clock, replays>>

(* PriorityJob's ordering; heapq breaks a tie either way.                   *)
Ahead(j, k) == \/ PriorityOf[j] < PriorityOf[k]
               \/ PriorityOf[j] = PriorityOf[k] /\ job[j].time < job[k].time
First(S) == {j \in S : \A k \in S : ~Ahead(k, j)}

(* Mutant: a cancelled job is not skipped.                                  *)
DequeueAny(w) == /\ held[w] = NoJob
                 /\ \E j \in First(heap) :
                       /\ heap' = heap \ {j}
                       /\ SetState(j, "RUNNING")
                       /\ held' = [held EXCEPT ![w] = j]
                       /\ handed' = [handed EXCEPT ![j] = @ + 1]
                 /\ UNCHANGED <<dlq, replaying, clock, replays>>

(* The loop drops the cancelled jobs it meets before one that waits.        *)
DequeueJob(w) ==
    /\ held[w] = NoJob
    /\ LET live == {j \in heap : job[j].state # "CANCELLED"} IN
       \/ /\ live = {} /\ heap # {} /\ heap' = {}
          /\ UNCHANGED <<job, held, handed>>
       \/ \E j \in First(live) :
             /\ heap' = {k \in heap \ {j} : ~Ahead(k, j)}
             /\ SetState(j, "RUNNING")
             /\ held' = [held EXCEPT ![w] = j]
             /\ handed' = [handed EXCEPT ![j] = @ + 1]
    /\ UNCHANGED <<dlq, replaying, clock, replays>>

CancelJob(j) == /\ job[j].state = "QUEUED"
                /\ SetState(j, "CANCELLED")
                /\ UNCHANGED <<heap, dlq, held, replaying, handed, clock, replays>>

Release(w) == held' = [held EXCEPT ![w] = NoJob]

(* The worker is through; the queue is not told, the state stays RUNNING.   *)
JobSucceeds(w) == /\ held[w] # NoJob /\ Release(w)
                  /\ UNCHANGED <<heap, job, dlq, replaying, handed, clock, replays>>

(* 2 ** attempts seconds and the jitter, rounded up.                        *)
Delay(attempts) == 2 ^ attempts + 1

HandleFailure(w) ==
    /\ held[w] # NoJob /\ Release(w)
    /\ LET j == held[w]
           n == job[j].attempts + 1
       IN \/ /\ n < MaxQueueAttempts
             /\ job' = [job EXCEPT ![j] = [state |-> "RETRYING", attempts |-> n,
                                           time |-> clock + Delay(n)]]
             /\ heap' = heap \union {j}
             /\ UNCHANGED dlq
          \/ /\ n >= MaxQueueAttempts
             /\ job' = [job EXCEPT ![j].state = "FAILED", ![j].attempts = n]
             /\ dlq' = dlq \union {j}
             /\ UNCHANGED heap
    /\ UNCHANGED <<replaying, handed, clock, replays>>

(* An operator pops a dead letter to enqueue it again, attempts and all.    *)
PopDead(j) == /\ j \in dlq /\ replays < MaxReplays
              /\ dlq' = dlq \ {j}
              /\ replaying' = replaying \union {j}
              /\ replays' = replays + 1
              /\ UNCHANGED <<heap, job, held, handed, clock>>

QueueTick == /\ clock < QueueHorizon /\ clock' = clock + 1
             /\ UNCHANGED <<heap, job, dlq, held, replaying, handed, replays>>

PriorityNext == \/ \E j \in QueueJobs : EnqueueJob(j) \/ CancelJob(j) \/ PopDead(j)
                \/ \E w \in QueueWorkers : DequeueJob(w) \/ JobSucceeds(w) \/ HandleFailure(w)
                \/ QueueTick
PrioritySpec == PriorityInit /\ [][PriorityNext]_priorityVars

-----------------------------------------------------------------------------
PriorityTypeOK ==
    /\ heap \subseteq QueueJobs /\ dlq \subseteq QueueJobs /\ replaying \subseteq QueueJobs
    /\ job \in [QueueJobs -> [state : JobStates, attempts : Nat, time : Nat]]
    /\ held \in [QueueWorkers -> QueueJobs \union {NoJob}]
    /\ handed \in [QueueJobs -> Nat]
    /\ clock \in Nat /\ replays \in Nat

Holders(j) == {w \in QueueWorkers : held[w] = j}

(* Where a job is: RUNNING that nobody holds is what a finished job looks   *)
(* like, and any other combination means that the job is lost.              *)
PriorityPhase(j) ==
    CASE job[j].state = "CREATED"                              -> "new"
      [] job[j].state = "CANCELLED" /\ Holders(j) = {}         -> "cancelled"
      [] Waits(j) /\ j \in heap /\ Holders(j) = {}             -> "waiting"
      [] job[j].state = "FAILED" /\ j \in dlq \union replaying -> "dead"
      [] job[j].state = "RUNNING" /\ j \notin heap /\ Holders(j) = {}  -> "done"
      [] job[j].state = "RUNNING" /\ j \notin heap
            /\ Cardinality(Holders(j)) = 1                     -> "running"
      [] OTHER                                                 -> "lost"

(* The queue implements the abstract one: no job is lost between heap,      *)
(* workers and dead letters or held twice, a cancelled job never runs, and  *)
(* a job is given up after max_attempts runs, not before.                   *)
PriorityQueue == INSTANCE RetryQueue WITH
    Work <- QueueJobs, Limit <- MaxQueueAttempts, runs <- handed,
    phase <- [j \in QueueJobs |-> PriorityPhase(j)]
PriorityKeepsJobs == PriorityQueue!RQSpec
=============================================================================
