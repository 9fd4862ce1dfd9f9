----------------------------- MODULE RetryQueue -----------------------------
(***************************************************************************)
(* What both job queues of the code promise about a job: it is in one phase *)
(* at a time, a failed run is repeated until it has been run Limit times,   *)
(* and only then is the job given up.  One that was given up runs again     *)
(* only when somebody replays it, one that was cancelled never.             *)
(***************************************************************************)
EXTENDS Naturals

CONSTANTS Work,    \* the jobs
          Limit    \* how often a job runs before it is given up

VARIABLES phase,   \* new, waiting, running, done, dead or cancelled
          runs     \* how often each job was handed out

RQInit == /\ phase = [j \in Work |-> "new"]
          /\ runs = [j \in Work |-> 0]

Moves(j, from, to) == /\ phase[j] = from
                      /\ phase' = [phase EXCEPT ![j] = to]

Submit(j) == Moves(j, "new", "waiting") /\ UNCHANGED runs
Take(j)   == Moves(j, "waiting", "running") /\ runs' = [runs EXCEPT ![j] = @ + 1]
Done(j)   == Moves(j, "running", "done") /\ UNCHANGED runs
Retry(j)  == Moves(j, "running", "waiting") /\ runs[j] < Limit /\ UNCHANGED runs
GiveUp(j) == Moves(j, "running", "dead") /\ runs[j] >= Limit /\ UNCHANGED runs
Cancel(j) == Moves(j, "waiting", "cancelled") /\ UNCHANGED runs
Again(j)  == Moves(j, "dead", "waiting") /\ UNCHANGED runs

RQNext == \E j \in Work : \/ Submit(j) \/ Take(j) \/ Done(j) \/ Retry(j)
                          \/ GiveUp(j) \/ Cancel(j) \/ Again(j)
RQSpec == RQInit /\ [][RQNext]_<<phase, runs>>
=============================================================================
