--------------------------- MODULE ScanJobsProofs ---------------------------
(***************************************************************************)
(* The theorems about ScanJobs, for any number of jobs and threads and any *)
(* mix of failures.  The safety properties become inductive together once  *)
(* the invariant also says what each step of a thread knows of its record  *)
(* (WorkerOK), of what waits (WaitingOK) and of what a change of the       *)
(* process leaves alive (ServerOK).                                        *)
(***************************************************************************)
EXTENDS ScanJobs, QueueLemmas, TLAPS

(* What a thread at each step knows of the record it works on.             *)
Knows(w) ==
    LET j == worker[w].job
        at == worker[w].at
    IN  /\ at = "load" => scans[j] = "QUEUED"
        /\ at \in {"scan", "save"} => scans[j] = "RUNNING"
        /\ at = "audit" => scans[j] = "COMPLETED"
        /\ at = "except" => \/ scans[j] = "RUNNING"
                            \/ scans[j] = "COMPLETED" /\ "audit" \in Faults
        /\ at = "auditFailure" => scans[j] = "FAILED"
        /\ at \in {"audit", "except"} => \A result \in {"SUCCESS", "FAILURE"} :
                                             <<j, result>> \notin audit
WorkerOK == \A w \in Workers : Knows(w)

(* What waits to be run is QUEUED.                                          *)
WaitingOK == \A j \in Jobs : j \in submitting \/ Queued(j) => scans[j] = "QUEUED"

(* What each state of the process leaves alive, and what the sweep covers.  *)
ServerOK ==
    /\ server \in {"down", "starting"} => /\ submitting = {} /\ queue = << >>
                                          /\ \A w \in Workers : worker[w] = Idle
    /\ server = "stopping" => queue = << >>
    /\ unswept = IF server = "starting" THEN {j \in Jobs : scans[j] \in Open} ELSE {}

IInv == TypeOK /\ HeldOnce /\ WorkerOK /\ WaitingOK /\ ServerOK /\ NoLostJob /\ AuditAgrees

Invs == <<TypeOK, HeldOnce, WorkerOK, WaitingOK, ServerOK, NoLostJob, AuditAgrees>>

-----------------------------------------------------------------------------
(* Every value of every variable stays in its type. *)
LEMMA TypeStep == TypeOK /\ [Next]_vars => TypeOK'
<1> SUFFICES ASSUME TypeOK, [Next]_vars PROVE TypeOK'
  OBVIOUS
<1> USE ScanJobsAssumption DEF TypeOK, Open, Terminal, Steps, Idle
<1>1. CASE Start BY <1>1 DEF Start
<1>2. CASE Serve BY <1>2 DEF Serve
<1>3. CASE Crash BY <1>3 DEF Crash
<1>4. CASE Shutdown BY <1>4 DEF Shutdown
<1>5. CASE Exit BY <1>5 DEF Exit
<1>6. ASSUME NEW j \in Jobs, Sweep(j) PROVE TypeOK'
  BY <1>6 DEF Sweep
<1>7. ASSUME NEW j \in Jobs, SubmitSave(j) PROVE TypeOK'
  BY <1>7 DEF SubmitSave
<1>8. ASSUME NEW j \in Jobs, SubmitEnqueue(j) PROVE TypeOK'
  BY <1>8 DEF SubmitEnqueue
<1>9. ASSUME NEW w \in Workers, Take(w) PROVE TypeOK'
  <2>1. Head(queue) \in Jobs /\ Tail(queue) \in Seq(Jobs)
    BY <1>9, HeadTailProperties DEF Take
  <2> QED
    BY <1>9, <2>1 DEF Take, NoIO, InProcess
<1>10. ASSUME NEW w \in Workers, Run(w) PROVE TypeOK'
  <2> USE <1>10 DEF Run, MarkRunning, RunScan, SaveResult, AuditSuccess, SaveFailure,
                    AuditFailure, InProcess, NoIO, Goto, Finish, Save, Append_audit
  <2>1. scans' \in [Jobs -> {"ABSENT"} \union Open \union Terminal] OBVIOUS
  <2>2. worker' \in [Workers -> {Idle} \union [at : Steps, job : Jobs]]
    <3>1. worker[w] \in [at : Steps, job : Jobs] OBVIOUS
    <3>2. (\E step \in Steps : Goto(w, step)) \/ Finish(w) OBVIOUS
    <3> QED BY ONLY TypeOK, <3>1, <3>2 DEF TypeOK, Goto, Finish
  <2>3. audit' \subseteq Jobs \X {"SUCCESS", "FAILURE"} OBVIOUS
  <2>4. UNCHANGED <<server, starts, unswept, submitting, queue>> OBVIOUS
  <2> QED BY <2>1, <2>2, <2>3, <2>4
<1>11. CASE UNCHANGED vars BY <1>11 DEF vars
<1> QED
  BY <1>1, <1>2, <1>3, <1>4, <1>5, <1>6, <1>7, <1>8, <1>9, <1>10, <1>11 DEF Next

-----------------------------------------------------------------------------
(* A step of a thread moves that thread only and touches the record and the *)
(* audit lines of its own job only.                                         *)
LEMMA RunFrame ==
  ASSUME TypeOK, HeldOnce, NEW w \in Workers, Run(w), NEW job, job = worker[w].job
  PROVE  /\ job \in Jobs /\ worker[w].at \in Steps /\ worker[w] # Idle
         /\ worker'[w] = Idle \/ (worker'[w].job = job /\ worker'[w].at \in Steps)
         /\ \A v \in Workers \ {w} : worker'[v] = worker[v] /\ worker[v].job # job
         /\ UNCHANGED <<server, unswept, submitting, queue>>
         /\ \A j \in Jobs \ {job} : /\ scans'[j] = scans[j]
                                    /\ \A r : <<j, r>> \in audit' <=> <<j, r>> \in audit
<1> USE DEF TypeOK, Idle, Steps, Run, MarkRunning, RunScan, SaveResult, AuditSuccess,
            SaveFailure, AuditFailure, InProcess, NoIO, Goto, Finish, Save, Append_audit
<1>1. job \in Jobs /\ worker[w].at \in Steps /\ worker[w] # Idle
  BY ScanJobsAssumption
<1>2. (\E step \in Steps : Goto(w, step)) \/ Finish(w)
  BY ScanJobsAssumption
<1>3. /\ worker'[w] = Idle \/ (worker'[w].job = job /\ worker'[w].at \in Steps)
      /\ \A v \in Workers \ {w} : worker'[v] = worker[v]
  BY ONLY TypeOK, job = worker[w].job, <1>1, <1>2 DEF TypeOK, Goto, Finish
<1>4. \A v \in Workers \ {w} : worker[v].job # job
  BY ONLY HeldOnce, <1>1, job = worker[w].job DEF HeldOnce, Held
<1>5. UNCHANGED <<server, unswept, submitting, queue>>
  OBVIOUS
<1>6. \A j \in Jobs \ {job} : scans'[j] = scans[j]
  OBVIOUS
<1>7. UNCHANGED audit \/ \E r : audit' = audit \union {<<job, r>>}
  OBVIOUS
<1> QED
  BY <1>1, <1>3, <1>4, <1>5, <1>6, <1>7

(* What the frame alone preserves. *)
LEMMA RunKeeps ==
  ASSUME IInv, NEW w \in Workers, Run(w), NEW job, job = worker[w].job
  PROVE  HeldOnce' /\ WaitingOK' /\ ServerOK'
<1>1. job \in Jobs /\ worker[w] # Idle
  BY RunFrame DEF IInv
<1>2. worker'[w].job = job \/ worker'[w].job = NoJob
  BY RunFrame DEF IInv, Idle
<1>3. \A v \in Workers \ {w} : worker'[v] = worker[v] /\ worker[v].job # job
  BY RunFrame DEF IInv
<1>4. server' = server /\ unswept' = unswept /\ submitting' = submitting /\ queue' = queue
  BY RunFrame DEF IInv
<1>5. \A j \in Jobs \ {job} : scans'[j] = scans[j]
  BY RunFrame DEF IInv
<1>6. HeldOnce'
  <2> USE <1>1, <1>2, <1>3, <1>4, ScanJobsAssumption DEF IInv, HeldOnce, Held, Queued
  <2>1. IsInjective(queue)'
    OBVIOUS
  <2>2. ASSUME NEW j \in Jobs, NEW u \in Workers, NEW v \in Workers, Held(u, j)', Held(v, j)'
        PROVE  u = v
    BY <2>2
  <2>3. ASSUME NEW j \in Jobs, (j \in submitting \/ Queued(j))', NEW v \in Workers, Held(v, j)'
        PROVE  FALSE
    BY <2>3
  <2>4. ASSUME NEW j \in Jobs, (j \in submitting /\ Queued(j))'
        PROVE  FALSE
    BY <2>4
  <2> QED
    BY ONLY <2>1, <2>2, <2>3, <2>4 DEF HeldOnce
<1>7. WaitingOK'
  BY <1>1, <1>4, <1>5 DEF IInv, HeldOnce, Held, WaitingOK, Queued
<1>8. server \in {"up", "stopping"}
  BY <1>1 DEF IInv, ServerOK, TypeOK
<1>9. ServerOK'
  BY <1>4, <1>8 DEF IInv, ServerOK
<1> QED
  BY <1>6, <1>7, <1>9

(* Whatever the step does to its own job, it changes nothing for the others. *)
LEMMA RunOthers ==
  ASSUME IInv, NEW w \in Workers, Run(w), NEW job, job = worker[w].job
  PROVE  /\ \A v \in Workers \ {w} : Knows(v)'
         /\ \A j \in Jobs \ {job} : Audited(j)'
         /\ server = "up" /\ "save" \notin Faults => \A j \in Jobs \ {job} : Accounted(j)'
<1>1. /\ job \in Jobs
      /\ \A v \in Workers \ {w} : worker'[v] = worker[v] /\ worker[v].job # job
      /\ UNCHANGED <<submitting, queue>>
      /\ \A j \in Jobs \ {job} : /\ scans'[j] = scans[j]
                                 /\ \A r : <<j, r>> \in audit' <=> <<j, r>> \in audit
  BY RunFrame DEF IInv
<1>2. ASSUME NEW v \in Workers \ {w} PROVE Knows(v)'
  <2>1. worker[v] = Idle \/ worker[v].job \in Jobs \ {job}
    BY <1>1 DEF IInv, TypeOK
  <2> QED
    BY <1>1, <2>1 DEF IInv, WorkerOK, Knows, Idle
<1>3. ASSUME NEW j \in Jobs \ {job} PROVE Audited(j)'
  BY <1>1 DEF IInv, AuditAgrees, Audited
<1>4. ASSUME server = "up", "save" \notin Faults, NEW j \in Jobs \ {job} PROVE Accounted(j)'
  <2>1. \A v \in Workers : Held(v, j) => v # w
    BY DEF Held
  <2> QED
    BY <1>1, <1>4, <2>1 DEF IInv, NoLostJob, Accounted, AtStep, Held, Queued
<1> QED
  BY <1>2, <1>3, <1>4

(* Each step of a thread keeps what it knows of its record, the account of *)
(* its job and the agreement of its record with the audit log.             *)
LEMMA RunStep ==
  ASSUME IInv, NEW w \in Workers, Run(w), NEW job, job = worker[w].job
  PROVE  WorkerOK' /\ NoLostJob' /\ AuditAgrees'
<1>1. job \in Jobs /\ worker[w] \in [at : Steps, job : Jobs] /\ server' = server
  BY RunFrame DEF IInv, TypeOK
<1>2. Knows(w) /\ Audited(job)
  BY <1>1 DEF IInv, WorkerOK, AuditAgrees
<1>3. worker \in [Workers -> {Idle} \union [at : Steps, job : Jobs]]
      /\ scans \in [Jobs -> {"ABSENT"} \union Open \union Terminal]
  BY DEF IInv, TypeOK
<1>4. ASSUME Knows(w)', Audited(job)', "save" \notin Faults => Accounted(job)'
      PROVE  WorkerOK' /\ NoLostJob' /\ AuditAgrees'
  BY <1>1, <1>4, RunOthers DEF WorkerOK, NoLostJob, AuditAgrees
<1>5. CASE MarkRunning(w)
  <2> USE <1>5, <1>1, <1>2, <1>3 DEF MarkRunning, Save, Goto, Finish
  <2>1. Knows(w)' BY DEF Knows, Audited, Idle
  <2>2. "save" \notin Faults => Accounted(job)' BY DEF Knows, Accounted, AtStep, Held
  <2>3. Audited(job)' BY DEF Knows, Audited
  <2> QED BY ONLY <2>1, <2>2, <2>3, <1>4
<1>6. CASE RunScan(w)
  <2> USE <1>6, <1>1, <1>2, <1>3 DEF RunScan, Goto, NoIO
  <2>1. Knows(w)' BY DEF Knows, Audited, Idle
  <2>2. "save" \notin Faults => Accounted(job)' BY DEF Knows, Accounted, AtStep, Held
  <2>3. Audited(job)' BY DEF Knows, Audited
  <2> QED BY ONLY <2>1, <2>2, <2>3, <1>4
<1>7. CASE SaveResult(w)
  <2> USE <1>7, <1>1, <1>2, <1>3 DEF SaveResult, Save, Goto
  <2>1. Knows(w)' BY DEF Knows, Audited, Idle
  <2>2. "save" \notin Faults => Accounted(job)' BY DEF Knows, Accounted, AtStep, Held
  <2>3. Audited(job)' BY DEF Knows, Audited
  <2> QED BY ONLY <2>1, <2>2, <2>3, <1>4
<1>8. CASE AuditSuccess(w)
  <2> USE <1>8, <1>1, <1>2, <1>3 DEF AuditSuccess, Append_audit, Goto, Finish
  <2>1. Knows(w)' BY DEF Knows, Audited, Idle
  <2>2. "save" \notin Faults => Accounted(job)' BY DEF Knows, Accounted, AtStep, Held
  <2>3. Audited(job)' BY DEF Knows, Audited
  <2> QED BY ONLY <2>1, <2>2, <2>3, <1>4
<1>9. CASE SaveFailure(w)
  <2> USE <1>9, <1>1, <1>2, <1>3 DEF SaveFailure, Save, Goto, Finish
  <2>1. Knows(w)' BY DEF Knows, Audited, Idle
  <2>2. "save" \notin Faults => Accounted(job)' BY DEF Knows, Accounted, AtStep, Held
  <2>3. Audited(job)' BY DEF Knows, Audited
  <2> QED BY ONLY <2>1, <2>2, <2>3, <1>4
<1>10. CASE AuditFailure(w)
  <2> USE <1>10, <1>1, <1>2, <1>3 DEF AuditFailure, Append_audit, Finish
  <2>1. Knows(w)' BY DEF Knows, Audited, Idle
  <2>2. "save" \notin Faults => Accounted(job)' BY DEF Knows, Accounted, AtStep, Held
  <2>3. Audited(job)' BY DEF Knows, Audited
  <2> QED BY ONLY <2>1, <2>2, <2>3, <1>4
<1> QED
  BY <1>5, <1>6, <1>7, <1>8, <1>9, <1>10 DEF Run

(* The thread that takes the head of the queue is its only holder. *)
LEMMA TakeStep ==
  ASSUME IInv, TypeOK', NEW w \in Workers, Take(w)
  PROVE  IInv'
<1> DEFINE job == Head(queue)
<1>1. /\ job \in Jobs /\ Queued(job)
      /\ Range(queue') = Range(queue) \ {job} /\ IsInjective(queue')
  BY TakeHead DEF Take, IInv, TypeOK, HeldOnce, Queued
<1>2. /\ worker[w] = Idle /\ worker'[w] = [at |-> "load", job |-> job]
      /\ \A v \in Workers \ {w} : worker'[v] = worker[v]
      /\ UNCHANGED <<scans, audit, server, unswept, submitting>>
  BY DEF Take, NoIO, InProcess, IInv, TypeOK, Steps
<1>3. /\ scans[job] = "QUEUED" /\ job \notin submitting
      /\ \A v \in Workers : worker[v].job # job
  BY <1>1 DEF IInv, WaitingOK, HeldOnce, Held
<1> HIDE DEF job
<1>4. HeldOnce'
  <2>1. ASSUME NEW j \in Jobs, NEW u \in Workers, NEW v \in Workers, Held(u, j)', Held(v, j)'
        PROVE  u = v
    BY <1>1, <1>2, <1>3, <2>1 DEF IInv, HeldOnce, Held
  <2>2. ASSUME NEW j \in Jobs, (j \in submitting \/ Queued(j))', NEW v \in Workers, Held(v, j)'
        PROVE  FALSE
    BY <1>1, <1>2, <1>3, <2>2 DEF IInv, HeldOnce, Held, Queued
  <2>3. ASSUME NEW j \in Jobs, (j \in submitting /\ Queued(j))'
        PROVE  FALSE
    BY <1>1, <1>2, <2>3 DEF IInv, HeldOnce, Queued
  <2> QED
    BY <1>1, <2>1, <2>2, <2>3 DEF HeldOnce
<1>5. WorkerOK'
  BY <1>2, <1>3 DEF IInv, WorkerOK, Knows
<1>6. WaitingOK'
  BY <1>1, <1>2 DEF IInv, WaitingOK, Queued
<1>7. ServerOK'
  <2>1. server = "up"
    BY DEF Take, IInv, ServerOK, TypeOK
  <2> QED
    BY <1>2, <2>1 DEF IInv, ServerOK
<1>8. NoLostJob'
  <2>1. ASSUME NEW j \in Jobs, Accounted(j) PROVE Accounted(j)'
    BY <1>1, <1>2, <2>1 DEF Accounted, AtStep, Held, Queued, Idle
  <2> QED
    BY <1>2, <2>1 DEF IInv, NoLostJob
<1>9. AuditAgrees'
  BY <1>2 DEF IInv, AuditAgrees, Audited
<1> QED
  BY <1>4, <1>5, <1>6, <1>7, <1>8, <1>9 DEF IInv

(* A request thread saves a record nobody else has, then queues its job. *)
LEMMA SubmitStep ==
  ASSUME IInv, TypeOK', NEW job \in Jobs, SubmitSave(job) \/ SubmitEnqueue(job)
  PROVE  IInv'
<1>1. CASE SubmitSave(job)
  <2>1. /\ scans[job] = "ABSENT" /\ server = "up"
        /\ scans'[job] = "QUEUED" /\ \A j \in Jobs \ {job} : scans'[j] = scans[j]
        /\ submitting' = submitting \union {job}
        /\ UNCHANGED <<audit, server, unswept, queue, worker>>
    BY <1>1 DEF SubmitSave, IInv, TypeOK
  <2>2. job \notin submitting /\ ~Queued(job)
    BY <2>1 DEF IInv, WaitingOK
  <2>3. ASSUME NEW w \in Workers, worker[w].job = job PROVE FALSE
    <3>1. worker[w].at \in Steps
      BY <2>3, ScanJobsAssumption DEF IInv, TypeOK, Idle
    <3>2. Knows(w)
      BY DEF IInv, WorkerOK
    <3> QED
      BY <2>1, <2>3, <3>1, <3>2 DEF Knows, Steps
  <2>4. HeldOnce'
    BY <2>1, <2>2, <2>3 DEF IInv, HeldOnce, Held, Queued
  <2>5. WorkerOK'
    BY <2>1, <2>3 DEF IInv, TypeOK, WorkerOK, Knows, Idle, Steps
  <2>6. WaitingOK' /\ ServerOK' /\ AuditAgrees'
    BY <2>1, <2>2 DEF IInv, WaitingOK, ServerOK, AuditAgrees, Audited, Queued
  <2>7. NoLostJob'
    BY <2>1 DEF IInv, NoLostJob, Accounted, AtStep, Held, Queued
  <2> QED
    BY <2>4, <2>5, <2>6, <2>7 DEF IInv
<1>2. CASE SubmitEnqueue(job)
  <2>1. /\ job \in submitting /\ ~Queued(job) /\ submitting' = submitting \ {job}
        /\ \A w \in Workers : worker[w].job # job
        /\ UNCHANGED <<scans, audit, server, unswept, worker>>
    BY <1>2 DEF SubmitEnqueue, IInv, HeldOnce, Held
  <2>2. /\ IsInjective(queue')
        /\ Range(queue') = IF server = "up" THEN Range(queue) \union {job} ELSE Range(queue)
    <3>1. IsInjective(queue) /\ queue \in Seq(Jobs)
      BY DEF IInv, TypeOK, HeldOnce
    <3>2. queue' = IF server = "up" THEN Append(queue, job) ELSE queue
      BY <1>2 DEF SubmitEnqueue
    <3>3. CASE server = "up"
      BY <2>1, <3>1, <3>2, <3>3, AppendOne DEF Queued
    <3>4. CASE server # "up"
      BY <3>1, <3>2, <3>4
    <3> QED
      BY <3>3, <3>4
  <2>3. HeldOnce'
    BY <2>1, <2>2 DEF IInv, HeldOnce, Held, Queued
  <2>4. WorkerOK' /\ AuditAgrees'
    BY <2>1 DEF IInv, WorkerOK, Knows, AuditAgrees, Audited
  <2>5. WaitingOK'
    BY <2>1, <2>2 DEF IInv, WaitingOK, Queued
  <2>6. ServerOK'
    BY <1>2, <2>1 DEF SubmitEnqueue, IInv, ServerOK
  <2>7. NoLostJob'
    BY <2>1, <2>2 DEF IInv, NoLostJob, Accounted, AtStep, Held, Queued
  <2> QED
    BY <2>3, <2>4, <2>5, <2>6, <2>7 DEF IInv
<1> QED
  BY <1>1, <1>2

(* Starting, sweeping, serving, stopping and dying keep the invariant. *)
LEMMA ProcessStep ==
  ASSUME IInv, TypeOK', \/ Start \/ Serve \/ Crash \/ Shutdown \/ Exit
                        \/ \E j \in Jobs : Sweep(j)
  PROVE  IInv'
<1> USE ScanJobsAssumption DEF IInv, TypeOK
<1>1. ASSUME UNCHANGED <<scans, audit>>,
             \/ UNCHANGED worker
             \/ \A w \in Workers : worker'[w] = Idle
      PROVE  WorkerOK' /\ AuditAgrees'
  BY <1>1 DEF WorkerOK, Knows, AuditAgrees, Audited, Idle
<1>2. ASSUME UNCHANGED <<submitting, queue, worker>> PROVE HeldOnce'
  BY <1>2 DEF HeldOnce, Held, Queued
<1>3. ASSUME UNCHANGED <<scans, submitting, queue>> PROVE WaitingOK'
  BY <1>3 DEF WaitingOK, Queued
<1>4. CASE Start
  BY <1>1, <1>2, <1>3, <1>4 DEF Start, ServerOK, NoLostJob
<1>5. CASE Serve
  <2>1. WorkerOK' /\ AuditAgrees' /\ HeldOnce' /\ WaitingOK'
    BY <1>1, <1>2, <1>3, <1>5 DEF Serve
  <2>2. ServerOK' /\ NoLostJob'
    BY <1>5 DEF Serve, ServerOK, NoLostJob, Accounted, Open
  <2> QED
    BY <2>1, <2>2
<1>6. CASE Crash
  <2>1. WorkerOK' /\ AuditAgrees'
    BY <1>1, <1>6 DEF Crash
  <2>2. HeldOnce' /\ WaitingOK'
    BY <1>6, EmptyQueue DEF Crash, HeldOnce, Held, WaitingOK, Queued, Idle
  <2>3. ServerOK' /\ NoLostJob'
    BY <1>6 DEF Crash, ServerOK, NoLostJob
  <2> QED
    BY <2>1, <2>2, <2>3
<1>7. CASE Shutdown
  <2>1. WorkerOK' /\ AuditAgrees'
    BY <1>1, <1>7 DEF Shutdown
  <2>2. HeldOnce' /\ WaitingOK'
    BY <1>7, EmptyQueue DEF Shutdown, HeldOnce, Held, WaitingOK, Queued
  <2>3. ServerOK' /\ NoLostJob'
    BY <1>7 DEF Shutdown, ServerOK, NoLostJob
  <2> QED
    BY <2>1, <2>2, <2>3
<1>8. CASE Exit
  <2>1. WorkerOK' /\ AuditAgrees' /\ HeldOnce' /\ WaitingOK'
    BY <1>1, <1>2, <1>3, <1>8 DEF Exit
  <2>2. ServerOK' /\ NoLostJob'
    BY <1>8 DEF Exit, ServerOK, NoLostJob
  <2> QED
    BY <2>1, <2>2
<1>9. ASSUME NEW job \in Jobs, Sweep(job) PROVE IInv'
  <2>1. /\ scans[job] \in Open /\ scans'[job] = "FAILED"
        /\ \A j \in Jobs \ {job} : scans'[j] = scans[j]
        /\ server = "starting" /\ unswept' = unswept \ {job}
        /\ UNCHANGED <<audit, server, submitting, queue, worker>>
    BY <1>9 DEF Sweep, ServerOK
  <2>2. \A w \in Workers : worker[w] = Idle
    BY <2>1 DEF ServerOK
  <2>3. WorkerOK' /\ HeldOnce'
    BY <1>2, <2>1, <2>2 DEF WorkerOK, Knows, Idle
  <2>4. WaitingOK'
    BY <2>1, EmptyQueue DEF ServerOK, WaitingOK, Queued
  <2>5. AuditAgrees'
    BY <2>1 DEF AuditAgrees, Audited, Open
  <2>6. ServerOK'
    BY <2>1 DEF ServerOK, Open
  <2>7. NoLostJob'
    BY <2>1 DEF NoLostJob
  <2> QED
    BY <2>3, <2>4, <2>5, <2>6, <2>7
<1> QED
  BY <1>4, <1>5, <1>6, <1>7, <1>8, <1>9

-----------------------------------------------------------------------------
(* The invariant holds of every reachable state. *)
THEOREM Invariance == Spec => []IInv
<1>1. Init => IInv
  BY ScanJobsAssumption, EmptyQueue
     DEF Init, IInv, TypeOK, HeldOnce, WorkerOK, Knows, WaitingOK, ServerOK, NoLostJob,
         AuditAgrees, Audited, Held, Queued, Idle
<1>2. IInv /\ [Next]_vars => IInv'
  <2> SUFFICES ASSUME IInv, [Next]_vars PROVE IInv'
    OBVIOUS
  <2>1. TypeOK'
    BY TypeStep DEF IInv
  <2>2. ASSUME NEW w \in Workers, Run(w) PROVE IInv'
    BY <2>1, <2>2, RunKeeps, RunStep DEF IInv
  <2>3. CASE UNCHANGED vars
    BY <2>3 DEF vars, IInv, TypeOK, HeldOnce, WorkerOK, Knows, WaitingOK, ServerOK, NoLostJob,
                Accounted, AuditAgrees, Audited, AtStep, Held, Queued
  <2> QED
    BY <2>1, <2>2, <2>3, TakeStep, SubmitStep, ProcessStep DEF Next
<1> QED
  BY <1>1, <1>2, PTL DEF Spec

(* Every value of every variable has its type. *)
THEOREM TypeCorrect == Spec => []TypeOK
  BY Invariance, PTL DEF IInv

(* No job is ever in two places, so no scan is executed twice at once. *)
THEOREM ExecutedOnce == Spec => []HeldOnce
  BY Invariance, PTL DEF IInv

(* While saves work, an accepted job is never forgotten by a live server. *)
THEOREM NothingLost == Spec => []NoLostJob
  BY Invariance, PTL DEF IInv

(* The audit log never contradicts the record it is about. *)
THEOREM AuditCorrect == Spec => []AuditAgrees
  BY Invariance, PTL DEF IInv

(* When appending to the audit log does not raise, every record follows the *)
(* lifecycle the class documents; the finding is what happens when it does. *)
THEOREM LifecycleKept == ASSUME "audit" \notin Faults PROVE Spec => Lifecycle
<1>1. IInv /\ [Next]_vars => [LifecycleStep]_vars
  <2> SUFFICES ASSUME IInv, Next, NEW j \in Jobs
               PROVE  scans'[j] = scans[j] \/ <<scans[j], scans'[j]>> \in LifecycleEdges
    BY DEF LifecycleStep
  <2>1. ASSUME NEW w \in Workers, Run(w)
        PROVE  scans'[j] = scans[j] \/ <<scans[j], scans'[j]>> \in LifecycleEdges
    <3>1. Knows(w) /\ worker[w].job \in Jobs
      BY <2>1, RunFrame DEF IInv, WorkerOK
    <3> QED
      BY <2>1, <3>1, "audit" \notin Faults
         DEF IInv, TypeOK, Knows, Run, MarkRunning, RunScan, SaveResult, AuditSuccess,
             SaveFailure, AuditFailure, Save, NoIO, LifecycleEdges
  <2> QED
    BY <2>1 DEF Next, IInv, TypeOK, ServerOK, Start, Serve, Crash, Shutdown, Exit, Sweep,
                SubmitSave, SubmitEnqueue, Take, NoIO, LifecycleEdges, Open
<1> QED
  BY <1>1, Invariance, PTL DEF Spec, Lifecycle

-----------------------------------------------------------------------------
(* The manager keeps its promise.  What executes is told by the threads.    *)

LEMMA ExecutingTold ==
  ASSUME IInv, "audit" \notin Faults, NEW w \in Workers, NEW job \in Jobs, worker[w].job = job
  PROVE  job \in executing <=> worker[w].at \in {"scan", "save", "except"}
<1>1. Knows(w) /\ \A v \in Workers : worker[v].job = job => v = w
  BY DEF IInv, WorkerOK, HeldOnce, Held
<1> QED
  BY <1>1 DEF Knows, executing, AtStep, Held

(* A step of a thread changes what executes in its own job at most.         *)
LEMMA RunExecutes ==
  ASSUME IInv, IInv', "audit" \notin Faults, NEW w \in Workers, Run(w), NEW job \in Jobs, job = worker[w].job
  PROVE  /\ \A j \in Jobs \ {job} : j \in executing' <=> j \in executing
         /\ job \in executing' <=> /\ worker'[w].job = job
                                   /\ worker'[w].at \in {"scan", "save", "except"}
<1>1. /\ worker'[w] = Idle \/ worker'[w].job = job
      /\ \A v \in Workers \ {w} : worker'[v] = worker[v] /\ worker[v].job # job
      /\ \A j \in Jobs \ {job} : scans'[j] = scans[j]
  BY RunFrame DEF IInv
<1>2. ASSUME NEW j \in Jobs \ {job} PROVE j \in executing' <=> j \in executing
  <2>1. worker[w].job # j /\ worker'[w].job # j
    BY <1>1, ScanJobsAssumption DEF Idle
  <2>2. \A v \in Workers : (worker'[v].job = j <=> worker[v].job = j)
                           /\ (worker'[v].job = j => worker'[v].at = worker[v].at)
    BY <1>1, <2>1
  <2> QED
    BY <1>1, <2>2 DEF executing, AtStep, Held
<1>3. Knows(w)' /\ \A v \in Workers : worker'[v].job = job => v = w
  BY <1>1 DEF IInv, WorkerOK
<1>4. job \in executing' <=> worker'[w].job = job /\ worker'[w].at \in {"scan", "save", "except"}
  BY <1>3 DEF Knows, executing, AtStep, Held
<1> QED
  BY <1>2, <1>4

(* A thread that has yet to begin leaves room for what it will execute.     *)
LEMMA RoomToBegin ==
  ASSUME IInv, IsFiniteSet(Workers), NEW w \in Workers, worker[w].at = "load"
  PROVE  Cardinality(executing) < Cardinality(Workers)
<1> DEFINE thread == [j \in executing |-> CHOOSE v \in Workers : Held(v, j) /\ worker[v].at # "load"]
<1>1. \A j \in executing : \E v \in Workers : Held(v, j) /\ worker[v].at # "load"
  BY DEF executing, AtStep
<1>2. \A j \in executing : thread[j] \in Workers \ {w} /\ Held(thread[j], j)
  BY <1>1
<1>3. thread \in Injection(executing, Workers \ {w})
  BY <1>2 DEF Injection, IsInjective, Held
<1>4. IsFiniteSet(Workers \ {w}) /\ Cardinality(Workers \ {w}) = Cardinality(Workers) - 1
  BY FS_RemoveElement
<1> HIDE DEF thread
<1>5. IsFiniteSet(executing) /\ Cardinality(executing) <= Cardinality(Workers \ {w})
  BY <1>3, <1>4, FS_Injection
<1>6. Cardinality(executing) \in Nat /\ Cardinality(Workers) \in Nat
  BY <1>5, FS_CardinalityType
<1> QED
  BY <1>4, <1>5, <1>6

PromiseStep == [Promise!JLNext]_<<scans, executing>>

LEMMA RunPromised ==
  ASSUME IInv, IInv', "audit" \notin Faults, IsFiniteSet(Workers), NEW w \in Workers, Run(w)
  PROVE  PromiseStep
<1> DEFINE steps == {"scan", "save", "except"}
<1>j. PICK job \in Jobs : job = worker[w].job
  BY RunFrame DEF IInv
<1>1. /\ \A j \in Jobs \ {job} : j \in executing' <=> j \in executing
      /\ job \in executing' <=> worker'[w].job = job /\ worker'[w].at \in steps
      /\ job \in executing <=> worker[w].at \in steps
      /\ executing \subseteq Jobs /\ executing' \subseteq Jobs
  <2>1. executing \subseteq Jobs /\ executing' \subseteq Jobs
    BY DEF executing
  <2> QED
    BY <1>j, <2>1, RunExecutes, ExecutingTold
<1>2. /\ worker \in [Workers -> {Idle} \union [at : Steps, job : Jobs]]
      /\ scans \in [Jobs -> {"ABSENT"} \union Open \union Terminal]
      /\ worker[w] \in [at : Steps, job : Jobs] /\ Knows(w)
  BY RunFrame DEF IInv, TypeOK, WorkerOK
<1>3. CASE MarkRunning(w) /\ Save(w, "RUNNING") /\ Goto(w, "scan")
  <2>1. /\ scans[job] = "QUEUED" /\ scans' = [scans EXCEPT ![job] = "RUNNING"]
        /\ job \notin executing /\ job \in executing'
    BY <1>j, <1>1, <1>2, <1>3 DEF MarkRunning, Save, Goto, Knows
  <2>2. executing' = executing \union {job}
    BY <1>1, <2>1
  <2>3. Promise!Cardinality(executing) < Cardinality(Workers)
    <3>1. Cardinality(executing) < Cardinality(Workers)
      BY <1>3, RoomToBegin DEF MarkRunning
    <3>2. Promise!Cardinality(executing) = Cardinality(executing)
      BY DEF Promise!Cardinality, Cardinality
    <3> QED
      BY <3>1, <3>2
  <2> QED
    BY <2>1, <2>2, <2>3 DEF PromiseStep, Promise!JLNext, Promise!Begin, Promise!Become
<1>4. ASSUME NEW verdict \in {"COMPLETED", "FAILED"}, worker[w].at \in steps, Save(w, verdict),
             worker'[w].at \notin steps
      PROVE  PromiseStep
  <2>1. /\ scans[job] = "RUNNING" /\ scans' = [scans EXCEPT ![job] = verdict]
        /\ job \in executing /\ job \notin executing'
    BY <1>j, <1>1, <1>2, <1>4 DEF Save, Knows
  <2>2. executing' = executing \ {job}
    BY <1>1, <2>1
  <2> QED
    BY <2>1, <2>2 DEF PromiseStep, Promise!JLNext, Promise!Decide, Promise!Become
<1>5. ASSUME UNCHANGED scans PROVE PromiseStep
  <2>1. CASE executing' = executing
    BY <1>5, <2>1 DEF PromiseStep
  <2>2. CASE job \in executing /\ job \notin executing'
    <3>1. executing' = executing \ {job} /\ {job} \in SUBSET executing
      BY <1>1, <2>2
    <3> QED
      BY <1>5, <3>1 DEF PromiseStep, Promise!JLNext, Promise!Abandon
  <2>3. CASE job \notin executing /\ job \in executing'
    <3>1. scans[job] = "RUNNING" /\ worker'[w].at \in steps /\ worker[w].at \notin steps
      BY <1>1, <1>5, <2>3 DEF executing
    <3> QED
      BY <1>j, <1>2, <1>5, <3>1
         DEF Knows, Steps, Run, MarkRunning, RunScan, SaveResult, AuditSuccess, SaveFailure, AuditFailure,
             Goto, Finish, Idle, Save
  <2> QED
    BY <1>1, <2>1, <2>2, <2>3
<1>6. CASE MarkRunning(w) /\ UNCHANGED scans
  BY <1>5, <1>6
<1>7. CASE RunScan(w) \/ AuditSuccess(w) \/ AuditFailure(w)
  BY <1>5, <1>7 DEF RunScan, AuditSuccess, AuditFailure, NoIO
<1>8. CASE SaveResult(w)
  <2>1. CASE Save(w, "COMPLETED") /\ Goto(w, "audit")
    <3>1. worker[w].at \in steps /\ worker'[w].at \notin steps
      BY <1>2, <1>8, <2>1 DEF SaveResult, Goto
    <3> QED
      BY <1>4, <2>1, <3>1
  <2>2. CASE UNCHANGED scans
    BY <1>5, <2>2
  <2> QED
    BY <1>8, <2>1, <2>2 DEF SaveResult
<1>9. CASE SaveFailure(w)
  <2>1. CASE Save(w, "FAILED") /\ Goto(w, "auditFailure")
    <3>1. worker[w].at \in steps /\ worker'[w].at \notin steps
      BY <1>2, <1>9, <2>1 DEF SaveFailure, Goto
    <3> QED
      BY <1>4, <2>1, <3>1
  <2>2. CASE UNCHANGED scans
    BY <1>5, <2>2
  <2> QED
    BY <1>9, <2>1, <2>2 DEF SaveFailure
<1> QED
  BY <1>3, <1>6, <1>7, <1>8, <1>9 DEF Run, MarkRunning

(* When appending to the audit log does not raise, whatever else does and   *)
(* however often the process dies, the manager implements JobLifecycle.     *)
THEOREM PromiseKept ==
  ASSUME "audit" \notin Faults, IsFiniteSet(Workers)
  PROVE  Spec => KeepsPromise
<1>1. Init => Promise!JLInit
  BY DEF Init, Promise!JLInit, executing, AtStep, Held, Idle
<1>2. IInv /\ IInv' /\ [Next]_vars => [Promise!JLNext]_<<scans, executing>>
  <2> SUFFICES ASSUME IInv, IInv', [Next]_vars PROVE PromiseStep
    BY DEF PromiseStep
  <2>1. ASSUME NEW w \in Workers, Run(w) PROVE PromiseStep
    BY <2>1, RunPromised
  <2>2. ASSUME UNCHANGED <<scans, worker>> PROVE PromiseStep
    BY <2>2 DEF PromiseStep, executing, AtStep, Held
  <2>3. ASSUME NEW w \in Workers, Take(w) PROVE PromiseStep
    <3>1. /\ worker'[w].at = "load" /\ worker[w].at = "idle" /\ UNCHANGED scans
          /\ \A v \in Workers : v # w => worker'[v] = worker[v]
      BY <2>3 DEF Take, NoIO, IInv, TypeOK
    <3>2. executing' = executing
      BY <3>1 DEF executing, AtStep, Held
    <3> QED
      BY <3>1, <3>2 DEF PromiseStep
  <2>4. CASE Crash
    <3>1. executing' = {} /\ UNCHANGED scans
      BY <2>4 DEF Crash, executing, AtStep, Held, Idle
    <3>2. CASE executing = {}
      BY <3>1, <3>2 DEF PromiseStep
    <3>3. CASE executing # {}
      <4>1. executing' = executing \ executing /\ executing \in SUBSET executing
        BY <3>1
      <4> QED
        BY <3>1, <3>3, <4>1 DEF PromiseStep, Promise!JLNext, Promise!Abandon
    <3> QED
      BY <3>2, <3>3
  <2>5. ASSUME NEW j \in Jobs, SubmitSave(j) PROVE PromiseStep
    <3>1. scans[j] = "ABSENT" /\ scans' = [scans EXCEPT ![j] = "QUEUED"] /\ UNCHANGED worker
      BY <2>5 DEF SubmitSave
    <3>2. executing' = executing
      BY <3>1 DEF executing, AtStep, Held, IInv, TypeOK
    <3> QED
      BY <3>1, <3>2 DEF PromiseStep, Promise!JLNext, Promise!Accept, Promise!Become
  <2>6. ASSUME NEW j \in Jobs, Sweep(j) PROVE PromiseStep
    <3>1. /\ scans[j] \in {"QUEUED", "RUNNING"} /\ scans' = [scans EXCEPT ![j] = "FAILED"]
          /\ \A w \in Workers : worker[w] = Idle /\ worker'[w] = Idle
      BY <2>6 DEF Sweep, IInv, TypeOK, ServerOK, Open
    <3>2. executing = {} /\ executing' = {}
      BY <3>1 DEF executing, AtStep, Held, Idle
    <3> QED
      BY <3>1, <3>2 DEF PromiseStep, Promise!JLNext, Promise!Interrupt, Promise!Become
  <2> QED
    BY <2>1, <2>2, <2>3, <2>4, <2>5, <2>6
       DEF Next, Start, Serve, Shutdown, Exit, SubmitEnqueue, vars
<1> QED
  BY <1>1, <1>2, Invariance, PTL DEF Spec, KeepsPromise, Promise!JLSpec, Promise!jlVars
=============================================================================
