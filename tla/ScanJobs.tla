------------------------------ MODULE ScanJobs ------------------------------
(***************************************************************************)
(* Background execution of the scans a client submits over the REST API:   *)
(* ScanJobManager (application/api/scan_jobs.py), the part of              *)
(* SecurityApplicationService.execute_scan that persists a scan, and the   *)
(* records and audit lines of the ScanResultStore they share.              *)
(*                                                                         *)
(* One process serves the API: request threads run submit, pool threads    *)
(* run _run, and each call on the store is a step of its own, because the  *)
(* store's lock covers one call only.  The process may stop at any step;   *)
(* what the store holds survives.  A record is abstracted to its status.   *)
(***************************************************************************)
EXTENDS Naturals, Sequences, FiniteSets, Functions

CONSTANTS Jobs,      \* scan ids, a fresh one for each submission
          Workers,   \* the threads of the pool: max_workers of them
          NoJob,     \* the job of an idle thread
          Faults,    \* what may raise: the "scan", a "save", an "audit" append
          MaxStarts  \* bound: how often the server process starts

ASSUME ScanJobsAssumption ==
    /\ NoJob \notin Jobs
    /\ Faults \subseteq {"scan", "save", "audit"}
    /\ MaxStarts \in Nat

VARIABLES scans,       \* on disk: the status of each job's record
          audit,       \* on disk: the SCAN_EXECUTED lines, as <<job, result>>
          server,      \* the process: "down", "starting", "up" or "stopping"
          starts,      \* how often it has started
          unswept,     \* the interrupted records _fail_interrupted_jobs has yet to write
          submitting,  \* jobs saved by submit, not yet handed to the executor
          queue,       \* the executor's work queue
          worker       \* what each pool thread is doing, and for which job

vars == <<scans, audit, server, starts, unswept, submitting, queue, worker>>

Terminal == {"COMPLETED", "FAILED"}
Open     == {"QUEUED", "RUNNING"}
Steps    == {"load", "scan", "save", "audit", "except", "auditFailure"}
Idle     == [at |-> "idle", job |-> NoJob]

Init == /\ scans = [j \in Jobs |-> "ABSENT"]
        /\ audit = {}
        /\ server = "down"
        /\ starts = 0
        /\ unswept = {}
        /\ submitting = {}
        /\ queue = << >>
        /\ worker = [w \in Workers |-> Idle]

-----------------------------------------------------------------------------
(* Start of the process: __init__ fails what the previous process left.     *)

(* Mutant: the sweep forgets the records still QUEUED.                      *)
StartForgetsQueued == /\ server = "down" /\ starts < MaxStarts
                      /\ server' = "starting"
                      /\ starts' = starts + 1
                      /\ unswept' = {j \in Jobs : scans[j] = "RUNNING"}
                      /\ UNCHANGED <<scans, audit, submitting, queue, worker>>

(* Mutant: the sweep does not look at the status.                           *)
StartSweepsAll == /\ server = "down" /\ starts < MaxStarts
                  /\ server' = "starting"
                  /\ starts' = starts + 1
                  /\ unswept' = {j \in Jobs : scans[j] # "ABSENT"}
                  /\ UNCHANGED <<scans, audit, submitting, queue, worker>>

Start == /\ server = "down" /\ starts < MaxStarts
         /\ server' = "starting"
         /\ starts' = starts + 1
         /\ unswept' = {j \in Jobs : scans[j] \in Open}
         /\ UNCHANGED <<scans, audit, submitting, queue, worker>>

Sweep(j) == /\ server = "starting" /\ j \in unswept
            /\ scans' = [scans EXCEPT ![j] = "FAILED"]
            /\ unswept' = unswept \ {j}
            /\ UNCHANGED <<audit, server, starts, submitting, queue, worker>>

Serve == /\ server = "starting" /\ unswept = {}
         /\ server' = "up"
         /\ UNCHANGED <<scans, audit, starts, unswept, submitting, queue, worker>>

(* A save that raises in the sweep ends the start, as any crash ends the    *)
(* process: threads, queue and request in flight are gone, the disk stays.  *)
Crash == /\ server # "down"
         /\ server' = "down"
         /\ unswept' = {} /\ submitting' = {} /\ queue' = << >>
         /\ worker' = [w \in Workers |-> Idle]
         /\ UNCHANGED <<scans, audit, starts>>

(* shutdown(wait=False, cancel_futures=True): queued futures are dropped,   *)
(* running ones go on, and the interpreter waits for them before it exits.  *)
Shutdown == /\ server = "up"
            /\ server' = "stopping"
            /\ queue' = << >>
            /\ UNCHANGED <<scans, audit, starts, unswept, submitting, worker>>

Exit == /\ server = "stopping" /\ submitting = {}
        /\ \A w \in Workers : worker[w] = Idle
        /\ server' = "down"
        /\ UNCHANGED <<scans, audit, starts, unswept, submitting, queue, worker>>

-----------------------------------------------------------------------------
(* submit: the record first, then the future.                               *)

SubmitSave(j) == /\ server = "up" /\ scans[j] = "ABSENT"
                 /\ scans' = [scans EXCEPT ![j] = "QUEUED"]
                 /\ submitting' = submitting \union {j}
                 /\ UNCHANGED <<audit, server, starts, unswept, queue, worker>>

(* Mutant: the future is submitted again.                                   *)
SubmitEnqueueTwice(j) == /\ j \in submitting
                         /\ queue' = IF server = "up" THEN Append(queue, j) ELSE queue
                         /\ UNCHANGED <<scans, audit, server, starts, unswept, submitting, worker>>

(* An executor that was shut down refuses the future: submit raises.        *)
SubmitEnqueue(j) == /\ j \in submitting
                    /\ submitting' = submitting \ {j}
                    /\ queue' = IF server = "up" THEN Append(queue, j) ELSE queue
                    /\ UNCHANGED <<scans, audit, server, starts, unswept, worker>>

-----------------------------------------------------------------------------
(* A pool thread: _run, with execute_scan inlined.                          *)

Goto(w, step) == worker' = [worker EXCEPT ![w].at = step]
Finish(w)     == worker' = [worker EXCEPT ![w] = Idle]
Save(w, status) == scans' = [scans EXCEPT ![worker[w].job] = status]
(* Mutant: the line carries the status of the record. *)
Append_status(w, result) == audit' = audit \union {<<worker[w].job, scans[worker[w].job]>>}
Append_audit(w, result) == audit' = audit \union {<<worker[w].job, result>>}

InProcess == UNCHANGED <<server, starts, unswept, submitting>>
NoIO      == UNCHANGED <<scans, audit>>

Take(w) == /\ worker[w].at = "idle" /\ queue # << >>
           /\ worker' = [worker EXCEPT ![w] = [at |-> "load", job |-> Head(queue)]]
           /\ queue' = Tail(queue)
           /\ NoIO /\ InProcess

(* The save of RUNNING is outside the try: if it raises the thread is done. *)
MarkRunning(w) == /\ worker[w].at = "load"
                  /\ \/ Save(w, "RUNNING") /\ Goto(w, "scan")
                     \/ "save" \in Faults /\ UNCHANGED scans /\ Finish(w)
                  /\ UNCHANGED <<audit, queue>> /\ InProcess

(* Mutant: the exception of the scan is not caught.                         *)
RunScanUncaught(w) == /\ worker[w].at = "scan"
                      /\ \/ Goto(w, "save")
                         \/ "scan" \in Faults /\ Finish(w)
                      /\ UNCHANGED queue /\ NoIO /\ InProcess

RunScan(w) == /\ worker[w].at = "scan"
              /\ \/ Goto(w, "save")
                 \/ "scan" \in Faults /\ Goto(w, "except")
              /\ UNCHANGED queue /\ NoIO /\ InProcess

(* Mutant: a failed save of the result is ignored.                          *)
SaveResultUnchecked(w) == /\ worker[w].at = "save"
                          /\ \/ Save(w, "COMPLETED")
                             \/ "save" \in Faults /\ UNCHANGED scans
                          /\ Goto(w, "audit")
                          /\ UNCHANGED <<audit, queue>> /\ InProcess

SaveResult(w) == /\ worker[w].at = "save"
                 /\ \/ Save(w, "COMPLETED") /\ Goto(w, "audit")
                    \/ "save" \in Faults /\ UNCHANGED scans /\ Goto(w, "except")
                 /\ UNCHANGED <<audit, queue>> /\ InProcess

AuditSuccess(w) == /\ worker[w].at = "audit"
                   /\ \/ Append_audit(w, "SUCCESS") /\ Finish(w)
                      \/ "audit" \in Faults /\ UNCHANGED audit /\ Goto(w, "except")
                   /\ UNCHANGED <<scans, queue>> /\ InProcess

(* The handler saves the copy of the record it made before the scan.        *)
SaveFailure(w) == /\ worker[w].at = "except"
                  /\ \/ Save(w, "FAILED") /\ Goto(w, "auditFailure")
                     \/ "save" \in Faults /\ UNCHANGED scans /\ Finish(w)
                  /\ UNCHANGED <<audit, queue>> /\ InProcess

AuditFailure(w) == /\ worker[w].at = "auditFailure"
                   /\ \/ Append_audit(w, "FAILURE")
                      \/ "audit" \in Faults /\ UNCHANGED audit
                   /\ Finish(w)
                   /\ UNCHANGED <<scans, queue>> /\ InProcess

Run(w) == \/ MarkRunning(w) \/ RunScan(w) \/ SaveResult(w) \/ AuditSuccess(w)
          \/ SaveFailure(w) \/ AuditFailure(w)

-----------------------------------------------------------------------------
Next == \/ Start \/ Serve \/ Crash \/ Shutdown \/ Exit
        \/ \E j \in Jobs : Sweep(j) \/ SubmitSave(j) \/ SubmitEnqueue(j)
        \/ \E w \in Workers : Take(w) \/ Run(w)

Spec == Init /\ [][Next]_vars

(* Threads that can step do; nothing makes the process start, stop or crash *)
(* and no client has to submit.                                             *)
Fairness == /\ \A j \in Jobs : WF_vars(Sweep(j)) /\ WF_vars(SubmitEnqueue(j))
            /\ \A w \in Workers : WF_vars(Take(w) \/ Run(w))
            /\ WF_vars(Serve) /\ WF_vars(Exit)

FairSpec == Spec /\ Fairness

-----------------------------------------------------------------------------
TypeOK == /\ scans \in [Jobs -> {"ABSENT"} \union Open \union Terminal]
          /\ audit \subseteq Jobs \X {"SUCCESS", "FAILURE"}
          /\ server \in {"down", "starting", "up", "stopping"}
          /\ starts \in 0..MaxStarts
          /\ unswept \subseteq Jobs
          /\ submitting \subseteq Jobs
          /\ queue \in Seq(Jobs)
          /\ worker \in [Workers -> {Idle} \union [at : Steps, job : Jobs]]

Queued(j)  == j \in Range(queue)
Held(w, j) == worker[w].job = j
AtStep(j, steps) == \E w \in Workers : Held(w, j) /\ worker[w].at \in steps

(* A job is in one place at most: with its request thread, at one position  *)
(* of the queue, or with one pool thread.  So no scan is executed twice at  *)
(* once and no two threads write the same record.                           *)
HeldOnce ==
    /\ IsInjective(queue)
    /\ \A j \in Jobs :
        /\ \A v, w \in Workers : Held(v, j) /\ Held(w, j) => v = w
        /\ j \in submitting \/ Queued(j) => \A w \in Workers : ~Held(w, j)
        /\ ~(j \in submitting /\ Queued(j))

(* While the server is up and its saves work, no accepted job is forgotten: *)
(* a QUEUED record has a thread or a future that will run it, a RUNNING one *)
(* has the thread that is running it.                                       *)
Accounted(j) ==
    /\ scans[j] = "QUEUED" => j \in submitting \/ Queued(j) \/ AtStep(j, {"load"})
    /\ scans[j] = "RUNNING" => AtStep(j, {"scan", "save", "except"})
NoLostJob == server = "up" /\ "save" \notin Faults => \A j \in Jobs : Accounted(j)

(* The audit log and the records agree: a SUCCESS line is about a COMPLETED *)
(* record and a FAILURE line about a FAILED one, whichever step raises.     *)
Audited(j) == /\ <<j, "SUCCESS">> \in audit => scans[j] = "COMPLETED"
              /\ <<j, "FAILURE">> \in audit => scans[j] = "FAILED"
AuditAgrees == \A j \in Jobs : Audited(j)

(* A record moves only as the class says, QUEUED to RUNNING to COMPLETED or *)
(* FAILED, with the sweep's QUEUED to FAILED: a finished scan stays as it   *)
(* finished.                                                                *)
LifecycleEdges == {<<"ABSENT", "QUEUED">>, <<"QUEUED", "RUNNING">>, <<"QUEUED", "FAILED">>,
                   <<"RUNNING", "COMPLETED">>, <<"RUNNING", "FAILED">>}
LifecycleStep == \A j \in Jobs : scans'[j] = scans[j] \/ <<scans[j], scans'[j]>> \in LifecycleEdges
Lifecycle == [][LifecycleStep]_vars

(* An accepted job is eventually decided, unless the process is told to     *)
(* stop or dies first.                                                      *)
EveryJobDecided == \A j \in Jobs : scans[j] \in Open ~> scans[j] \in Terminal \/ server # "up"

(* The manager implements the promise of JobLifecycle.                      *)
executing == {j \in Jobs : scans[j] = "RUNNING" /\ AtStep(j, {"scan", "save", "except"})}
Promise == INSTANCE JobLifecycle WITH Capacity <- Cardinality(Workers),
                                      status <- scans, running <- executing
KeepsPromise == Promise!JLSpec
=============================================================================
