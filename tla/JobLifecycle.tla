---------------------------- MODULE JobLifecycle ----------------------------
(***************************************************************************)
(* What ScanJobManager promises its clients, whatever its threads, its     *)
(* store and its process do: an accepted scan is executed at most once, by *)
(* at most Capacity scans at a time, is decided once, and is failed from   *)
(* outside only when nothing executes it any more.                         *)
(***************************************************************************)
EXTENDS Naturals, FiniteSets

CONSTANTS Jobs, Capacity

VARIABLES status,   \* each scan as its client sees it
          running   \* the scans some thread executes now

jlVars == <<status, running>>

JLInit == status = [j \in Jobs |-> "ABSENT"] /\ running = {}

Become(j, from, to) == /\ status[j] = from
                       /\ status' = [status EXCEPT ![j] = to]

Accept(j) == Become(j, "ABSENT", "QUEUED") /\ UNCHANGED running

Begin(j) == /\ Become(j, "QUEUED", "RUNNING")
            /\ Cardinality(running) < Capacity
            /\ running' = running \union {j}

Decide(j) == /\ j \in running
             /\ \E verdict \in {"COMPLETED", "FAILED"} : Become(j, "RUNNING", verdict)
             /\ running' = running \ {j}

(* The executing threads may stop without a verdict: their process died, or *)
(* they could not save one.                                                 *)
Abandon(S) == /\ S # {} /\ S \subseteq running
              /\ running' = running \ S
              /\ UNCHANGED status

Interrupt(j) == /\ j \notin running
                /\ \E from \in {"QUEUED", "RUNNING"} : Become(j, from, "FAILED")
                /\ UNCHANGED running

JLNext == \/ \E j \in Jobs : Accept(j) \/ Begin(j) \/ Decide(j) \/ Interrupt(j)
          \/ \E S \in SUBSET running : Abandon(S)

JLSpec == JLInit /\ [][JLNext]_jlVars
=============================================================================
