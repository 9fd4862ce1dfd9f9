----------------------------- MODULE Workspaces -----------------------------
(***************************************************************************)
(* The working copies of remote scans.  One ScanOrchestrator, and in it    *)
(* one RepositoryManager (infrastructure/repository/repository_manager.py),*)
(* serves every scan of the process: acquire_target clones a repository    *)
(* into a temporary directory and registers it in the manager's lists,     *)
(* run_scan reads it, and the finally of run_scan calls cleanup, which     *)
(* walks and clears those lists.  The lists are shared and unlocked.       *)
(*                                                                         *)
(* A scan owns at most one directory and one askpass helper, so both are   *)
(* named by the scan.  The git commands, time and the files' content are   *)
(* abstracted to their outcomes.                                           *)
(***************************************************************************)
EXTENDS Naturals, Sequences, FiniteSets

CONSTANTS Scans,
          MaxConcurrent,  \* max_concurrent_scans, the threads of the pool
          HasToken        \* a GitHub token is configured: askpass helpers are written

ASSUME WorkspacesAssumption ==
    /\ IsFiniteSet(Scans)
    /\ MaxConcurrent \in Nat \ {0}
    /\ HasToken \in BOOLEAN

VARIABLES pc,       \* where each scan is
          content,  \* its directory: none, empty, full, hollow (rmtree at work), or a local path
          helper,   \* its askpass helper: none, script, or what remains without the script
          temp,     \* the shared lists temp_dirs and temp_files
          cursor,   \* a scan in cleanup: the list it walks and its index in it
          saw,      \* every pass so far saw the whole tree
          outcome   \* what run_scan did: none yet, completed or failed

vars == <<pc, content, helper, temp, cursor, saw, outcome>>

Lists     == {"dirs", "files"}
FirstItem == [list |-> "dirs", at |-> 1]
Acquiring == {"mkdir", "askpass", "clone", "cloning", "sshing", "checkout"}
Reading   == {"read", "graph"}
Cleaning  == {"abort", "finally"}
Active    == {s \in Scans : pc[s] \in Acquiring \union Reading \union Cleaning}

Init == /\ pc = [s \in Scans |-> "waiting"]
        /\ content = [s \in Scans |-> "none"]
        /\ helper = [s \in Scans |-> "none"]
        /\ temp = [l \in Lists |-> << >>]
        /\ cursor = [s \in Scans |-> FirstItem]
        /\ saw = [s \in Scans |-> TRUE]
        /\ outcome = [s \in Scans |-> "none"]

Goto(s, where) == pc' = [pc EXCEPT ![s] = where]
Content(s, what) == content' = [content EXCEPT ![s] = what]
Register(list, s) == temp' = [temp EXCEPT ![list] = Append(@, s)]

-----------------------------------------------------------------------------
(* acquire_target.                                                          *)

Begin(s) == /\ pc[s] = "waiting" /\ Cardinality(Active) < MaxConcurrent
            /\ \/ Goto(s, "mkdir") /\ UNCHANGED content
               \/ Goto(s, "read") /\ Content(s, "local")
            /\ UNCHANGED <<helper, temp, cursor, saw, outcome>>

(* Mutant: the directory is not registered.                                 *)
MakeUnregistered(s) == /\ pc[s] = "mkdir"
                       /\ Content(s, "empty")
                       /\ Goto(s, IF HasToken THEN "askpass" ELSE "clone")
                       /\ UNCHANGED <<helper, temp, cursor, saw, outcome>>

MakeDirectory(s) == /\ pc[s] = "mkdir"
                    /\ Content(s, "empty")
                    /\ Register("dirs", s)
                    /\ Goto(s, IF HasToken THEN "askpass" ELSE "clone")
                    /\ UNCHANGED <<helper, cursor, saw, outcome>>

WriteAskpass(s) == /\ pc[s] = "askpass"
                   /\ helper' = [helper EXCEPT ![s] = "script"]
                   /\ Register("files", s)
                   /\ Goto(s, "clone")
                   /\ UNCHANGED <<content, cursor, saw, outcome>>

(* An invalid branch is refused before git runs; git makes the directory    *)
(* when it is missing.                                                      *)
StartClone(s) == /\ pc[s] = "clone"
                 /\ \/ Goto(s, "finally") /\ outcome' = [outcome EXCEPT ![s] = "failed"]
                       /\ UNCHANGED content
                    \/ Goto(s, "cloning") /\ Content(s, "empty") /\ UNCHANGED outcome
                 /\ UNCHANGED <<helper, temp, cursor, saw>>

(* git succeeds only in a directory nobody removed meanwhile.               *)
GitSucceeds(s) == content[s] = "empty" /\ Content(s, "full") /\ Goto(s, "checkout")

(* Mutants: the return code of git is not looked at.                        *)
EndCloneUnchecked(s) == /\ pc[s] = "cloning"
                        /\ Content(s, "full") \/ UNCHANGED content
                        /\ Goto(s, "checkout")
                        /\ UNCHANGED <<helper, temp, cursor, saw, outcome>>

EndSshCloneUnchecked(s) == /\ pc[s] = "sshing"
                           /\ Content(s, "full") \/ UNCHANGED content
                           /\ Goto(s, "checkout")
                           /\ UNCHANGED <<helper, temp, cursor, saw, outcome>>

(* The watchdog raises, or git fails: then the clone is tried again over    *)
(* SSH in a directory made anew, once.                                      *)
EndClone(s) == /\ pc[s] = "cloning"
               /\ \/ GitSucceeds(s)
                  \/ Content(s, "empty") /\ Goto(s, "sshing")
                  \/ Goto(s, "abort") /\ UNCHANGED content
               /\ UNCHANGED <<helper, temp, cursor, saw, outcome>>

EndSshClone(s) == /\ pc[s] = "sshing"
                  /\ \/ GitSucceeds(s)
                     \/ Goto(s, "abort") /\ UNCHANGED content
                  /\ UNCHANGED <<helper, temp, cursor, saw, outcome>>

(* Fetch and checkout of a commit run in the clone, when one is asked for;  *)
(* an invalid commit is refused before, outside the try.                    *)
Checkout(s) == /\ pc[s] = "checkout"
               /\ \/ Goto(s, "read") /\ UNCHANGED outcome
                  \/ Goto(s, "abort") /\ UNCHANGED outcome
                  \/ Goto(s, "finally") /\ outcome' = [outcome EXCEPT ![s] = "failed"]
               /\ UNCHANGED <<content, helper, temp, cursor, saw>>

-----------------------------------------------------------------------------
(* run_scan: the detectors find nothing in a tree that is not there; the    *)
(* knowledge graph, the last to read it, refuses a path that does not exist. *)

WholeTree(s) == content[s] \in {"full", "local"}

Read(s) == /\ pc[s] = "read"
           /\ saw' = [saw EXCEPT ![s] = WholeTree(s)]
           /\ Goto(s, "graph")
           /\ UNCHANGED <<content, helper, temp, cursor, outcome>>

Graph(s) == /\ pc[s] = "graph"
            /\ saw' = [saw EXCEPT ![s] = @ /\ WholeTree(s)]
            /\ outcome' = [outcome EXCEPT ![s] = IF content[s] = "none" THEN "failed" ELSE "completed"]
            /\ Goto(s, "finally")
            /\ UNCHANGED <<content, helper, temp, cursor>>

-----------------------------------------------------------------------------
(* cleanup, in the finally of run_scan and on the failures of a clone.      *)

Current(s) == temp[cursor[s].list][cursor[s].at]
HasCurrent(s) == cursor[s].at <= Len(temp[cursor[s].list])
Advance(s) == cursor' = [cursor EXCEPT ![s].at = @ + 1]

(* rmtree takes the files first, the directory last.                        *)
RemoveDirectory(s) ==
    /\ pc[s] \in Cleaning /\ cursor[s].list = "dirs" /\ HasCurrent(s)
    /\ LET t == Current(s)
       IN  IF content[t] = "full" THEN Content(t, "hollow") /\ UNCHANGED cursor
                                  ELSE Content(t, "none") /\ Advance(s)
    /\ UNCHANGED <<pc, helper, temp, saw, outcome>>

(* The script goes; the directory made for it stays.                        *)
RemoveAskpass(s) ==
    /\ pc[s] \in Cleaning /\ cursor[s].list = "files" /\ HasCurrent(s)
    /\ helper' = [helper EXCEPT ![Current(s)] = "directory"]
    /\ Advance(s)
    /\ UNCHANGED <<pc, content, temp, saw, outcome>>

(* Mutant: the second loop starts one too early.                            *)
ClearListEarly(s) ==
    /\ pc[s] \in Cleaning /\ ~HasCurrent(s) /\ cursor[s].list = "dirs"
    /\ temp' = [temp EXCEPT !["dirs"] = << >>]
    /\ cursor' = [cursor EXCEPT ![s] = [list |-> "files", at |-> 0]]
    /\ UNCHANGED <<pc, content, helper, saw, outcome>>

(* A loop over a list ends when the index passes what is there now; then    *)
(* the list is cleared, whatever was appended since.                        *)
ClearList(s) ==
    /\ pc[s] \in Cleaning /\ ~HasCurrent(s)
    /\ temp' = [temp EXCEPT ![cursor[s].list] = << >>]
    /\ IF cursor[s].list = "dirs"
       THEN /\ cursor' = [cursor EXCEPT ![s] = [list |-> "files", at |-> 1]]
            /\ UNCHANGED <<pc, outcome>>
       ELSE /\ cursor' = [cursor EXCEPT ![s] = FirstItem]
            /\ Goto(s, IF pc[s] = "abort" THEN "finally" ELSE "done")
            /\ outcome' = IF pc[s] = "abort" THEN [outcome EXCEPT ![s] = "failed"] ELSE outcome
    /\ UNCHANGED <<content, helper, saw>>

-----------------------------------------------------------------------------
Acquire(s) == \/ MakeDirectory(s) \/ WriteAskpass(s) \/ StartClone(s) \/ EndClone(s)
              \/ EndSshClone(s) \/ Checkout(s)
Cleanup(s) == RemoveDirectory(s) \/ RemoveAskpass(s) \/ ClearList(s)
Step(s)    == Acquire(s) \/ Read(s) \/ Graph(s) \/ Cleanup(s)

Next == \E s \in Scans : Begin(s) \/ Step(s)

Spec == Init /\ [][Next]_vars

(* Threads that can step do: git is bounded by its watchdog.                *)
FairSpec == Spec /\ \A s \in Scans : WF_vars(Step(s))

-----------------------------------------------------------------------------
TypeOK == /\ pc \in [Scans -> {"waiting", "done"} \union Acquiring \union Reading \union Cleaning]
          /\ content \in [Scans -> {"none", "empty", "full", "hollow", "local"}]
          /\ helper \in [Scans -> {"none", "script", "directory"}]
          /\ temp \in [Lists -> Seq(Scans)]
          /\ cursor \in [Scans -> [list : Lists, at : Nat \ {0}]]
          /\ saw \in [Scans -> BOOLEAN]
          /\ outcome \in [Scans -> {"none", "completed", "failed"}]

(* No scan loses its tree while it reads it: the clone is the scan's own.   *)
Isolated == \A s \in Scans : pc[s] \in Reading \union {"checkout"} => WholeTree(s)

(* A scan that completes has read the whole tree: an incomplete scan is     *)
(* never reported as a clean one.                                           *)
NoSilentLoss == \A s \in Scans : outcome[s] = "completed" => saw[s]

(* Once no scan runs, no clone and no askpass script is left behind.        *)
Tidy == Active = {} =>
            \A s \in Scans : content[s] \in {"none", "local"} /\ helper[s] # "script"

(* Every scan that begins ends, however the others walk and clear the lists. *)
EveryScanEnds == \A s \in Scans : pc[s] # "waiting" ~> pc[s] = "done"
=============================================================================
