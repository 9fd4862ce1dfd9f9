------------------------------ MODULE ScanStore ------------------------------
(***************************************************************************)
(* The records of ScanResultStore (infrastructure/storage/scan_store.py):   *)
(* one JSON file each, written to a temporary file that then replaces it,   *)
(* under a lock that only the threads of one process share.  The API server *)
(* and the command line are processes of their own on the same directory.   *)
(*                                                                         *)
(* Saves are numbered; a file holds the number of the save that wrote it.   *)
(***************************************************************************)
EXTENDS Naturals, FiniteSets

CONSTANTS Processes, Threads, NoThread,
          ProcessOf,   \* the process of each thread
          Ids,         \* record ids
          MaxSaves,    \* bound: saves begun
          MaxCrashes   \* bound: how often a process stops

ASSUME ScanStoreAssumption ==
    /\ NoThread \notin Threads
    /\ ProcessOf \in [Threads -> Processes]
    /\ IsFiniteSet(Threads)
    /\ MaxSaves \in Nat /\ MaxCrashes \in Nat

VARIABLES files,    \* <record id>.json: the save it holds, 0 while it is not there
          temp,     \* the temporary file of each thread: none, in part or whole
          strays,   \* how many temporary files were left behind
          lock,     \* _lock of each process: the thread that holds it
          op,       \* what each thread is doing
          saves,    \* how many saves have begun
          crashes   \* how often a process has stopped

vars == <<files, temp, strays, lock, op, saves, crashes>>

Versions == 1..MaxSaves
Idle     == [at |-> "idle"]
Nothing  == [i \in {} |-> 0]
Saving   == {"lock", "write", "replace", "undo"}
Views    == UNION {[D -> 0..MaxSaves] : D \in SUBSET Ids}
Op       == {Idle} \union [at : Saving, id : Ids, version : Versions]
                   \union [at : {"read"}, todo : SUBSET Ids, got : Views]

Init == /\ files = [i \in Ids |-> 0]
        /\ temp = [t \in Threads |-> "none"]
        /\ strays = 0
        /\ lock = [p \in Processes |-> NoThread]
        /\ op = [t \in Threads |-> Idle]
        /\ saves = 0
        /\ crashes = 0

Goto(t, where) == op' = [op EXCEPT ![t].at = where]
Finish(t)      == op' = [op EXCEPT ![t] = Idle]
SetTemp(t, c)  == temp' = [temp EXCEPT ![t] = c]
Unlock(t)      == lock' = [lock EXCEPT ![ProcessOf[t]] = NoThread]

-----------------------------------------------------------------------------
(* _write, called by save_scan, save_pull_request and save_installation.    *)

BeginSave(t, i) == /\ op[t] = Idle /\ saves < MaxSaves
                   /\ saves' = saves + 1
                   /\ op' = [op EXCEPT ![t] = [at |-> "lock", id |-> i, version |-> saves + 1]]
                   /\ UNCHANGED <<files, temp, strays, lock, crashes>>

(* Mutant: the file itself is opened for writing.                           *)
MakeTempInPlace(t) == /\ op[t].at = "lock" /\ lock[ProcessOf[t]] = NoThread
                      /\ lock' = [lock EXCEPT ![ProcessOf[t]] = t]
                      /\ SetTemp(t, "part") /\ Goto(t, "write")
                      /\ files' = [files EXCEPT ![op[t].id] = MaxSaves + 1]
                      /\ UNCHANGED <<strays, saves, crashes>>

(* The lock is taken and the temporary file made, or the call raises.       *)
MakeTemp(t) == /\ op[t].at = "lock" /\ lock[ProcessOf[t]] = NoThread
               /\ \/ /\ lock' = [lock EXCEPT ![ProcessOf[t]] = t]
                     /\ SetTemp(t, "part") /\ Goto(t, "write")
                  \/ Finish(t) /\ UNCHANGED <<temp, lock>>
               /\ UNCHANGED <<files, strays, saves, crashes>>

Write(t) == /\ op[t].at = "write"
            /\ \/ SetTemp(t, "whole") /\ Goto(t, "replace")
               \/ Goto(t, "undo") /\ UNCHANGED temp
            /\ UNCHANGED <<files, strays, lock, saves, crashes>>

Replace(t) == /\ op[t].at = "replace"
              /\ \/ /\ files' = [files EXCEPT ![op[t].id] = op[t].version]
                    /\ SetTemp(t, "none") /\ Unlock(t) /\ Finish(t)
                 \/ Goto(t, "undo") /\ UNCHANGED <<files, temp, lock>>
              /\ UNCHANGED <<strays, saves, crashes>>

(* Mutants: the handler does not unlink; it raises with the lock held.      *)
UndoLeavesTemp(t) == /\ op[t].at = "undo"
                     /\ strays' = strays + 1
                     /\ SetTemp(t, "none") /\ Unlock(t) /\ Finish(t)
                     /\ UNCHANGED <<files, saves, crashes>>

UndoLocked(t) == /\ op[t].at = "undo"
                 /\ SetTemp(t, "none") /\ Finish(t)
                 /\ UNCHANGED <<files, strays, lock, saves, crashes>>

(* The handler: the temporary file goes, the exception goes on.  That the   *)
(* unlink raises too is left out.                                           *)
Undo(t) == /\ op[t].at = "undo"
           /\ SetTemp(t, "none") /\ Unlock(t) /\ Finish(t)
           /\ UNCHANGED <<files, strays, saves, crashes>>

-----------------------------------------------------------------------------
(* _read looks at one record, _read_all at every file of the directory, in  *)
(* any order; an opened file stays what it was when another replaces it.    *)

BeginRead(t, todo) == /\ op[t] = Idle
                      /\ op' = [op EXCEPT ![t] = [at |-> "read", todo |-> todo, got |-> Nothing]]
                      /\ UNCHANGED <<files, temp, strays, lock, saves, crashes>>

Seen(t, i, content) ==
    op' = [op EXCEPT ![t].todo = @ \ {i},
                     ![t].got = [k \in DOMAIN op[t].got \union {i} |->
                                    IF k = i THEN content ELSE op[t].got[k]]]

(* Mutant: the pattern also matches the temporary files.                    *)
LookAtTemp(t, i) == /\ op[t].at = "read" /\ i \in op[t].todo
                    /\ \/ Seen(t, i, files[i])
                       \/ \E u \in Threads : temp[u] = "whole" /\ op[u].id = i /\ Seen(t, i, op[u].version)
                    /\ UNCHANGED <<files, temp, strays, lock, saves, crashes>>

Look(t, i) == /\ op[t].at = "read" /\ i \in op[t].todo
              /\ Seen(t, i, files[i])
              /\ UNCHANGED <<files, temp, strays, lock, saves, crashes>>

EndRead(t) == /\ op[t].at = "read" /\ op[t].todo = {}
              /\ Finish(t)
              /\ UNCHANGED <<files, temp, strays, lock, saves, crashes>>

-----------------------------------------------------------------------------
(* A process stops; what it had not unlinked stays.                         *)
Own(p) == {t \in Threads : ProcessOf[t] = p}

Crash(p) == /\ crashes < MaxCrashes
            /\ crashes' = crashes + 1
            /\ strays' = strays + Cardinality({t \in Own(p) : temp[t] # "none"})
            /\ temp' = [t \in Threads |-> IF t \in Own(p) THEN "none" ELSE temp[t]]
            /\ op' = [t \in Threads |-> IF t \in Own(p) THEN Idle ELSE op[t]]
            /\ lock' = [lock EXCEPT ![p] = NoThread]
            /\ UNCHANGED <<files, saves>>

Begin(t) == (\E i \in Ids : BeginSave(t, i) \/ BeginRead(t, {i})) \/ BeginRead(t, Ids)
Save(t)  == MakeTemp(t) \/ Write(t) \/ Replace(t) \/ Undo(t)
Read(t)  == (\E i \in Ids : Look(t, i)) \/ EndRead(t)
Next     == (\E t \in Threads : Begin(t) \/ Save(t) \/ Read(t)) \/ \E p \in Processes : Crash(p)
Spec     == Init /\ [][Next]_vars

(* A thread that has the lock, or gets it again and again, goes on.         *)
FairSpec == Spec /\ \A t \in Threads : SF_vars(Save(t))

-----------------------------------------------------------------------------
TypeOK ==
    /\ files \in [Ids -> 0..MaxSaves]
    /\ temp \in [Threads -> {"none", "part", "whole"}]
    /\ strays \in Nat
    /\ lock \in [Processes -> Threads \union {NoThread}]
    /\ op \in [Threads -> Op]
    /\ saves \in 0..MaxSaves
    /\ crashes \in Nat

(* A crash leaves at most one temporary file behind, because one save at    *)
(* most is under way in a process, and a save that raises leaves none.      *)
OneStrayPerCrash == strays <= crashes

(* In each process one thread at most is inside _write, and it has the lock. *)
LockHeld == \A t \in Threads :
                op[t].at \in Saving \ {"lock"} <=> lock[ProcessOf[t]] = t

(* A save ends, done or raised, however the others use the store.           *)
EverySaveEnds == \A t \in Threads : op[t].at \in Saving ~> op[t] = Idle

(* The store implements atomic records: nobody sees part of a record, not   *)
(* in another process and not after a crash in the middle of a save.        *)
Records == INSTANCE AtomicRecords WITH
               Readers <- Threads,
               record  <- files,
               seen    <- [t \in Threads |-> IF op[t].at = "read" THEN op[t].got ELSE Nothing]
Atomic == Records!ARSpec
=============================================================================
