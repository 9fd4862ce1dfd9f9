--------------------------- MODULE ScanStoreProofs ---------------------------
(***************************************************************************)
(* Proofs about ScanStore, for any processes, threads, ids and bounds: type *)
(* correctness, the lock, what a crash leaves behind at most, and that the  *)
(* store implements AtomicRecords.                                          *)
(***************************************************************************)
EXTENDS ScanStore, FiniteSetTheorems, TLAPS

(* A view that one more record is added to is a view.                       *)
LEMMA SeenIsView ==
  ASSUME NEW got \in Views, NEW i \in Ids, NEW content \in 0..MaxSaves
  PROVE  [k \in DOMAIN got \union {i} |-> IF k = i THEN content ELSE got[k]] \in Views
<1>1. PICK D \in SUBSET Ids : got \in [D -> 0..MaxSaves]
  BY DEF Views
<1>2. D \union {i} \in SUBSET Ids
  OBVIOUS
<1>3. [k \in DOMAIN got \union {i} |-> IF k = i THEN content ELSE got[k]]
         \in [D \union {i} -> 0..MaxSaves]
  BY <1>1
<1> QED
  BY <1>2, <1>3 DEF Views

LEMMA NothingIsView == Nothing \in Views
<1>1. {} \in SUBSET Ids /\ Nothing \in [{} -> 0..MaxSaves]
  BY DEF Nothing
<1> QED
  BY <1>1 DEF Views

(* What a step of one thread leaves alone, and what it may do to its own    *)
(* operation.                                                               *)
LEMMA OpKeepsType ==
  ASSUME TypeOK, NEW t \in Threads, NEW o \in Op, op' = [op EXCEPT ![t] = o]
  PROVE  op' \in [Threads -> Op]
BY DEF TypeOK

LEMMA GotoKeepsType ==
  ASSUME TypeOK, NEW t \in Threads, NEW where \in Saving, op[t].at \in Saving, Goto(t, where)
  PROVE  op' \in [Threads -> Op]
<1>1. op[t] \in Op /\ op[t].at # "idle" /\ op[t].at # "read"
  BY DEF TypeOK, Saving
<1>2. op[t] \in [at : Saving, id : Ids, version : Versions]
  BY <1>1 DEF Op, Idle
<1>3. [op[t] EXCEPT !.at = where] \in [at : Saving, id : Ids, version : Versions]
  BY <1>2
<1>4. [op[t] EXCEPT !.at = where] \in Op
  BY <1>3 DEF Op
<1>5. op' = [op EXCEPT ![t] = [op[t] EXCEPT !.at = where]]
  BY DEF Goto
<1> QED
  BY <1>4, <1>5, OpKeepsType

LEMMA SeenKeepsType ==
  ASSUME TypeOK, NEW t \in Threads, NEW i \in Ids, NEW content \in 0..MaxSaves,
         op[t].at = "read", Seen(t, i, content)
  PROVE  /\ op' \in [Threads -> Op]
         /\ op'[t].at = "read"
         /\ op'[t].got = [k \in DOMAIN op[t].got \union {i} |->
                             IF k = i THEN content ELSE op[t].got[k]]
         /\ \A u \in Threads \ {t} : op'[u] = op[u]
<1>1. op[t] \in [at : {"read"}, todo : SUBSET Ids, got : Views]
  BY DEF TypeOK, Op, Idle, Saving
<1> DEFINE new == [k \in DOMAIN op[t].got \union {i} |->
                      IF k = i THEN content ELSE op[t].got[k]]
<1>2. new \in Views
  BY <1>1, SeenIsView
<1> HIDE DEF new
<1>3. op' = [op EXCEPT ![t] = [op[t] EXCEPT !.todo = @ \ {i}, !.got = new]]
  BY DEF Seen, new
<1>4. [op[t] EXCEPT !.todo = @ \ {i}, !.got = new]
         \in [at : {"read"}, todo : SUBSET Ids, got : Views]
  BY <1>1, <1>2
<1>5. [op[t] EXCEPT !.todo = @ \ {i}, !.got = new] \in Op
  BY <1>4 DEF Op
<1>6. op' \in [Threads -> Op]
  BY <1>3, <1>5, OpKeepsType
<1>7. op'[t] = [op[t] EXCEPT !.todo = @ \ {i}, !.got = new]
      /\ \A u \in Threads \ {t} : op'[u] = op[u]
  BY <1>3 DEF TypeOK
<1>8. op'[t].at = "read" /\ op'[t].got = new
  BY <1>1, <1>7
<1> QED
  BY <1>6, <1>7, <1>8 DEF new

-----------------------------------------------------------------------------
LEMMA TypeStep == TypeOK /\ [Next]_vars => TypeOK'
<1> SUFFICES ASSUME TypeOK, [Next]_vars PROVE TypeOK'
  OBVIOUS
<1>0. Idle \in Op
  BY DEF Op
<1>1. ASSUME NEW t \in Threads, NEW i \in Ids, BeginSave(t, i) PROVE TypeOK'
  <2>1. saves + 1 \in Versions /\ saves' \in 0..MaxSaves
    BY <1>1, ScanStoreAssumption DEF BeginSave, TypeOK, Versions
  <2>2. [at |-> "lock", id |-> i, version |-> saves + 1] \in Op
    BY <2>1 DEF Op, Saving
  <2>3. op' \in [Threads -> Op]
    BY <1>1, <2>2, OpKeepsType DEF BeginSave
  <2> QED
    BY <1>1, <2>1, <2>3 DEF BeginSave, TypeOK
<1>2. ASSUME NEW t \in Threads, NEW todo \in SUBSET Ids, BeginRead(t, todo) PROVE TypeOK'
  <2>1. [at |-> "read", todo |-> todo, got |-> Nothing] \in Op
    BY NothingIsView DEF Op
  <2>2. op' \in [Threads -> Op]
    BY <1>2, <2>1, OpKeepsType DEF BeginRead
  <2> QED
    BY <1>2, <2>2 DEF BeginRead, TypeOK
<1>3. ASSUME NEW t \in Threads, MakeTemp(t) PROVE TypeOK'
  <2>1. op' \in [Threads -> Op]
    BY <1>0, <1>3, GotoKeepsType, OpKeepsType DEF MakeTemp, Finish, Saving
  <2> QED
    BY <1>3, <2>1 DEF MakeTemp, SetTemp, TypeOK
<1>4. ASSUME NEW t \in Threads, Write(t) PROVE TypeOK'
  <2>1. op' \in [Threads -> Op]
    BY <1>4, GotoKeepsType DEF Write, Saving
  <2> QED
    BY <1>4, <2>1 DEF Write, SetTemp, TypeOK
<1>5. ASSUME NEW t \in Threads, Replace(t) PROVE TypeOK'
  <2>1. op' \in [Threads -> Op]
    BY <1>0, <1>5, GotoKeepsType, OpKeepsType DEF Replace, Finish, Saving
  <2>2. op[t].id \in Ids /\ op[t].version \in 0..MaxSaves
    BY <1>5 DEF Replace, TypeOK, Op, Idle, Saving, Versions
  <2>3. files' \in [Ids -> 0..MaxSaves]
    BY <1>5, <2>2 DEF Replace, TypeOK
  <2> QED
    BY <1>5, <2>1, <2>3 DEF Replace, SetTemp, Unlock, TypeOK
<1>6. ASSUME NEW t \in Threads, Undo(t) PROVE TypeOK'
  <2>1. op' \in [Threads -> Op]
    BY <1>0, <1>6, OpKeepsType DEF Undo, Finish
  <2> QED
    BY <1>6, <2>1 DEF Undo, SetTemp, Unlock, TypeOK
<1>7. ASSUME NEW t \in Threads, NEW i \in Ids, Look(t, i) PROVE TypeOK'
  <2>1. files[i] \in 0..MaxSaves
    BY DEF TypeOK
  <2>2. op' \in [Threads -> Op]
    BY <1>7, <2>1, SeenKeepsType DEF Look
  <2> QED
    BY <1>7, <2>2 DEF Look, TypeOK
<1>8. ASSUME NEW t \in Threads, EndRead(t) PROVE TypeOK'
  <2>1. op' \in [Threads -> Op]
    BY <1>0, <1>8, OpKeepsType DEF EndRead, Finish
  <2> QED
    BY <1>8, <2>1 DEF EndRead, TypeOK
<1>9. ASSUME NEW p \in Processes, Crash(p) PROVE TypeOK'
  <2>1. IsFiniteSet({t \in Own(p) : temp[t] # "none"})
    BY ScanStoreAssumption, FS_Subset DEF Own
  <2>2. strays' \in Nat
    BY <1>9, <2>1, FS_CardinalityType DEF Crash, TypeOK
  <2>3. op' \in [Threads -> Op]
    BY <1>0, <1>9 DEF Crash, TypeOK
  <2> QED
    BY <1>9, <2>2, <2>3 DEF Crash, TypeOK
<1>10. CASE UNCHANGED vars
  BY <1>10 DEF TypeOK, vars
<1> QED
  BY <1>1, <1>2, <1>3, <1>4, <1>5, <1>6, <1>7, <1>8, <1>9, <1>10 DEF Next, Begin, Save, Read

(* Every variable keeps its type; in particular no file ever holds part of  *)
(* a record.                                                                *)
THEOREM TypeCorrect == Spec => []TypeOK
<1>1. Init => TypeOK
  BY ScanStoreAssumption DEF Init, TypeOK, Op
<1> QED
  BY <1>1, TypeStep, PTL DEF Spec

-----------------------------------------------------------------------------
(* What the readers have seen, as AtomicRecords has it.                     *)
SeenNow == [t \in Threads |-> IF op[t].at = "read" THEN op[t].got ELSE Nothing]

(* A step of a thread that neither was nor is in the middle of a read, or   *)
(* begins one, shows nothing to anybody.                                    *)
LEMMA NothingSeen ==
  ASSUME TypeOK, NEW t \in Threads, NEW o, op' = [op EXCEPT ![t] = o],
         op[t].at # "read", o.at # "read" \/ o.got = Nothing
  PROVE  SeenNow' = SeenNow
<1>1. op'[t] = o /\ \A u \in Threads \ {t} : op'[u] = op[u]
  BY DEF TypeOK
<1>2. \A u \in Threads : (IF op'[u].at = "read" THEN op'[u].got ELSE Nothing)
                       = (IF op[u].at = "read" THEN op[u].got ELSE Nothing)
  BY <1>1
<1> QED
  BY <1>2 DEF SeenNow

LEMMA GotoSeesNothing ==
  ASSUME TypeOK, NEW t \in Threads, NEW where \in Saving, op[t].at \in Saving, Goto(t, where)
  PROVE  SeenNow' = SeenNow
<1>1. op[t] \in [at : Saving, id : Ids, version : Versions]
  BY DEF TypeOK, Op, Idle, Saving
<1>2. op' = [op EXCEPT ![t] = [op[t] EXCEPT !.at = where]]
  BY DEF Goto
<1>3. [op[t] EXCEPT !.at = where].at # "read" /\ op[t].at # "read"
  BY <1>1 DEF Saving
<1> QED
  BY <1>2, <1>3, NothingSeen

LEMMA FinishSeesNothing ==
  ASSUME TypeOK, NEW t \in Threads, op[t].at \in Saving, Finish(t)
  PROVE  SeenNow' = SeenNow
<1>1. Idle.at # "read" /\ op[t].at # "read"
  BY DEF Idle, Saving
<1> QED
  BY <1>1, NothingSeen DEF Finish

(* Every step of the store is one of AtomicRecords, or does nothing there.  *)
LEMMA RecordStep == TypeOK /\ TypeOK' /\ [Next]_vars => [Records!ARNext]_(Records!arVars)
<1> SUFFICES ASSUME TypeOK, TypeOK', [Next]_vars
             PROVE  Records!ARNext \/ (files' = files /\ SeenNow' = SeenNow)
  BY DEF Records!arVars, SeenNow
<1>1. ASSUME NEW t \in Threads, NEW i \in Ids, BeginSave(t, i)
      PROVE  files' = files /\ SeenNow' = SeenNow
  <2>1. op[t].at # "read"
    BY <1>1 DEF BeginSave, Idle
  <2>2. [at |-> "lock", id |-> i, version |-> saves + 1].at # "read"
    OBVIOUS
  <2> QED
    BY <1>1, <2>1, <2>2, NothingSeen DEF BeginSave
<1>2. ASSUME NEW t \in Threads, NEW todo \in SUBSET Ids, BeginRead(t, todo)
      PROVE  files' = files /\ SeenNow' = SeenNow
  <2>1. op[t].at # "read"
    BY <1>2 DEF BeginRead, Idle
  <2>2. [at |-> "read", todo |-> todo, got |-> Nothing].got = Nothing
    OBVIOUS
  <2> QED
    BY <1>2, <2>1, <2>2, NothingSeen DEF BeginRead
<1>3. ASSUME NEW t \in Threads, MakeTemp(t) PROVE files' = files /\ SeenNow' = SeenNow
  BY <1>3, GotoSeesNothing, FinishSeesNothing DEF MakeTemp, Saving
<1>4. ASSUME NEW t \in Threads, Write(t) PROVE files' = files /\ SeenNow' = SeenNow
  BY <1>4, GotoSeesNothing DEF Write, Saving
<1>5. ASSUME NEW t \in Threads, Replace(t)
      PROVE  Records!ARNext \/ (files' = files /\ SeenNow' = SeenNow)
  <2>1. CASE Goto(t, "undo") /\ UNCHANGED <<files, temp, lock>>
    BY <1>5, <2>1, GotoSeesNothing DEF Replace, Saving
  <2>2. CASE files' = [files EXCEPT ![op[t].id] = op[t].version] /\ Finish(t)
    <3>1. op[t].id \in Ids /\ op[t].version \in Versions
      BY <1>5 DEF Replace, TypeOK, Op, Idle, Saving
    <3>2. SeenNow' = SeenNow
      BY <1>5, <2>2, FinishSeesNothing DEF Replace, Saving
    <3>3. Records!Replace(op[t].id, op[t].version)
      BY <2>2, <3>2 DEF Records!Replace, SeenNow
    <3> QED
      BY <3>1, <3>3 DEF Records!ARNext
  <2> QED
    BY <1>5, <2>1, <2>2 DEF Replace
<1>6. ASSUME NEW t \in Threads, Undo(t) PROVE files' = files /\ SeenNow' = SeenNow
  BY <1>6, FinishSeesNothing DEF Undo, Saving
<1>7. ASSUME NEW t \in Threads, NEW i \in Ids, Look(t, i) PROVE Records!ARNext
  <2> DEFINE new == [k \in DOMAIN op[t].got \union {i} |->
                        IF k = i THEN files[i] ELSE op[t].got[k]]
  <2>1. files[i] \in 0..MaxSaves
    BY DEF TypeOK
  <2>2. /\ op[t].at = "read" /\ op'[t].at = "read"
        /\ op'[t].got = new
        /\ \A u \in Threads \ {t} : op'[u] = op[u]
    BY <1>7, <2>1, SeenKeepsType DEF Look
  <2>3. SeenNow[t] = op[t].got
    BY <2>2 DEF SeenNow
  <2>4. new = [k \in DOMAIN SeenNow[t] \union {i} |-> IF k = i THEN files[i] ELSE SeenNow[t][k]]
    BY <2>3
  <2> HIDE DEF new
  <2>5. \A u \in Threads : (IF op'[u].at = "read" THEN op'[u].got ELSE Nothing)
                         = [SeenNow EXCEPT ![t] = new][u]
    BY <2>2 DEF SeenNow
  <2>6. SeenNow' = [SeenNow EXCEPT ![t] = new]
    BY <2>5 DEF SeenNow
  <2>7. Records!See(t, i)
    BY <1>7, <2>4, <2>6 DEF Records!See, SeenNow, Look
  <2> QED
    BY <2>7 DEF Records!ARNext
<1>8. ASSUME NEW t \in Threads, EndRead(t) PROVE Records!ARNext
  <2>1. op'[t].at # "read" /\ \A u \in Threads \ {t} : op'[u] = op[u]
    BY <1>8 DEF EndRead, Finish, TypeOK, Idle
  <2>2. SeenNow' = [u \in Threads |-> IF u \in {t} THEN Nothing ELSE SeenNow[u]]
    BY <2>1 DEF SeenNow
  <2>3. Records!Forget({t})
    BY <1>8, <2>2 DEF Records!Forget, Records!Nothing, Nothing, SeenNow, EndRead
  <2> QED
    BY <2>3 DEF Records!ARNext
<1>9. ASSUME NEW p \in Processes, Crash(p) PROVE Records!ARNext
  <2>1. \A u \in Threads : op'[u] = IF u \in Own(p) THEN Idle ELSE op[u]
    BY <1>9 DEF Crash
  <2>2. SeenNow' = [u \in Threads |-> IF u \in Own(p) THEN Nothing ELSE SeenNow[u]]
    BY <2>1 DEF SeenNow, Idle
  <2>3. Records!Forget(Own(p))
    BY <1>9, <2>2 DEF Records!Forget, Records!Nothing, Nothing, SeenNow, Crash
  <2>4. Own(p) \in SUBSET Threads
    BY DEF Own
  <2> QED
    BY <2>3, <2>4 DEF Records!ARNext
<1>10. CASE UNCHANGED vars
  BY <1>10 DEF vars, SeenNow
<1> QED
  BY <1>1, <1>2, <1>3, <1>4, <1>5, <1>6, <1>7, <1>8, <1>9, <1>10 DEF Next, Begin, Save, Read

(* The store implements AtomicRecords: records are replaced as a whole and  *)
(* nobody, in whichever process and whatever crashes, sees part of one.     *)
THEOREM Implements == Spec => Atomic
<1>1. Init => Records!ARInit
  BY DEF Init, Idle, Records!ARInit, Records!Nothing, Nothing
<1> QED
  BY <1>1, RecordStep, TypeCorrect, PTL DEF Spec, Atomic, Records!ARSpec

-----------------------------------------------------------------------------
(* A temporary file exists only while the thread that made it has the lock. *)
TempInside == \A t \in Threads : temp[t] # "none" => op[t].at \in Saving \ {"lock"}

LockInv == LockHeld /\ TempInside

(* A step of one thread keeps the invariant when it does for that thread    *)
(* and neither takes the lock from another nor gives it to one.             *)
LEMMA LockFrame ==
  ASSUME TypeOK, LockInv, NEW t \in Threads,
         NEW o, op' = [op EXCEPT ![t] = o],
         NEW c, temp' = [temp EXCEPT ![t] = c],
         NEW h \in {NoThread, t}, lock' = [lock EXCEPT ![ProcessOf[t]] = h],
         lock[ProcessOf[t]] \in {NoThread, t},
         o.at \in Saving \ {"lock"} <=> h = t,
         c # "none" => o.at \in Saving \ {"lock"}
  PROVE  LockInv'
<1>1. NoThread # t /\ \A u \in Threads : u # NoThread /\ ProcessOf[u] \in Processes
  BY ScanStoreAssumption
<1>2. op'[t] = o /\ temp'[t] = c /\ lock'[ProcessOf[t]] = h
  BY <1>1 DEF TypeOK
<1>3. ASSUME NEW u \in Threads, u # t
      PROVE  op'[u] = op[u] /\ temp'[u] = temp[u]
             /\ (lock'[ProcessOf[u]] = u <=> lock[ProcessOf[u]] = u)
  <2>1. op'[u] = op[u] /\ temp'[u] = temp[u]
    BY <1>3 DEF TypeOK
  <2>2. CASE ProcessOf[u] = ProcessOf[t]
    BY <1>1, <1>2, <1>3, <2>1, <2>2
  <2>3. CASE ProcessOf[u] # ProcessOf[t]
    BY <1>1, <2>1, <2>3 DEF TypeOK
  <2> QED
    BY <2>1, <2>2, <2>3
<1>4. ASSUME NEW u \in Threads
      PROVE  (op'[u].at \in Saving \ {"lock"} <=> lock'[ProcessOf[u]] = u)
             /\ (temp'[u] # "none" => op'[u].at \in Saving \ {"lock"})
  <2>1. CASE u = t
    BY <1>2, <2>1
  <2>2. CASE u # t
    BY <1>3, <2>2 DEF LockInv, LockHeld, TempInside
  <2> QED
    BY <2>1, <2>2
<1> QED
  BY <1>4 DEF LockInv, LockHeld, TempInside

(* A step of one thread that leaves its lock and its temporary file alone   *)
(* keeps the invariant when it does not enter or leave _write.              *)
LEMMA LockIdleFrame ==
  ASSUME TypeOK, LockInv, NEW t \in Threads, NEW o, op' = [op EXCEPT ![t] = o],
         o.at \in Saving \ {"lock"} <=> op[t].at \in Saving \ {"lock"},
         lock' = lock, temp' = temp
  PROVE  LockInv'
<1>1. op'[t] = o /\ \A u \in Threads \ {t} : op'[u] = op[u]
  BY DEF TypeOK
<1>2. \A u \in Threads : op'[u].at \in Saving \ {"lock"} <=> op[u].at \in Saving \ {"lock"}
  BY <1>1
<1> QED
  BY <1>2 DEF LockInv, LockHeld, TempInside

LEMMA GotoIs ==
  ASSUME TypeOK, NEW t \in Threads, NEW where, op[t].at \in Saving, Goto(t, where)
  PROVE  /\ op' = [op EXCEPT ![t] = [op[t] EXCEPT !.at = where]]
         /\ [op[t] EXCEPT !.at = where].at = where
<1>1. op[t] \in [at : Saving, id : Ids, version : Versions]
  BY DEF TypeOK, Op, Idle, Saving
<1> QED
  BY <1>1 DEF Goto

LEMMA LockStep == TypeOK /\ LockInv /\ [Next]_vars => LockInv'
<1> SUFFICES ASSUME TypeOK, LockInv, [Next]_vars PROVE LockInv'
  OBVIOUS
<1>0. Idle.at = "idle"
  BY DEF Idle
<1>1. ASSUME NEW t \in Threads, NEW i \in Ids, BeginSave(t, i) PROVE LockInv'
  <2>1. op[t].at \notin Saving
    BY <1>1 DEF BeginSave, Idle, Saving
  <2>2. [at |-> "lock", id |-> i, version |-> saves + 1].at \notin Saving \ {"lock"}
    OBVIOUS
  <2> QED
    BY <1>1, <2>1, <2>2, LockIdleFrame DEF BeginSave
<1>2. ASSUME NEW t \in Threads, NEW todo \in SUBSET Ids, BeginRead(t, todo) PROVE LockInv'
  <2>1. op[t].at \notin Saving
    BY <1>2 DEF BeginRead, Idle, Saving
  <2>2. [at |-> "read", todo |-> todo, got |-> Nothing].at \notin Saving
    BY DEF Saving
  <2> QED
    BY <1>2, <2>1, <2>2, LockIdleFrame DEF BeginRead
<1>3. ASSUME NEW t \in Threads, MakeTemp(t) PROVE LockInv'
  <2>1. CASE Finish(t) /\ UNCHANGED <<temp, lock>>
    BY <1>0, <1>3, <2>1, LockIdleFrame DEF MakeTemp, Finish, Saving
  <2>2. CASE lock' = [lock EXCEPT ![ProcessOf[t]] = t] /\ SetTemp(t, "part") /\ Goto(t, "write")
    <3>1. /\ op' = [op EXCEPT ![t] = [op[t] EXCEPT !.at = "write"]]
          /\ [op[t] EXCEPT !.at = "write"].at = "write"
      BY <1>3, <2>2, GotoIs DEF MakeTemp, Saving
    <3>2. [op[t] EXCEPT !.at = "write"].at \in Saving \ {"lock"}
      BY <3>1 DEF Saving
    <3>3. lock[ProcessOf[t]] = NoThread
      BY <1>3 DEF MakeTemp
    <3> QED
      BY <2>2, <3>1, <3>2, <3>3, LockFrame DEF SetTemp
  <2> QED
    BY <1>3, <2>1, <2>2 DEF MakeTemp
<1>4. ASSUME NEW t \in Threads, Write(t) PROVE LockInv'
  <2>1. PICK where \in {"replace", "undo"} : Goto(t, where)
    BY <1>4 DEF Write
  <2>2. op[t].at \in Saving \ {"lock"} /\ where \in Saving \ {"lock"}
    BY <1>4 DEF Write, Saving
  <2>3. /\ op' = [op EXCEPT ![t] = [op[t] EXCEPT !.at = where]]
        /\ [op[t] EXCEPT !.at = where].at = where
    BY <2>1, <2>2, GotoIs
  <2>4. /\ op'[t].at = where
        /\ \A u \in Threads \ {t} : op'[u] = op[u]
    BY <2>3 DEF TypeOK
  <2>5. \A u \in Threads : op'[u].at \in Saving \ {"lock"} <=> op[u].at \in Saving \ {"lock"}
    BY <2>2, <2>4
  <2>6. lock' = lock /\ \A u \in Threads \ {t} : temp'[u] = temp[u]
    BY <1>4 DEF Write, SetTemp, TypeOK
  <2> QED
    BY <2>2, <2>4, <2>5, <2>6 DEF LockInv, LockHeld, TempInside
<1>5. ASSUME NEW t \in Threads, op[t].at \in Saving \ {"lock"},
             SetTemp(t, "none"), Unlock(t), Finish(t)
      PROVE  LockInv'
  <2>1. lock[ProcessOf[t]] = t /\ NoThread # t
    BY <1>5, ScanStoreAssumption DEF LockInv, LockHeld
  <2> QED
    BY <1>0, <1>5, <2>1, LockFrame DEF SetTemp, Unlock, Finish, Saving
<1>6. ASSUME NEW t \in Threads, Replace(t) PROVE LockInv'
  <2>1. op[t].at \in Saving \ {"lock"} /\ "undo" \in Saving \ {"lock"}
    BY <1>6 DEF Replace, Saving
  <2>2. CASE Goto(t, "undo") /\ UNCHANGED <<files, temp, lock>>
    <3>1. /\ op' = [op EXCEPT ![t] = [op[t] EXCEPT !.at = "undo"]]
          /\ [op[t] EXCEPT !.at = "undo"].at = "undo"
      BY <2>1, <2>2, GotoIs
    <3> QED
      BY <2>1, <2>2, <3>1, LockIdleFrame
  <2> QED
    BY <1>5, <1>6, <2>1, <2>2 DEF Replace
<1>7. ASSUME NEW t \in Threads, Undo(t) PROVE LockInv'
  BY <1>5, <1>7 DEF Undo, Saving
<1>8. ASSUME NEW t \in Threads, NEW i \in Ids, Look(t, i) PROVE LockInv'
  <2>1. files[i] \in 0..MaxSaves
    BY DEF TypeOK
  <2>2. op'[t].at = "read" /\ op[t].at = "read" /\ \A u \in Threads \ {t} : op'[u] = op[u]
    BY <1>8, <2>1, SeenKeepsType DEF Look
  <2>3. \A u \in Threads : op'[u].at = op[u].at
    BY <2>2
  <2> QED
    BY <1>8, <2>3 DEF Look, LockInv, LockHeld, TempInside
<1>9. ASSUME NEW t \in Threads, EndRead(t) PROVE LockInv'
  BY <1>0, <1>9, LockIdleFrame DEF EndRead, Finish, Saving
<1>10. ASSUME NEW p \in Processes, Crash(p) PROVE LockInv'
  <2>1. ASSUME NEW u \in Threads
        PROVE  (op'[u].at \in Saving \ {"lock"} <=> lock'[ProcessOf[u]] = u)
               /\ (temp'[u] # "none" => op'[u].at \in Saving \ {"lock"})
    <3>1. CASE ProcessOf[u] = p
      <4>1. op'[u].at = "idle" /\ temp'[u] = "none"
        BY <1>0, <1>10, <3>1 DEF Crash, Own
      <4>2. lock'[ProcessOf[u]] = NoThread /\ NoThread # u
        BY <1>10, <3>1, ScanStoreAssumption DEF Crash, TypeOK
      <4> QED
        BY <4>1, <4>2 DEF Saving
    <3>2. CASE ProcessOf[u] # p
      <4>1. op'[u] = op[u] /\ temp'[u] = temp[u]
        BY <1>10, <3>2 DEF Crash, Own
      <4>2. lock'[ProcessOf[u]] = lock[ProcessOf[u]]
        BY <1>10, <3>2, ScanStoreAssumption DEF Crash, TypeOK
      <4> QED
        BY <4>1, <4>2 DEF LockInv, LockHeld, TempInside
    <3> QED
      BY <3>1, <3>2
  <2> QED
    BY <2>1 DEF LockInv, LockHeld, TempInside
<1>11. CASE UNCHANGED vars
  BY <1>11 DEF vars, LockInv, LockHeld, TempInside
<1> QED
  BY <1>1, <1>2, <1>3, <1>4, <1>6, <1>7, <1>8, <1>9, <1>10, <1>11 DEF Next, Begin, Save, Read

LEMMA LockInvariant == Spec => []LockInv
<1>1. Init => LockInv
  BY ScanStoreAssumption DEF Init, LockInv, LockHeld, TempInside, Idle, Saving
<1> QED
  BY <1>1, LockStep, TypeCorrect, PTL DEF Spec

(* In each process one thread at most is inside _write, and it has the lock. *)
THEOREM OneSaveAtATime == Spec => []LockHeld
BY LockInvariant, PTL DEF LockInv

(* The threads of a process with a temporary file are those that hold its   *)
(* lock: there is one at most.                                              *)
LEMMA OneTemp ==
  ASSUME LockInv, NEW p \in Processes
  PROVE  LET T == {t \in Own(p) : temp[t] # "none"} IN Cardinality(T) \in {0, 1}
<1> DEFINE T == {t \in Own(p) : temp[t] # "none"}
<1>1. \A t \in T : t = lock[p]
  BY DEF LockInv, LockHeld, TempInside, Own
<1>2. T = {} \/ T = {lock[p]}
  BY <1>1
<1> QED
  BY <1>2, FS_EmptySet, FS_Singleton

LEMMA StrayStep == TypeOK /\ LockInv /\ OneStrayPerCrash /\ [Next]_vars => OneStrayPerCrash'
<1> SUFFICES ASSUME TypeOK, LockInv, OneStrayPerCrash, [Next]_vars PROVE OneStrayPerCrash'
  OBVIOUS
<1>1. ASSUME NEW p \in Processes, Crash(p) PROVE OneStrayPerCrash'
  <2>1. Cardinality({t \in Own(p) : temp[t] # "none"}) \in {0, 1}
    BY OneTemp
  <2> QED
    BY <1>1, <2>1 DEF Crash, OneStrayPerCrash, TypeOK
<1>2. CASE UNCHANGED <<strays, crashes>>
  BY <1>2 DEF OneStrayPerCrash
<1>3. (\E p \in Processes : Crash(p)) \/ UNCHANGED <<strays, crashes>>
  BY DEF Next, vars, Begin, Save, Read, BeginSave, BeginRead, MakeTemp, Write, Replace, Undo,
         Look, EndRead
<1> QED
  BY <1>1, <1>2, <1>3

(* A crash leaves at most one temporary file behind.                        *)
THEOREM FewStrays == Spec => []OneStrayPerCrash
<1>1. Init => OneStrayPerCrash
  BY DEF Init, OneStrayPerCrash
<1> QED
  BY <1>1, StrayStep, TypeCorrect, LockInvariant, PTL DEF Spec
=============================================================================
