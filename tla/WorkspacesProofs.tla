-------------------------- MODULE WorkspacesProofs --------------------------
(***************************************************************************)
(* What the shared lists guarantee when the pool has one thread: with      *)
(* MaxConcurrent = 1 the clone of a scan is its own, an incomplete scan is *)
(* never reported complete, and nothing is left behind, for any number of  *)
(* scans one after the other.  With more threads the model checker refutes *)
(* the first and the last (the findings).                                  *)
(***************************************************************************)
EXTENDS Workspaces, FiniteSetTheorems, TLAPS

(* The scan's own entry in a list, not yet passed by its own walk.          *)
Pending(s, l) == \E i \in DOMAIN temp[l] :
                     temp[l][i] = s /\ (cursor[s].list = l => i >= cursor[s].at)

(* One scan at a time, and the lists hold nothing of another.               *)
Alone == /\ \A s, t \in Active : s = t
         /\ \A l \in Lists : \A i \in DOMAIN temp[l] : temp[l][i] \in Active

(* What is on disk is still to be removed by the scan that made it.         *)
Owns(s) == /\ content[s] \in {"empty", "full", "hollow"} =>
                  s \in Active /\ cursor[s].list = "dirs" /\ Pending(s, "dirs")
           /\ helper[s] = "script" => s \in Active /\ Pending(s, "files")

(* What a scan knows at each step.                                          *)
Knows(s) == /\ pc[s] \notin Cleaning => cursor[s] = FirstItem
            /\ pc[s] \in {"askpass", "clone", "cloning", "sshing"} => content[s] = "empty"
            /\ pc[s] \in {"checkout"} \union Reading => WholeTree(s)
            /\ pc[s] = "graph" => saw[s]
            /\ content[s] = "hollow" => pc[s] \in Cleaning
            /\ outcome[s] = "completed" => saw[s] /\ pc[s] \in {"finally", "done"}
            /\ cursor[s].list = "files" => temp["dirs"] = << >>

IInv == TypeOK /\ Alone /\ \A s \in Scans : Owns(s) /\ Knows(s)

-----------------------------------------------------------------------------
(* Registering adds one entry, at the end, and keeps the others. *)
LEMMA RegisterFacts ==
  ASSUME TypeOK, NEW l \in Lists, NEW s \in Scans, Register(l, s)
  PROVE  /\ temp' \in [Lists -> Seq(Scans)]
         /\ \A m \in Lists \ {l} : temp'[m] = temp[m]
         /\ DOMAIN temp'[l] = DOMAIN temp[l] \union {Len(temp[l]) + 1}
         /\ Len(temp[l]) + 1 \in Nat \ {0}
         /\ temp'[l][Len(temp[l]) + 1] = s
         /\ \A i \in DOMAIN temp[l] : temp'[l][i] = temp[l][i]
<1>1. temp[l] \in Seq(Scans) /\ temp' = [temp EXCEPT ![l] = Append(temp[l], s)]
  BY DEF TypeOK, Register
<1>2. /\ Append(temp[l], s) \in Seq(Scans)
      /\ Len(temp[l]) \in Nat
      /\ DOMAIN temp[l] = 1..Len(temp[l])
      /\ DOMAIN Append(temp[l], s) = 1..(Len(temp[l]) + 1)
      /\ Append(temp[l], s)[Len(temp[l]) + 1] = s
      /\ \A i \in 1..Len(temp[l]) : Append(temp[l], s)[i] = temp[l][i]
  BY <1>1
<1>3. /\ temp'[l] = Append(temp[l], s)
      /\ \A m \in Lists \ {l} : temp'[m] = temp[m]
      /\ temp' \in [Lists -> Seq(Scans)]
  BY <1>1, <1>2 DEF TypeOK
<1>4. 1..(Len(temp[l]) + 1) = 1..Len(temp[l]) \union {Len(temp[l]) + 1}
  BY <1>2
<1>5. DOMAIN temp'[l] = DOMAIN temp[l] \union {Len(temp[l]) + 1}
      /\ Len(temp[l]) + 1 \in Nat \ {0}
  BY <1>2, <1>3, <1>4
<1>6. temp'[l][Len(temp[l]) + 1] = s /\ \A i \in DOMAIN temp[l] : temp'[l][i] = temp[l][i]
  BY <1>2, <1>3
<1> QED
  BY <1>3, <1>5, <1>6

(* What a lone scan registers is its own, like all that was there. *)
LEMMA RegisterOwn ==
  ASSUME TypeOK, NEW l \in Lists, NEW s \in Scans, Register(l, s),
         \A m \in Lists : \A i \in DOMAIN temp[m] : temp[m][i] = s
  PROVE  \A m \in Lists : \A i \in DOMAIN temp'[m] : temp'[m][i] = s
<1>1. SUFFICES ASSUME NEW m \in Lists, NEW i \in DOMAIN temp'[m]
               PROVE  temp'[m][i] = s
  OBVIOUS
<1>2. CASE m # l
  <2>1. temp'[m] = temp[m]
    BY <1>2, RegisterFacts
  <2> QED
    BY <2>1, <1>1
<1>3. CASE m = l
  <2>1. i \in DOMAIN temp[l] \union {Len(temp[l]) + 1}
    BY <1>1, <1>3, RegisterFacts
  <2>2. CASE i = Len(temp[l]) + 1
    BY <1>3, <2>2, RegisterFacts
  <2>3. CASE i \in DOMAIN temp[l]
    <3>1. temp'[l][i] = temp[l][i]
      BY <2>3, RegisterFacts
    <3> QED
      BY <1>3, <2>3, <3>1
  <2> QED
    BY <2>1, <2>2, <2>3
<1> QED
  BY <1>2, <1>3

(* A walk moves by one place. *)
LEMMA AdvanceType ==
  ASSUME TypeOK, NEW s \in Scans, Advance(s)
  PROVE  /\ cursor' \in [Scans -> [list : Lists, at : Nat \ {0}]]
         /\ cursor'[s] = [list |-> cursor[s].list, at |-> cursor[s].at + 1]
         /\ \A t \in Scans \ {s} : cursor'[t] = cursor[t]
  BY DEF TypeOK, Advance

(* Every value of every variable stays in its type. *)
LEMMA TypeStep == TypeOK /\ [Next]_vars => TypeOK'
<1> SUFFICES ASSUME TypeOK, [Next]_vars PROVE TypeOK'
  OBVIOUS
<1> USE DEF TypeOK, Acquiring, Reading, Cleaning, Goto, Content
<1>1. ASSUME NEW s \in Scans, Begin(s) PROVE TypeOK'
  BY <1>1 DEF Begin
<1>2. ASSUME NEW s \in Scans, MakeDirectory(s) PROVE TypeOK'
  BY <1>2, RegisterFacts, "dirs" \in Lists DEF MakeDirectory, Lists
<1>3. ASSUME NEW s \in Scans, WriteAskpass(s) PROVE TypeOK'
  BY <1>3, RegisterFacts, "files" \in Lists DEF WriteAskpass, Lists
<1>4. ASSUME NEW s \in Scans, StartClone(s) PROVE TypeOK'
  BY <1>4 DEF StartClone
<1>5. ASSUME NEW s \in Scans, EndClone(s) PROVE TypeOK'
  BY <1>5 DEF EndClone, GitSucceeds
<1>6. ASSUME NEW s \in Scans, EndSshClone(s) PROVE TypeOK'
  BY <1>6 DEF EndSshClone, GitSucceeds
<1>7. ASSUME NEW s \in Scans, Checkout(s) PROVE TypeOK'
  BY <1>7 DEF Checkout
<1>8. ASSUME NEW s \in Scans, Read(s) PROVE TypeOK'
  BY <1>8 DEF Read, WholeTree
<1>9. ASSUME NEW s \in Scans, Graph(s) PROVE TypeOK'
  BY <1>9 DEF Graph, WholeTree
<1>10. ASSUME NEW s \in Scans, RemoveDirectory(s) PROVE TypeOK'
  <2>1. cursor' \in [Scans -> [list : Lists, at : Nat \ {0}]]
    BY <1>10, AdvanceType DEF RemoveDirectory
  <2>2. content' \in [Scans -> {"none", "empty", "full", "hollow", "local"}]
    BY <1>10 DEF RemoveDirectory
  <2> QED
    BY <1>10, <2>1, <2>2 DEF RemoveDirectory
<1>11. ASSUME NEW s \in Scans, RemoveAskpass(s) PROVE TypeOK'
  BY <1>11, AdvanceType DEF RemoveAskpass
<1>12. ASSUME NEW s \in Scans, ClearList(s) PROVE TypeOK'
  <2>1. temp' \in [Lists -> Seq(Scans)] /\ cursor' \in [Scans -> [list : Lists, at : Nat \ {0}]]
    <3>1. << >> \in Seq(Scans) /\ FirstItem \in [list : Lists, at : Nat \ {0}]
          /\ [list |-> "files", at |-> 1] \in [list : Lists, at : Nat \ {0}]
      BY DEF FirstItem, Lists
    <3>2. PICK e \in Seq(Scans) : temp' = [temp EXCEPT ![cursor[s].list] = e]
      BY <1>12, <3>1 DEF ClearList
    <3>3. temp' \in [Lists -> Seq(Scans)]
      <4>1. temp \in [Lists -> Seq(Scans)]
        OBVIOUS
      <4> QED
        BY ONLY <3>2, <4>1
    <3>4. PICK item \in [list : Lists, at : Nat \ {0}] : cursor' = [cursor EXCEPT ![s] = item]
      BY <1>12, <3>1 DEF ClearList
    <3> QED
      BY <3>3, <3>4
  <2>2. pc' \in [Scans -> {"waiting", "done"} \union Acquiring \union Reading \union Cleaning]
    BY <1>12 DEF ClearList
  <2>3. outcome' \in [Scans -> {"none", "completed", "failed"}]
    BY <1>12 DEF ClearList
  <2> QED
    BY <1>12, <2>1, <2>2, <2>3 DEF ClearList
<1>13. CASE UNCHANGED vars
  BY <1>13 DEF vars
<1> QED
  BY <1>1, <1>2, <1>3, <1>4, <1>5, <1>6, <1>7, <1>8, <1>9, <1>10, <1>11, <1>12, <1>13
     DEF Next, Step, Acquire, Cleanup

-----------------------------------------------------------------------------
(* The scan that steps is the only one, and all the lists hold is its own. *)
LEMMA Mine ==
  ASSUME IInv, NEW s \in Scans, Step(s)
  PROVE  /\ s \in Active
         /\ \A t \in Scans \ {s} : t \notin Active
         /\ \A l \in Lists : \A i \in DOMAIN temp[l] : temp[l][i] = s
         /\ HasCurrent(s) => cursor[s].at \in DOMAIN temp[cursor[s].list] /\ Current(s) = s
<1>1. s \in Active
  BY DEF Step, Acquire, Cleanup, MakeDirectory, WriteAskpass, StartClone, EndClone, EndSshClone,
         Checkout, Read, Graph, RemoveDirectory, RemoveAskpass, ClearList,
         Active, Acquiring, Reading, Cleaning
<1>2. /\ \A t \in Scans \ {s} : t \notin Active
      /\ \A l \in Lists : \A i \in DOMAIN temp[l] : temp[l][i] = s
  BY <1>1 DEF IInv, Alone
<1>3. HasCurrent(s) => cursor[s].at \in DOMAIN temp[cursor[s].list] /\ Current(s) = s
  <2>1. temp[cursor[s].list] \in Seq(Scans) /\ cursor[s].at \in Nat \ {0} /\ cursor[s].list \in Lists
    BY DEF IInv, TypeOK
  <2> QED
    BY <1>2, <2>1 DEF HasCurrent, Current
<1> QED
  BY <1>1, <1>2, <1>3

(* It changes nothing for the others. *)
LEMMA OthersKeep ==
  ASSUME IInv, TypeOK', NEW s \in Scans, Step(s), NEW t \in Scans \ {s}
  PROVE  t \notin Active' /\ Owns(t)' /\ Knows(t)'
<1>1. /\ pc'[t] = pc[t] /\ content'[t] = content[t] /\ helper'[t] = helper[t]
      /\ cursor'[t] = cursor[t] /\ saw'[t] = saw[t] /\ outcome'[t] = outcome[t]
  <2> USE DEF IInv, TypeOK, Goto, Content
  <2>1. CASE Acquire(s)
    <3>1. CASE MakeDirectory(s) \/ WriteAskpass(s)
      BY <3>1 DEF MakeDirectory, WriteAskpass
    <3>2. CASE StartClone(s) \/ Checkout(s)
      BY <3>2 DEF StartClone, Checkout
    <3>3. CASE EndClone(s)
      BY <3>3 DEF EndClone, GitSucceeds
    <3>4. CASE EndSshClone(s)
      BY <3>4 DEF EndSshClone, GitSucceeds
    <3> QED
      BY <2>1, <3>1, <3>2, <3>3, <3>4 DEF Acquire
  <2>2. CASE Read(s) \/ Graph(s)
    BY <2>2 DEF Read, Graph
  <2>3. CASE RemoveDirectory(s)
    <3>1. Current(s) = s
      BY <2>3, Mine DEF RemoveDirectory
    <3> QED
      BY <2>3, <3>1 DEF RemoveDirectory, Advance
  <2>4. CASE RemoveAskpass(s)
    BY <2>4, Mine DEF RemoveAskpass, Advance
  <2>5. CASE ClearList(s)
    BY <2>5 DEF ClearList
  <2> QED
    BY <2>1, <2>2, <2>3, <2>4, <2>5 DEF Step, Cleanup
<1>2. t \notin Active /\ t \notin Active'
  BY <1>1, Mine DEF Active
<1>3. Owns(t)'
  BY <1>1, <1>2 DEF IInv, Owns
<1>4. Knows(t)'
  <2>1. Knows(t) /\ pc[t] \notin Cleaning /\ cursor[t] = FirstItem
    BY <1>2 DEF IInv, Knows, Active
  <2> QED
    BY <1>1, <2>1 DEF Knows, WholeTree, FirstItem
<1> QED
  BY <1>2, <1>3, <1>4

(* What is left to show of a step: the scan's own part. *)
LEMMA OwnPart ==
  ASSUME IInv, TypeOK', NEW s \in Scans, Step(s),
         \A l \in Lists : \A i \in DOMAIN temp'[l] : temp'[l][i] = s,
         pc'[s] \in Acquiring \union Reading \union Cleaning \/ \A l \in Lists : temp'[l] = << >>,
         Owns(s)', Knows(s)'
  PROVE  IInv'
<1>1. \A t \in Scans \ {s} : t \notin Active' /\ Owns(t)' /\ Knows(t)'
  BY OthersKeep
<1>2. \A l \in Lists : \A i \in DOMAIN temp'[l] : s \in Active'
  BY DEF Active
<1>3. Active' \subseteq {s}
  BY <1>1 DEF Active
<1>4. Alone'
  BY <1>2, <1>3 DEF Alone
<1>5. \A t \in Scans : Owns(t)' /\ Knows(t)'
  BY <1>1
<1> QED
  BY <1>4, <1>5 DEF IInv

(* Acquiring: the directory and the helper are registered as they are made. *)
LEMMA AcquireStep ==
  ASSUME IInv, TypeOK', NEW s \in Scans, Acquire(s)
  PROVE  IInv'
<1>1. Step(s) /\ Knows(s) /\ Owns(s) /\ TypeOK
  BY DEF Step, IInv
<1>2. \A l \in Lists : \A i \in DOMAIN temp[l] : temp[l][i] = s
  BY <1>1, Mine
<1>3. "dirs" \in Lists /\ "files" \in Lists /\ FirstItem.list = "dirs" /\ FirstItem.at = 1
  BY DEF Lists, FirstItem
<1> USE <1>1 DEF Goto, Content
<1>4. CASE MakeDirectory(s)
  <2>1. /\ pc[s] = "mkdir" /\ pc'[s] \in {"askpass", "clone"} /\ cursor[s] = FirstItem
        /\ content'[s] = "empty" /\ Register("dirs", s)
        /\ UNCHANGED <<helper, cursor, saw, outcome>>
    BY <1>4 DEF MakeDirectory, Knows, Cleaning, TypeOK
  <2>2. \A l \in Lists : \A i \in DOMAIN temp'[l] : temp'[l][i] = s
    BY ONLY TypeOK, s \in Scans, <1>2, <1>3, <2>1, RegisterOwn
  <2>3. s \in Active'
    BY <2>1 DEF Active, Acquiring
  <2>4. Pending(s, "dirs")'
    BY <1>3, <2>1, RegisterFacts DEF Pending
  <2>5. Pending(s, "files") => Pending(s, "files")'
    BY <1>3, <2>1, RegisterFacts DEF Pending, Lists
  <2>6. Owns(s)'
    BY <1>3, <2>1, <2>3, <2>4, <2>5 DEF Owns
  <2>7. Knows(s)'
    BY <1>3, <2>1 DEF Knows, Cleaning, Reading, WholeTree
  <2> QED
    BY <2>1, <2>2, <2>6, <2>7, OwnPart DEF Acquiring
<1>5. CASE WriteAskpass(s)
  <2>1. /\ pc[s] = "askpass" /\ pc'[s] = "clone" /\ cursor[s] = FirstItem
        /\ content[s] = "empty" /\ Register("files", s)
        /\ UNCHANGED <<content, cursor, saw, outcome>>
    BY <1>5 DEF WriteAskpass, Knows, Cleaning, TypeOK
  <2>2. \A l \in Lists : \A i \in DOMAIN temp'[l] : temp'[l][i] = s
    BY ONLY TypeOK, s \in Scans, <1>2, <1>3, <2>1, RegisterOwn
  <2>3. s \in Active'
    BY <2>1 DEF Active, Acquiring
  <2>4. Pending(s, "files")'
    BY <1>3, <2>1, RegisterFacts DEF Pending
  <2>5. Pending(s, "dirs") => Pending(s, "dirs")'
    BY <1>3, <2>1, RegisterFacts DEF Pending, Lists
  <2>6. Owns(s)'
    BY <1>3, <2>1, <2>3, <2>4, <2>5 DEF Owns
  <2>7. Knows(s)'
    BY <1>3, <2>1 DEF Knows, Cleaning, Reading, WholeTree
  <2> QED
    BY <2>1, <2>2, <2>6, <2>7, OwnPart DEF Acquiring
<1>6. CASE StartClone(s) \/ EndClone(s) \/ EndSshClone(s) \/ Checkout(s)
  <2>1. /\ content[s] \in {"empty", "full"} \/ content'[s] = content[s]
        /\ UNCHANGED <<temp, helper, cursor, saw>> /\ cursor[s] = FirstItem
    BY <1>6 DEF StartClone, EndClone, EndSshClone, Checkout, Knows, Cleaning, WholeTree
  <2>2. \/ pc'[s] \in {"cloning", "sshing"} /\ content'[s] = "empty" /\ UNCHANGED outcome
        \/ pc'[s] = "checkout" /\ content'[s] = "full" /\ UNCHANGED outcome
        \/ pc'[s] = "read" /\ WholeTree(s) /\ content'[s] = content[s] /\ UNCHANGED outcome
        \/ pc'[s] = "abort" /\ content'[s] = content[s] /\ UNCHANGED outcome
        \/ pc'[s] = "finally" /\ content'[s] = content[s] /\ outcome'[s] = "failed"
    BY <1>6 DEF StartClone, EndClone, EndSshClone, GitSucceeds, Checkout, TypeOK, Knows, Reading
  <2>3. outcome[s] # "completed"
    BY <1>6 DEF StartClone, EndClone, EndSshClone, Checkout, Knows
  <2>4. s \in Active /\ s \in Active'
    BY <1>1, <2>2, Mine DEF Active, Acquiring, Reading, Cleaning
  <2>5. Owns(s)'
    BY <2>1, <2>2, <2>4 DEF Owns, Pending, WholeTree
  <2>6. Knows(s)'
    BY <2>1, <2>2, <2>3 DEF Knows, Cleaning, Reading, WholeTree
  <2> QED
    BY <1>2, <2>1, <2>2, <2>5, <2>6, OwnPart DEF Acquiring, Reading, Cleaning
<1> QED
  BY <1>4, <1>5, <1>6 DEF Acquire

(* Reading: the tree is whole at every pass. *)
LEMMA ReadStep ==
  ASSUME IInv, TypeOK', NEW s \in Scans, Read(s) \/ Graph(s)
  PROVE  IInv'
<1>1. Step(s) /\ Knows(s) /\ Owns(s) /\ TypeOK
  BY DEF Step, IInv
<1>2. \A l \in Lists : \A i \in DOMAIN temp'[l] : temp'[l][i] = s
  BY <1>1, Mine DEF Read, Graph
<1>3. /\ WholeTree(s) /\ cursor[s] = FirstItem /\ content[s] # "none"
      /\ UNCHANGED <<content, helper, temp, cursor>>
      /\ \/ pc'[s] = "graph" /\ saw'[s] = TRUE /\ pc[s] = "read" /\ outcome' = outcome
         \/ pc'[s] = "finally" /\ saw'[s] = TRUE /\ outcome'[s] = "completed"
  BY <1>1 DEF Read, Graph, Goto, Knows, Reading, Cleaning, WholeTree, TypeOK
<1>4. s \in Active /\ s \in Active' /\ pc'[s] \in Acquiring \union Reading \union Cleaning
  BY <1>1, <1>3, Mine DEF Active, Reading, Cleaning
<1>5. Owns(s)'
  BY <1>1, <1>3, <1>4 DEF Owns, Pending
<1>6. Knows(s)'
  BY <1>1, <1>3 DEF Knows, Cleaning, Reading, WholeTree
<1> QED
  BY <1>1, <1>2, <1>4, <1>5, <1>6, OwnPart

(* Removing: what the walk passes is gone from the disk. *)
LEMMA RemoveStep ==
  ASSUME IInv, TypeOK', NEW s \in Scans, RemoveDirectory(s) \/ RemoveAskpass(s)
  PROVE  IInv'
<1>1. Step(s) /\ Knows(s) /\ Owns(s) /\ TypeOK
  BY DEF Step, Cleanup, IInv
<1>2. /\ Current(s) = s /\ pc[s] \in Cleaning
      /\ s \in Active
      /\ UNCHANGED <<pc, temp, saw, outcome>>
  BY <1>1, Mine DEF RemoveDirectory, RemoveAskpass
<1>3. \A l \in Lists : \A i \in DOMAIN temp'[l] : temp'[l][i] = s
  BY <1>1, <1>2, Mine
<1>4. s \in Active' /\ pc'[s] \in Acquiring \union Reading \union Cleaning
  BY <1>2 DEF Active
<1>5. CASE RemoveDirectory(s)
  <2>1. /\ cursor[s].list = "dirs" /\ helper' = helper
        /\ \/ content[s] = "full" /\ content'[s] = "hollow" /\ cursor' = cursor
           \/ content'[s] = "none" /\ Advance(s)
    BY <1>2, <1>5 DEF RemoveDirectory, Content, TypeOK
  <2>2. CASE content[s] = "full" /\ content'[s] = "hollow" /\ cursor' = cursor
    <3>1. Owns(s)' /\ Knows(s)'
      BY <1>1, <1>2, <1>4, <2>1, <2>2 DEF Owns, Knows, Pending, Cleaning, Reading
    <3> QED
      BY <1>1, <1>3, <1>4, <3>1, OwnPart
  <2>3. CASE content'[s] = "none" /\ Advance(s)
    <3>1. cursor'[s].list = "dirs"
      <4>1. cursor'[s] = [list |-> cursor[s].list, at |-> cursor[s].at + 1]
        BY ONLY <1>1, <2>3, AdvanceType, s \in Scans
      <4> QED
        BY <2>1, <4>1
    <3>2. Owns(s)'
      BY <1>1, <1>2, <1>4, <2>1, <2>3, <3>1 DEF Owns, Pending
    <3>3. Knows(s)'
      BY <1>1, <1>2, <2>3, <3>1 DEF Knows, Cleaning, Reading
    <3> QED
      BY <1>1, <1>3, <1>4, <3>2, <3>3, OwnPart
  <2> QED
    BY <2>1, <2>2, <2>3
<1>6. CASE RemoveAskpass(s)
  <2>1. cursor[s].list = "files" /\ content' = content /\ helper'[s] = "directory"
        /\ cursor'[s].list = "files"
    BY <1>1, <1>2, <1>6, AdvanceType DEF RemoveAskpass, TypeOK
  <2>2. Owns(s)'
    BY <1>1, <2>1 DEF Owns
  <2>3. Knows(s)'
    BY <1>1, <1>2, <2>1 DEF Knows, Cleaning, Reading
  <2> QED
    BY <1>1, <1>3, <1>4, <2>2, <2>3, OwnPart
<1> QED
  BY <1>5, <1>6

(* Clearing: a finished walk has passed everything the list held. *)
LEMMA ClearStep ==
  ASSUME IInv, TypeOK', NEW s \in Scans, ClearList(s)
  PROVE  IInv'
<1>1. Step(s) /\ Knows(s) /\ Owns(s) /\ TypeOK
  BY DEF Step, Cleanup, IInv
<1>2. /\ pc[s] \in Cleaning /\ ~HasCurrent(s) /\ s \in Active
      /\ UNCHANGED <<content, helper, saw>>
  BY <1>1, Mine DEF ClearList
<1>3. ~Pending(s, cursor[s].list)
  <2>1. temp[cursor[s].list] \in Seq(Scans) /\ cursor[s].at \in Nat \ {0}
    BY <1>1 DEF TypeOK
  <2> QED
    BY <1>2, <2>1 DEF Pending, HasCurrent
<1>4. /\ temp'[cursor[s].list] = << >>
      /\ \A l \in Lists : temp'[l] = temp[l] \/ temp'[l] = << >>
  BY <1>1 DEF ClearList, TypeOK
<1>5. \A l \in Lists : \A i \in DOMAIN temp'[l] : temp'[l][i] = s
  BY <1>1, <1>4, Mine
<1>6. CASE cursor[s].list = "dirs"
  <2>1. cursor'[s] = [list |-> "files", at |-> 1] /\ pc' = pc /\ outcome' = outcome
        /\ temp' = [temp EXCEPT !["dirs"] = << >>]
    BY <1>1, <1>6 DEF ClearList, TypeOK
  <2>2. content[s] \in {"none", "local"}
    BY <1>1, <1>3, <1>6 DEF Owns, TypeOK
  <2>3. helper[s] = "script" => s \in Active' /\ Pending(s, "files")'
    <3>1. temp'["files"] = temp["files"] /\ "files" \in Lists
      BY <1>1, <2>1 DEF TypeOK, Lists
    <3>2. \A i \in DOMAIN temp["files"] : i >= 1
      BY <1>1, <3>1 DEF TypeOK
    <3> QED
      BY <1>1, <2>1, <3>1, <3>2 DEF Owns, Pending, Active
  <2>4. Owns(s)'
    BY <1>2, <2>2, <2>3 DEF Owns
  <2>5. Knows(s)'
    BY <1>1, <1>2, <1>4, <1>6, <2>1, <2>2 DEF Knows, Cleaning, Reading
  <2> QED
    BY <1>1, <1>2, <1>5, <2>1, <2>4, <2>5, OwnPart
<1>7. CASE cursor[s].list = "files"
  <2>1. /\ cursor'[s] = FirstItem /\ pc'[s] \in {"finally", "done"}
        /\ outcome'[s] = "completed" => outcome[s] = "completed"
        /\ pc[s] = "abort" => outcome'[s] = "failed"
    BY <1>1, <1>2, <1>7 DEF ClearList, Goto, TypeOK, Cleaning
  <2>2. \A l \in Lists : temp'[l] = << >>
    BY <1>1, <1>4, <1>7 DEF Knows, Lists
  <2>3. content[s] \in {"none", "local"} /\ helper[s] # "script"
    BY <1>1, <1>3, <1>7 DEF Owns, TypeOK
  <2>4. Owns(s)'
    BY <1>2, <2>3 DEF Owns
  <2>5. Knows(s)'
    BY <1>1, <1>2, <2>1, <2>2, <2>3 DEF Knows, Cleaning, Reading, FirstItem, Lists
  <2> QED
    BY <1>1, <1>5, <2>2, <2>4, <2>5, OwnPart
<1> QED
  BY <1>1, <1>6, <1>7 DEF TypeOK, Lists

(* Beginning: with room for one scan there is no other. *)
LEMMA BeginStep ==
  ASSUME MaxConcurrent = 1, IInv, TypeOK', NEW s \in Scans, Begin(s)
  PROVE  IInv'
<1>1. Active = {}
  <2>1. IsFiniteSet(Active)
    BY WorkspacesAssumption, FS_Subset DEF Active
  <2>2. Cardinality(Active) \in Nat /\ Cardinality(Active) < 1
    BY <2>1, FS_CardinalityType DEF Begin
  <2> QED
    BY <2>1, <2>2, FS_EmptySet
<1>2. /\ pc'[s] \in {"mkdir", "read"} /\ \A t \in Scans \ {s} : pc'[t] = pc[t]
      /\ pc'[s] = "read" => content'[s] = "local"
      /\ pc'[s] = "mkdir" => content'[s] = content[s]
      /\ \A t \in Scans \ {s} : content'[t] = content[t]
      /\ pc[s] = "waiting"
      /\ UNCHANGED <<helper, temp, cursor, saw, outcome>>
  BY DEF Begin, Goto, Content, IInv, TypeOK
<1>3. Active' \subseteq {s}
  BY <1>1, <1>2 DEF Active
<1>4. \A l \in Lists : DOMAIN temp[l] = {}
  BY <1>1 DEF IInv, Alone
<1>5. Alone'
  BY <1>2, <1>3, <1>4 DEF Alone
<1>6. \A t \in Scans : Owns(t)'
  BY <1>1, <1>2 DEF IInv, Owns
<1>7. ASSUME NEW t \in Scans PROVE Knows(t)'
  <2>1. Knows(t) /\ content[t] \notin {"empty", "full", "hollow"}
    BY <1>1 DEF IInv, Owns
  <2> QED
    BY <1>2, <2>1 DEF Knows, WholeTree, Cleaning, Reading
<1> QED
  BY <1>5, <1>6, <1>7 DEF IInv

-----------------------------------------------------------------------------
(* With one thread the invariant holds of every reachable state. *)
THEOREM Invariance == ASSUME MaxConcurrent = 1 PROVE Spec => []IInv
<1>1. Init => IInv
  BY DEF Init, IInv, TypeOK, Alone, Owns, Knows, Active, Acquiring, Reading, Cleaning, Lists,
         FirstItem
<1>2. IInv /\ [Next]_vars => IInv'
  <2> SUFFICES ASSUME IInv, [Next]_vars PROVE IInv'
    OBVIOUS
  <2>1. TypeOK'
    BY TypeStep DEF IInv
  <2>2. CASE UNCHANGED vars
    BY <2>2 DEF vars, IInv, TypeOK, Alone, Owns, Knows, Active, Pending, WholeTree
  <2> QED
    BY <2>1, <2>2, AcquireStep, ReadStep, RemoveStep, ClearStep, BeginStep, MaxConcurrent = 1
       DEF Next, Step, Cleanup
<1> QED
  BY <1>1, <1>2, PTL DEF Spec

(* Every value of every variable has its type, whatever the concurrency. *)
THEOREM TypeCorrect == Spec => []TypeOK
<1>1. Init => TypeOK
  BY DEF Init, TypeOK, Lists, FirstItem
<1> QED
  BY <1>1, TypeStep, PTL DEF Spec

(* With one thread no scan loses its tree while it reads it. *)
THEOREM AloneIsolated == ASSUME MaxConcurrent = 1 PROVE Spec => []Isolated
<1>1. IInv => Isolated
  BY DEF IInv, Knows, Isolated
<1> QED
  BY <1>1, Invariance, MaxConcurrent = 1, PTL

(* With one thread a completed scan has read the whole tree. *)
THEOREM AloneComplete == ASSUME MaxConcurrent = 1 PROVE Spec => []NoSilentLoss
<1>1. IInv => NoSilentLoss
  BY DEF IInv, Knows, NoSilentLoss
<1> QED
  BY <1>1, Invariance, MaxConcurrent = 1, PTL

(* With one thread nothing is left once no scan runs. *)
THEOREM AloneTidy == ASSUME MaxConcurrent = 1 PROVE Spec => []Tidy
<1>1. IInv => Tidy
  BY DEF IInv, Owns, Tidy, TypeOK
<1> QED
  BY <1>1, Invariance, MaxConcurrent = 1, PTL
=============================================================================
