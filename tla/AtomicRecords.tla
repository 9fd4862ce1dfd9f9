---------------------------- MODULE AtomicRecords ----------------------------
(***************************************************************************)
(* What ScanResultStore promises whoever shares its directory: a record is *)
(* replaced as a whole, and whoever looks at it sees a whole record, the   *)
(* one that is there at that instant.                                      *)
(***************************************************************************)
EXTENDS Naturals

CONSTANTS Ids, Readers, Versions

VARIABLES record,  \* the version of each record, 0 while there is none
          seen     \* what each reader has seen so far, id by id

arVars == <<record, seen>>

Nothing == [i \in {} |-> 0]

ARInit == record = [i \in Ids |-> 0] /\ seen = [t \in Readers |-> Nothing]

Replace(i, v) == record' = [record EXCEPT ![i] = v] /\ UNCHANGED seen

See(t, i) == /\ seen' = [seen EXCEPT ![t] = [k \in DOMAIN seen[t] \union {i} |->
                                                IF k = i THEN record[i] ELSE seen[t][k]]]
             /\ UNCHANGED record

(* Readers that are done, or whose process stopped, forget what they saw.   *)
Forget(T) == /\ seen' = [t \in Readers |-> IF t \in T THEN Nothing ELSE seen[t]]
             /\ UNCHANGED record

ARNext == \/ \E i \in Ids, v \in Versions : Replace(i, v)
          \/ \E t \in Readers, i \in Ids : See(t, i)
          \/ \E T \in SUBSET Readers : Forget(T)

ARSpec == ARInit /\ [][ARNext]_arVars
=============================================================================
