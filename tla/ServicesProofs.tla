---------------------------- MODULE ServicesProofs ----------------------------
(***************************************************************************)
(* The theorems about the services of MCServices, for any number of jobs,  *)
(* workers, events, editors and organisations, and for clocks, queues and  *)
(* counters of any bound.  The working copies and the webhook pipeline     *)
(* have proof modules of their own.                                        *)
(***************************************************************************)
EXTENDS MCServices, WorkspacesProofs, WebhookProofs, NaturalsInduction

-----------------------------------------------------------------------------
(* What a scan takes.                                                       *)

(* The lease in the table is the one its owner was given last.              *)
LeaseIsGrant == lease.owner \in Scanners => lease.at = grant[lease.owner]

CapacityInv == CapacityTypeOK /\ LeaseHolds /\ LeaseIsGrant /\ SlotsAccounted

(* What is in the record of a worker. *)
LEMMA ScannerFields ==
  ASSUME CapacityTypeOK, NEW w \in Scanners
  PROVE  /\ scanner[w] \in [stage : ScannerStages, leaving : BOOLEAN, dead : BOOLEAN]
         /\ scanner[w].stage \in ScannerStages
         /\ grant[w] \in Nat
BY DEF CapacityTypeOK

(* A worker goes to a stage, and all others stay where they are. *)
GoesTo(w, s) ==
    /\ scanner' \in [Scanners -> [stage : ScannerStages, leaving : BOOLEAN, dead : BOOLEAN]]
    /\ scanner'[w].stage = s
    /\ \A v \in Scanners : v # w => scanner'[v] = scanner[v]

(* Entering a stage, turning back, dying and becoming idle are moves.       *)
LEMMA EnterGoes ==
  ASSUME CapacityTypeOK, NEW w \in Scanners, NEW s \in ScannerStages, Enter(w, s)
  PROVE  GoesTo(w, s)
BY DEF CapacityTypeOK, Enter, GoesTo

LEMMA TurnBackGoes ==
  ASSUME CapacityTypeOK, NEW w \in Scanners, TurnBack(w)
  PROVE  GoesTo(w, scanner[w].stage)
BY DEF CapacityTypeOK, TurnBack, GoesTo

LEMMA DieGoes ==
  ASSUME CapacityTypeOK, NEW w \in Scanners, Die(w)
  PROVE  GoesTo(w, scanner[w].stage)
BY DEF CapacityTypeOK, Die, GoesTo

LEMMA ReleaseGoes ==
  ASSUME CapacityTypeOK, NEW w \in Scanners, ReleaseLease(w)
  PROVE  GoesTo(w, "idle")
BY DEF CapacityTypeOK, ReleaseLease, GoesTo, ScannerStages

(* How many workers there are at some stages after a step.                  *)
BeyondNext(stages) == Cardinality({v \in Scanners : scanner'[v].stage \in stages})

(* The workers at some stages are finitely many; how their number changes   *)
(* when one of them moves.                                                  *)
LEMMA BeyondMoves ==
  ASSUME CapacityTypeOK, NEW w \in Scanners, NEW s \in ScannerStages, GoesTo(w, s),
         NEW stages
  PROVE  LET n == Beyond(stages)
             m == BeyondNext(stages)
             from == scanner[w].stage
         IN  /\ n \in Nat
             /\ from \in stages /\ s \in stages => m = n
             /\ from \notin stages /\ s \notin stages => m = n
             /\ from \notin stages /\ s \in stages => m = n + 1
             /\ from \in stages /\ s \notin stages => m = n - 1 /\ n > 0
<1> DEFINE before == {v \in Scanners : scanner[v].stage \in stages}
           after == {v \in Scanners : scanner'[v].stage \in stages}
           from == scanner[w].stage
<1>1. IsFiniteSet(before) /\ IsFiniteSet(after)
  BY FS_Subset, ScanCapacityAssumption
<1>2. from \in stages /\ s \in stages => after = before
  BY DEF GoesTo
<1>3. from \notin stages /\ s \notin stages => after = before
  BY DEF GoesTo
<1>4. from \notin stages /\ s \in stages => after = before \union {w} /\ w \notin before
  BY DEF GoesTo
<1>5. from \in stages /\ s \notin stages => after = before \ {w} /\ w \in before
  BY DEF GoesTo
<1> HIDE DEF before, after, from
<1>6. Cardinality(before) \in Nat /\ Cardinality(after) \in Nat
  BY <1>1, FS_CardinalityType
<1>7. w \notin before => Cardinality(before \union {w}) = Cardinality(before) + 1
  BY <1>1, FS_AddElement
<1>8. w \in before => Cardinality(before \ {w}) = Cardinality(before) - 1 /\ Cardinality(before) > 0
  BY <1>1, <1>6, FS_RemoveElement, FS_EmptySet
<1>9. /\ Cardinality(before) \in Nat
      /\ from \in stages /\ s \in stages => Cardinality(after) = Cardinality(before)
      /\ from \notin stages /\ s \notin stages => Cardinality(after) = Cardinality(before)
      /\ from \notin stages /\ s \in stages => Cardinality(after) = Cardinality(before) + 1
      /\ from \in stages /\ s \notin stages =>
             Cardinality(after) = Cardinality(before) - 1 /\ Cardinality(before) > 0
  BY <1>2, <1>3, <1>4, <1>5, <1>6, <1>7, <1>8
<1> QED
  BY <1>9, Zenon DEF before, after, from, Beyond, BeyondNext

(* Where a worker is there is one at least.                                 *)
LEMMA BeyondSome ==
  ASSUME NEW w \in Scanners, NEW stages, scanner[w].stage \in stages
  PROVE  Beyond(stages) \in Nat /\ Beyond(stages) > 0
<1> DEFINE S == {v \in Scanners : scanner[v].stage \in stages}
<1>1. IsFiniteSet(S) /\ w \in S
  BY FS_Subset, ScanCapacityAssumption
<1> HIDE DEF S
<1>2. Cardinality(S) \in Nat /\ Cardinality(S) # 0
  BY <1>1, FS_CardinalityType, FS_EmptySet
<1>3. Beyond(stages) = Cardinality(S)
  BY DEF Beyond, S
<1> QED
  BY <1>2, <1>3

(* How each step of a worker moves it. *)
LEMMA WorkerMoves ==
  ASSUME CapacityTypeOK, NEW w \in Scanners
  PROVE  /\ AcquireLease(w) => scanner[w].stage = "idle" /\ GoesTo(w, "leased")
         /\ AskAgain(w) => scanner[w].stage = "scanning" /\ (UNCHANGED scanner \/ GoesTo(w, "scanning"))
         /\ ReserveScanSlot(w) => scanner[w].stage = "leased" /\
               (\/ GoesTo(w, "reserved") /\ activeScans' = activeScans + 1 /\ dailyScans' = dailyScans + 1
                \/ GoesTo(w, "leased") /\ UNCHANGED <<activeScans, dailyScans>>)
         /\ AcquireSlot(w) => scanner[w].stage = "reserved" /\
               (\/ GoesTo(w, "pooled") /\ activeWorkers' = activeWorkers + 1
                \/ GoesTo(w, "reserved") /\ UNCHANGED activeWorkers)
         /\ EnterSandbox(w) => scanner[w].stage = "pooled" /\ GoesTo(w, "scanning")
         /\ ScanEnds(w) => scanner[w].stage = "scanning" /\ GoesTo(w, "scanning")
         /\ ExitSandbox(w) => scanner[w].stage = "scanning" /\ GoesTo(w, "pooled")
         /\ ReleaseSlot(w) => scanner[w].stage = "pooled" /\ GoesTo(w, "reserved")
         /\ ReleaseScanSlot(w) => scanner[w].stage = "reserved" /\ GoesTo(w, "leased")
         /\ ReleaseLease(w) => scanner[w].stage = "leased" /\ GoesTo(w, "idle")
         /\ Die(w) => scanner[w].stage # "idle" /\ GoesTo(w, scanner[w].stage)
<1>1. \A s \in ScannerStages : Enter(w, s) => GoesTo(w, s)
  BY EnterGoes
<1>2. TurnBack(w) => GoesTo(w, scanner[w].stage)
  BY TurnBackGoes
<1>3. Die(w) => scanner[w].stage # "idle" /\ GoesTo(w, scanner[w].stage)
  BY DieGoes DEF Die
<1>4. ReleaseLease(w) => scanner[w].stage = "leased" /\ GoesTo(w, "idle")
  BY ReleaseGoes DEF ReleaseLease, Leaving, IsAt
<1> QED
  BY <1>1, <1>2, <1>3, <1>4
     DEF AcquireLease, AskAgain, ReserveScanSlot, AcquireSlot, EnterSandbox, ScanEnds, ExitSandbox,
         ReleaseSlot, ReleaseScanSlot, Entering, Leaving, IsAt, ScannerStages

(* Who asks for a lease and has it, has it until it runs out; every other   *)
(* worker has lost it before, or keeps what it has.                         *)
LEMMA GrantKeeps ==
  ASSUME CapacityInv, NEW w \in Scanners, MayHave(w), Granted(w), UNCHANGED now,
         \A v \in Scanners : v # w => scanner'[v].stage = scanner[v].stage
  PROVE  LeaseHolds' /\ LeaseIsGrant' /\ lease' \in [owner : Scanners \union {NoScanner}, at : Nat]
         /\ grant' \in [Scanners -> Nat]
<1>s. /\ lease \in [owner : Scanners \union {NoScanner}, at : Nat] /\ grant \in [Scanners -> Nat]
      /\ now \in Nat /\ LeaseHolds /\ LeaseIsGrant /\ LeaseTTL \in Nat
  BY ScanCapacityAssumption DEF CapacityInv, CapacityTypeOK
<1>1. CASE lease.owner = w /\ ~Expired
  <2>1. UNCHANGED <<lease, grant>>
    BY <1>1 DEF Granted
  <2>2. lease.at = grant[w]
    BY <1>1, <1>s DEF LeaseIsGrant
  <2>3. lease = [owner |-> w, at |-> grant[w]]
    BY <1>1, <1>s, <2>2
  <2> QED
    BY <1>s, <2>1, <2>3 DEF LeaseHolds, LeaseIsGrant
<1>2. CASE ~(lease.owner = w /\ ~Expired)
  <2>1. lease' = [owner |-> w, at |-> now] /\ grant' = [grant EXCEPT ![w] = now]
    BY <1>2 DEF Granted
  <2>2. lease.owner = NoScanner \/ now >= lease.at + LeaseTTL
    BY <1>2 DEF MayHave, Expired
  <2>3. ASSUME NEW v \in Scanners, v # w, scanner[v].stage # "idle", now < grant[v] + LeaseTTL
        PROVE  FALSE
    <3>1. lease = [owner |-> v, at |-> grant[v]]
      BY <1>s, <2>3 DEF LeaseHolds
    <3>2. v # NoScanner
      BY ScanCapacityAssumption
    <3> QED
      BY <1>s, <2>2, <2>3, <3>1, <3>2
  <2>4. LeaseHolds'
    BY <1>s, <2>1, <2>3 DEF LeaseHolds
  <2>5. LeaseIsGrant'
    BY <1>s, <2>1 DEF LeaseIsGrant
  <2> QED
    BY <1>s, <2>1, <2>4, <2>5
<1> QED
  BY <1>1, <1>2

(* A worker that has no lease it could lose may do what it likes.           *)
LEMMA LeaseGoesOn ==
  ASSUME CapacityInv, UNCHANGED <<lease, grant>>, now' \in Nat, now <= now',
         \A v \in Scanners : scanner[v].stage = "idle" => scanner'[v].stage = "idle"
  PROVE  LeaseHolds' /\ LeaseIsGrant'
BY ScanCapacityAssumption DEF CapacityInv, CapacityTypeOK, LeaseHolds, LeaseIsGrant

LEMMA LeaseStep == CapacityInv /\ [CapacityNext]_capacityVars => LeaseHolds' /\ LeaseIsGrant'
<1> SUFFICES ASSUME CapacityInv, [CapacityNext]_capacityVars PROVE LeaseHolds' /\ LeaseIsGrant'
  OBVIOUS
<1>s. /\ CapacityTypeOK /\ now \in Nat
      /\ lease \in [owner : Scanners \union {NoScanner}, at : Nat] /\ NoScanner \notin Scanners
  BY ScanCapacityAssumption DEF CapacityInv, CapacityTypeOK
<1>1. ASSUME NEW w \in Scanners, AcquireLease(w) PROVE LeaseHolds' /\ LeaseIsGrant'
  BY <1>1, <1>s, WorkerMoves, GrantKeeps DEF AcquireLease, GoesTo
<1>2. ASSUME NEW w \in Scanners, AskAgain(w) PROVE LeaseHolds' /\ LeaseIsGrant'
  <2>1. UNCHANGED scanner \/ GoesTo(w, "scanning")
    BY <1>2, <1>s, WorkerMoves
  <2>2. scanner[w].stage = "scanning" /\ UNCHANGED now
    BY <1>2 DEF AskAgain, Entering, IsAt
  <2>3. \A v \in Scanners : scanner'[v].stage = scanner[v].stage
    BY <2>1, <2>2 DEF GoesTo
  <2>4. CASE MayHave(w) /\ Granted(w)
    BY <2>2, <2>3, <2>4, GrantKeeps
  <2>5. CASE UNCHANGED <<lease, grant>>
    BY <1>s, <2>2, <2>3, <2>5, LeaseGoesOn
  <2> QED
    BY <1>2, <2>4, <2>5 DEF AskAgain
<1>3. ASSUME NEW w \in Scanners, ReleaseLease(w) PROVE LeaseHolds' /\ LeaseIsGrant'
  <2>1. /\ lease' = IF lease.owner = w THEN NoLease ELSE lease
        /\ UNCHANGED <<grant, now>>
    BY <1>3 DEF ReleaseLease
  <2>2. GoesTo(w, "idle")
    BY <1>3, <1>s, WorkerMoves
  <2>3. LeaseHolds /\ LeaseIsGrant
    BY DEF CapacityInv
  <2>4. ASSUME NEW v \in Scanners, scanner'[v].stage # "idle", now < grant[v] + LeaseTTL
        PROVE  lease' = [owner |-> v, at |-> grant[v]]
    <3>1. v # w /\ scanner[v].stage # "idle"
      BY <2>2, <2>4 DEF GoesTo
    <3>2. lease = [owner |-> v, at |-> grant[v]]
      BY <2>3, <2>4, <3>1 DEF LeaseHolds
    <3> QED
      BY <2>1, <3>1, <3>2
  <2> QED
    BY <1>s, <2>1, <2>3, <2>4 DEF LeaseHolds, LeaseIsGrant, NoLease
<1>4. ASSUME NEW w \in Scanners,
             ReserveScanSlot(w) \/ AcquireSlot(w) \/ EnterSandbox(w) \/ ScanEnds(w) \/ ExitSandbox(w)
                 \/ ReleaseSlot(w) \/ ReleaseScanSlot(w) \/ Die(w)
      PROVE  LeaseHolds' /\ LeaseIsGrant'
  <2>1. UNCHANGED <<lease, grant, now>>
    BY <1>4 DEF ReserveScanSlot, AcquireSlot, EnterSandbox, ScanEnds, ExitSandbox, ReleaseSlot,
                ReleaseScanSlot, Die
  <2>2. scanner[w].stage # "idle" /\ \A v \in Scanners : v # w => scanner'[v] = scanner[v]
    BY <1>4, <1>s, WorkerMoves DEF GoesTo
  <2> QED
    BY <1>s, <2>1, <2>2, LeaseGoesOn
<1>5. ASSUME NEW n \in 1..MaxRunning, SetQuota(n) PROVE LeaseHolds' /\ LeaseIsGrant'
  BY <1>5, <1>s, LeaseGoesOn DEF SetQuota
<1>6. CASE LeaseTick
  BY <1>6, <1>s, LeaseGoesOn DEF LeaseTick
<1>7. CASE UNCHANGED capacityVars
  BY <1>7, <1>s, LeaseGoesOn DEF capacityVars
<1> QED
  BY <1>1, <1>2, <1>3, <1>4, <1>5, <1>6, <1>7 DEF CapacityNext

(* The counters follow a worker that moves: one that comes to hold a slot   *)
(* has counted it, one that gives it back has uncounted it.                 *)
LEMMA SlotsFollow ==
  ASSUME CapacityInv, NEW w \in Scanners, NEW s \in ScannerStages, GoesTo(w, s),
         NEW from, from = scanner[w].stage,
         activeScans' = IF from \in {"idle", "leased"} /\ s \notin {"idle", "leased"} THEN activeScans + 1
                        ELSE IF from \notin {"idle", "leased"} /\ s \in {"idle", "leased"}
                             THEN activeScans - 1 ELSE activeScans,
         activeWorkers' = IF from \notin {"pooled", "scanning"} /\ s \in {"pooled", "scanning"}
                          THEN activeWorkers + 1
                          ELSE IF from \in {"pooled", "scanning"} /\ s \notin {"pooled", "scanning"}
                               THEN activeWorkers - 1 ELSE activeWorkers,
         sandboxes' >= IF from # "scanning" /\ s = "scanning" THEN sandboxes + 1
                       ELSE IF from = "scanning" /\ s # "scanning" THEN sandboxes - 1 ELSE sandboxes,
         sandboxes' \in Int
  PROVE  /\ SlotsAccounted' /\ activeScans' \in Nat /\ activeWorkers' \in Nat /\ sandboxes' \in Nat
<1> DEFINE held1 == ScannerStages \ {"idle", "leased"}
           held2 == {"pooled", "scanning"}
           held3 == {"scanning"}
<1>s. /\ activeScans = Beyond(held1) /\ activeWorkers = Beyond(held2) /\ sandboxes >= Beyond(held3)
      /\ sandboxes \in Nat /\ CapacityTypeOK /\ from \in ScannerStages
  BY ScannerFields DEF CapacityInv, CapacityTypeOK, SlotsAccounted
<1>t. CapacityTypeOK
  BY DEF CapacityInv
<1> DEFINE n1 == Beyond(held1)
           n2 == Beyond(held2)
           n3 == Beyond(held3)
           m1 == BeyondNext(held1)
           m2 == BeyondNext(held2)
           m3 == BeyondNext(held3)
<1>1. /\ n1 \in Nat
      /\ from \in held1 /\ s \in held1 => m1 = n1
      /\ from \notin held1 /\ s \notin held1 => m1 = n1
      /\ from \notin held1 /\ s \in held1 => m1 = n1 + 1
      /\ from \in held1 /\ s \notin held1 => m1 = n1 - 1 /\ n1 > 0
  BY <1>t, BeyondMoves
<1>2. /\ n2 \in Nat
      /\ from \in held2 /\ s \in held2 => m2 = n2
      /\ from \notin held2 /\ s \notin held2 => m2 = n2
      /\ from \notin held2 /\ s \in held2 => m2 = n2 + 1
      /\ from \in held2 /\ s \notin held2 => m2 = n2 - 1 /\ n2 > 0
  BY <1>t, BeyondMoves
<1>3. /\ n3 \in Nat
      /\ from \in held3 /\ s \in held3 => m3 = n3
      /\ from \notin held3 /\ s \notin held3 => m3 = n3
      /\ from \notin held3 /\ s \in held3 => m3 = n3 + 1
      /\ from \in held3 /\ s \notin held3 => m3 = n3 - 1 /\ n3 > 0
  BY <1>t, BeyondMoves
<1>4. SlotsAccounted' <=> activeScans' = m1 /\ activeWorkers' = m2 /\ sandboxes' >= m3
  BY DEF SlotsAccounted, Beyond, BeyondNext
<1> HIDE DEF n1, n2, n3, m1, m2, m3
<1>5. activeScans = n1 /\ activeWorkers = n2 /\ sandboxes >= n3
  BY <1>s DEF n1, n2, n3
<1>6. activeScans' = m1 /\ activeScans' \in Nat
  BY <1>s, <1>1, <1>5
<1>7. activeWorkers' = m2 /\ activeWorkers' \in Nat
  BY <1>s, <1>2, <1>5
<1>8. sandboxes' >= m3 /\ sandboxes' \in Nat
  BY <1>s, <1>3, <1>5
<1> QED
  BY <1>4, <1>6, <1>7, <1>8

LEMMA SlotsStep ==
  ASSUME CapacityInv, [CapacityNext]_capacityVars
  PROVE  SlotsAccounted' /\ activeScans' \in Nat /\ activeWorkers' \in Nat /\ sandboxes' \in Nat
<1> DEFINE Goal == SlotsAccounted' /\ activeScans' \in Nat /\ activeWorkers' \in Nat /\ sandboxes' \in Nat
<1>s. /\ CapacityTypeOK /\ activeScans \in Nat /\ activeWorkers \in Nat /\ sandboxes \in Nat
      /\ SlotsAccounted
  BY DEF CapacityInv, CapacityTypeOK
<1>1. CASE UNCHANGED <<scanner, activeScans, activeWorkers, sandboxes>>
  BY <1>1, <1>s DEF SlotsAccounted, Beyond
<1>2. ASSUME NEW w \in Scanners,
             \/ AcquireLease(w) \/ AskAgain(w) \/ ReserveScanSlot(w) \/ AcquireSlot(w)
             \/ EnterSandbox(w) \/ ScanEnds(w) \/ ExitSandbox(w) \/ ReleaseSlot(w)
             \/ ReleaseScanSlot(w) \/ ReleaseLease(w) \/ Die(w)
      PROVE  Goal
  <2> DEFINE from == scanner[w].stage
  <2>1. from \in ScannerStages
    BY <1>s, ScannerFields
  <2>2. ASSUME GoesTo(w, from), UNCHANGED <<activeScans, activeWorkers, sandboxes>> PROVE Goal
    BY <1>s, <2>1, <2>2, SlotsFollow
  <2>3. CASE AcquireLease(w) \/ AskAgain(w) \/ ScanEnds(w) \/ ReleaseLease(w) \/ Die(w)
    <3>1. UNCHANGED <<activeScans, activeWorkers, sandboxes>>
      BY <2>3 DEF AcquireLease, AskAgain, ScanEnds, ReleaseLease, Die
    <3>2. CASE AcquireLease(w)
      <4>1. GoesTo(w, "leased") /\ from = "idle"
        BY <1>s, <3>2, WorkerMoves
      <4> QED
        BY <1>s, <3>1, <4>1, SlotsFollow DEF ScannerStages
    <3>3. CASE ReleaseLease(w)
      <4>1. GoesTo(w, "idle") /\ from = "leased"
        BY <1>s, <3>3, WorkerMoves
      <4> QED
        BY <1>s, <3>1, <4>1, SlotsFollow DEF ScannerStages
    <3>4. CASE AskAgain(w) \/ ScanEnds(w) \/ Die(w)
      <4>1. GoesTo(w, from) \/ UNCHANGED scanner
        BY <1>s, <3>4, WorkerMoves
      <4> QED
        BY <1>1, <2>2, <3>1, <4>1
    <3> QED
      BY <2>3, <3>2, <3>3, <3>4
  <2>4. CASE ReserveScanSlot(w)
    <3>1. from = "leased" /\ UNCHANGED <<activeWorkers, sandboxes>>
      BY <1>s, <2>4, WorkerMoves DEF ReserveScanSlot
    <3>2. CASE GoesTo(w, "reserved") /\ activeScans' = activeScans + 1
      BY <1>s, <3>1, <3>2, SlotsFollow DEF ScannerStages
    <3>3. CASE GoesTo(w, "leased") /\ UNCHANGED activeScans
      BY <2>2, <3>1, <3>3
    <3> QED
      BY <1>s, <2>4, <3>2, <3>3, WorkerMoves
  <2>5. CASE AcquireSlot(w)
    <3>1. from = "reserved" /\ UNCHANGED <<activeScans, sandboxes>>
      BY <1>s, <2>5, WorkerMoves DEF AcquireSlot
    <3>2. CASE GoesTo(w, "pooled") /\ activeWorkers' = activeWorkers + 1
      BY <1>s, <3>1, <3>2, SlotsFollow DEF ScannerStages
    <3>3. CASE GoesTo(w, "reserved") /\ UNCHANGED activeWorkers
      BY <2>2, <3>1, <3>3
    <3> QED
      BY <1>s, <2>5, <3>2, <3>3, WorkerMoves
  <2>6. CASE EnterSandbox(w)
    <3>1. /\ from = "pooled" /\ GoesTo(w, "scanning")
          /\ sandboxes' = sandboxes + 1 /\ UNCHANGED <<activeScans, activeWorkers>>
      BY <1>s, <2>6, WorkerMoves DEF EnterSandbox
    <3> QED
      BY <1>s, <3>1, SlotsFollow DEF ScannerStages
  <2>7. CASE ExitSandbox(w)
    <3>1. /\ from = "scanning" /\ GoesTo(w, "pooled")
          /\ sandboxes' \in {sandboxes - 1, sandboxes} /\ UNCHANGED <<activeScans, activeWorkers>>
      BY <1>s, <2>7, WorkerMoves DEF ExitSandbox
    <3> QED
      BY <1>s, <3>1, SlotsFollow DEF ScannerStages
  <2>8. CASE ReleaseSlot(w)
    <3>1. /\ from = "pooled" /\ GoesTo(w, "reserved")
          /\ activeWorkers' = Floored(activeWorkers) /\ UNCHANGED <<activeScans, sandboxes>>
      BY <1>s, <2>8, WorkerMoves DEF ReleaseSlot
    <3>2. activeWorkers > 0
      BY <1>s, <3>1, BeyondSome DEF SlotsAccounted, ScannerStages
    <3> QED
      BY <1>s, <3>1, <3>2, SlotsFollow DEF ScannerStages, Floored
  <2>9. CASE ReleaseScanSlot(w)
    <3>1. /\ from = "reserved" /\ GoesTo(w, "leased")
          /\ activeScans' = Floored(activeScans) /\ UNCHANGED <<activeWorkers, sandboxes>>
      BY <1>s, <2>9, WorkerMoves DEF ReleaseScanSlot
    <3>2. activeScans > 0
      BY <1>s, <3>1, BeyondSome DEF SlotsAccounted, ScannerStages
    <3> QED
      BY <1>s, <3>1, <3>2, SlotsFollow DEF ScannerStages, Floored
  <2> QED
    BY <1>2, <2>3, <2>4, <2>5, <2>6, <2>7, <2>8, <2>9
<1>3. (\E n \in 1..MaxRunning : SetQuota(n)) \/ LeaseTick \/ UNCHANGED capacityVars
          => UNCHANGED <<scanner, activeScans, activeWorkers, sandboxes>>
  BY DEF SetQuota, LeaseTick, capacityVars
<1> QED
  BY <1>1, <1>2, <1>3 DEF CapacityNext

LEMMA CapacityTypeStep == CapacityInv /\ [CapacityNext]_capacityVars => CapacityTypeOK'
<1> SUFFICES ASSUME CapacityInv, [CapacityNext]_capacityVars PROVE CapacityTypeOK'
  OBVIOUS
<1>s. CapacityTypeOK
  BY DEF CapacityInv
<1>1. activeScans' \in Nat /\ activeWorkers' \in Nat /\ sandboxes' \in Nat
  BY SlotsStep
<1>2. \/ /\ lease' \in [owner : Scanners \union {NoScanner}, at : Nat]
         /\ grant' \in [Scanners -> Nat]
         /\ scanner' \in [Scanners -> [stage : ScannerStages, leaving : BOOLEAN, dead : BOOLEAN]]
         /\ dailyScans' \in Nat /\ UNCHANGED <<quota, now>>
      \/ UNCHANGED <<lease, grant, scanner, dailyScans>> /\ quota' \in Nat /\ now' \in Nat
  <2> DEFINE Typed == /\ lease' \in [owner : Scanners \union {NoScanner}, at : Nat]
                      /\ grant' \in [Scanners -> Nat]
                      /\ scanner' \in [Scanners -> [stage : ScannerStages, leaving : BOOLEAN, dead : BOOLEAN]]
                      /\ dailyScans' \in Nat /\ UNCHANGED <<quota, now>>
  <2>0. /\ lease \in [owner : Scanners \union {NoScanner}, at : Nat] /\ grant \in [Scanners -> Nat]
        /\ scanner \in [Scanners -> [stage : ScannerStages, leaving : BOOLEAN, dead : BOOLEAN]]
        /\ dailyScans \in Nat /\ quota \in Nat /\ now \in Nat
    BY <1>s DEF CapacityTypeOK
  <2>1. ASSUME NEW w \in Scanners, AcquireLease(w) \/ AskAgain(w) PROVE Typed
    <3>1. UNCHANGED scanner \/ GoesTo(w, "leased") \/ GoesTo(w, "scanning")
      BY <1>s, <2>1, WorkerMoves
    <3>2. UNCHANGED <<quota, now, dailyScans>> /\ (Granted(w) \/ UNCHANGED <<lease, grant>>)
      BY <2>1 DEF AcquireLease, AskAgain
    <3>3. /\ lease' \in [owner : Scanners \union {NoScanner}, at : Nat]
          /\ grant' \in [Scanners -> Nat]
      BY <2>0, <3>2 DEF Granted
    <3> QED
      BY <2>0, <3>1, <3>2, <3>3 DEF GoesTo
  <2>2. ASSUME NEW w \in Scanners, ReserveScanSlot(w) PROVE Typed
    <3>1. \/ GoesTo(w, "reserved") /\ dailyScans' = dailyScans + 1
          \/ GoesTo(w, "leased") /\ UNCHANGED dailyScans
      BY <1>s, <2>2, WorkerMoves
    <3> QED
      BY <2>0, <2>2, <3>1 DEF GoesTo, ReserveScanSlot
  <2>3. ASSUME NEW w \in Scanners,
               AcquireSlot(w) \/ EnterSandbox(w) \/ ScanEnds(w) \/ ExitSandbox(w)
                   \/ ReleaseSlot(w) \/ ReleaseScanSlot(w) \/ ReleaseLease(w) \/ Die(w)
        PROVE  Typed
    <3>1. \E s : GoesTo(w, s)
      BY <1>s, <2>3, WorkerMoves
    <3>2. UNCHANGED <<quota, now, dailyScans, grant>> /\ lease' \in {lease, NoLease}
      BY <2>3 DEF AcquireSlot, EnterSandbox, ScanEnds, ExitSandbox, ReleaseSlot, ReleaseScanSlot,
                  ReleaseLease, Die
    <3> QED
      BY <2>0, <3>1, <3>2 DEF GoesTo, NoLease
  <2>4. ASSUME (\E n \in 1..MaxRunning : SetQuota(n)) \/ LeaseTick \/ UNCHANGED capacityVars
        PROVE  UNCHANGED <<lease, grant, scanner, dailyScans>> /\ quota' \in Nat /\ now' \in Nat
    BY <2>0, <2>4, ScanCapacityAssumption DEF SetQuota, LeaseTick, capacityVars
  <2> QED
    BY <2>1, <2>2, <2>3, <2>4 DEF CapacityNext
<1> QED
  BY <1>s, <1>1, <1>2 DEF CapacityTypeOK

LEMMA CapacityInvariant == CapacitySpec => []CapacityInv
<1>1. CapacityInit => CapacityInv
  <2> SUFFICES ASSUME CapacityInit PROVE CapacityInv
    OBVIOUS
  <2>1. CapacityTypeOK
    BY ScanCapacityAssumption DEF CapacityInit, CapacityTypeOK, ScannerStages, NoLease
  <2>2. \A w \in Scanners : scanner[w].stage = "idle"
    BY DEF CapacityInit
  <2>3. LeaseHolds /\ LeaseIsGrant
    BY <2>2, ScanCapacityAssumption DEF CapacityInit, LeaseHolds, LeaseIsGrant, NoLease
  <2>4. ASSUME NEW stages, "idle" \notin stages PROVE Beyond(stages) = 0
    <3>1. {w \in Scanners : scanner[w].stage \in stages} = {}
      BY <2>2, <2>4
    <3> QED
      BY <3>1, FS_EmptySet DEF Beyond
  <2>5. SlotsAccounted
    BY <2>4 DEF CapacityInit, SlotsAccounted
  <2> QED
    BY <2>1, <2>3, <2>5 DEF CapacityInv
<1>2. CapacityInv /\ [CapacityNext]_capacityVars => CapacityInv'
  BY CapacityTypeStep, LeaseStep, SlotsStep DEF CapacityInv
<1> QED
  BY <1>1, <1>2, PTL DEF CapacitySpec

(* A worker whose lease has not run out is alone on its repository          *)
(* (lock_manager.py), and the counters of QuotaManager and BulkheadManager  *)
(* are what the workers hold, for any number of workers, who may ask again, *)
(* be refused, come late or die with what they have.                        *)
THEOREM CapacityAlwaysKept == CapacitySpec => []CapacityKept
BY CapacityInvariant, PTL DEF CapacityInv, CapacityKept

-----------------------------------------------------------------------------
(* Integrations.                                                            *)

Breaker == [state : {"CLOSED", "OPEN", "HALF-OPEN"}, failures : Nat, last : Nat]

(* The breaker has counted every failure since the last answer, it is open  *)
(* after enough of them, and what calls the provider again after them       *)
(* has waited.                                                              *)
CountsInARow == inARow <= breaker.failures
OpenWhenFailing == ~sending /\ inARow >= FailureThreshold => breaker.state = "OPEN"
CalledAfterRecovery == sending /\ inARow >= FailureThreshold => sentAt > breaker.last + RecoveryTime
HealthyIsClosed == integration.status = "HEALTHY" => breaker.state = "CLOSED" /\ breaker.failures = 0

BreakerInv == /\ IntegrationTypeOK
              /\ CountsInARow /\ OpenWhenFailing /\ CalledAfterRecovery /\ HealthyIsClosed

LEMMA IntegrationTypeStep == IntegrationTypeOK /\ [IntegrationNext]_integrationVars => IntegrationTypeOK'
<1> SUFFICES ASSUME IntegrationTypeOK, [IntegrationNext]_integrationVars PROVE IntegrationTypeOK'
  OBVIOUS
<1>1. /\ breaker \in Breaker /\ wallClock \in Nat
      /\ integration \in [enabled : BOOLEAN, status : {"HEALTHY", "DEGRADED", "FAILED"}]
  BY DEF IntegrationTypeOK, Breaker
<1>2. breaker' \in Breaker
  <2>1. CASE Dispatch
    BY <1>1, <2>1 DEF Dispatch, Breaker
  <2>2. CASE SendSucceeds
    <3>1. breaker' = [breaker EXCEPT !.failures = 0, !.state = "CLOSED"]
      BY <2>2 DEF SendSucceeds
    <3> QED
      BY <1>1, <3>1 DEF Breaker
  <2>3. CASE SendRaises
    BY <1>1, <2>3 DEF SendRaises, Breaker
  <2>4. CASE RegisterIntegration
    BY <2>4 DEF RegisterIntegration, NewBreaker, Breaker
  <2>5. SendRefused \/ (\E on \in BOOLEAN : SetEnabled(on)) \/ DispatchTick \/ UNCHANGED integrationVars
            => UNCHANGED breaker
    BY DEF SendRefused, SetEnabled, DispatchTick, integrationVars
  <2> QED
    BY <1>1, <2>1, <2>2, <2>3, <2>4, <2>5 DEF IntegrationNext
<1>3. integration' \in [enabled : BOOLEAN, status : {"HEALTHY", "DEGRADED", "FAILED"}]
  <2>1. ASSUME NEW on \in BOOLEAN, SetEnabled(on)
        PROVE  integration' \in [enabled : BOOLEAN, status : {"HEALTHY", "DEGRADED", "FAILED"}]
    BY <1>1, <2>1 DEF SetEnabled
  <2>2. CASE RegisterIntegration
    BY <2>2 DEF RegisterIntegration
  <2>3. \/ UNCHANGED integration
        \/ \E s \in {"HEALTHY", "DEGRADED", "FAILED"} : integration' = [integration EXCEPT !.status = s]
        \/ \E on \in BOOLEAN : SetEnabled(on)
        \/ RegisterIntegration
    BY DEF IntegrationNext, Dispatch, SendSucceeds, SendRefused, SendRaises, DispatchTick, integrationVars
  <2> QED
    BY <1>1, <2>1, <2>2, <2>3
<1>4. checkpoint' \in {"none", "SYNCING", "COMPLETED", "FAILED"} /\ sending' \in BOOLEAN
  BY DEF IntegrationTypeOK, IntegrationNext, Dispatch, SendSucceeds, SendRefused, SendRaises, SetEnabled,
         RegisterIntegration, DispatchTick, integrationVars
<1>5. sentAt' \in Nat /\ inARow' \in Nat /\ wallClock' \in Nat
  BY DEF IntegrationTypeOK, IntegrationNext, Dispatch, SendSucceeds, SendRefused, SendRaises, SetEnabled,
         RegisterIntegration, DispatchTick, integrationVars
<1> QED
  BY <1>2, <1>3, <1>4, <1>5 DEF IntegrationTypeOK, Breaker

LEMMA BreakerStep ==
  BreakerInv /\ [IntegrationNext]_integrationVars
      => CountsInARow' /\ OpenWhenFailing' /\ CalledAfterRecovery' /\ HealthyIsClosed'
<1> DEFINE Goal == CountsInARow' /\ OpenWhenFailing' /\ CalledAfterRecovery' /\ HealthyIsClosed'
<1> SUFFICES ASSUME BreakerInv, [IntegrationNext]_integrationVars PROVE Goal
  OBVIOUS
<1> USE IntegrationAssumption DEF CountsInARow, OpenWhenFailing, CalledAfterRecovery, HealthyIsClosed
<1>s. /\ breaker \in Breaker /\ inARow \in Nat /\ wallClock \in Nat
      /\ integration \in [enabled : BOOLEAN, status : {"HEALTHY", "DEGRADED", "FAILED"}]
      /\ CountsInARow /\ OpenWhenFailing /\ CalledAfterRecovery /\ HealthyIsClosed
  BY DEF BreakerInv, IntegrationTypeOK, Breaker
<1>1. CASE Dispatch
  <2>1. /\ ~sending /\ UNCHANGED inARow
        /\ \/ /\ CanExecute /\ sending' = TRUE /\ sentAt' = wallClock /\ UNCHANGED integration
              /\ breaker' = [breaker EXCEPT !.state = IF @ = "OPEN" THEN "HALF-OPEN" ELSE @]
           \/ /\ UNCHANGED <<breaker, sending>>
              /\ integration' = [integration EXCEPT !.status = "DEGRADED"]
    BY <1>1 DEF Dispatch
  <2>2. CASE /\ CanExecute /\ sending' = TRUE /\ sentAt' = wallClock /\ UNCHANGED integration
             /\ breaker' = [breaker EXCEPT !.state = IF @ = "OPEN" THEN "HALF-OPEN" ELSE @]
    BY <1>s, <2>1, <2>2 DEF CanExecute, Breaker
  <2>3. CASE UNCHANGED <<breaker, sending>> /\ integration' = [integration EXCEPT !.status = "DEGRADED"]
    BY <1>s, <2>1, <2>3
  <2> QED
    BY <2>1, <2>2, <2>3
<1>2. CASE SendSucceeds
  BY <1>2, <1>s DEF SendSucceeds, Breaker
<1>3. CASE SendRefused
  BY <1>3, <1>s DEF SendRefused, Breaker
<1>4. CASE SendRaises
  BY <1>4, <1>s DEF SendRaises, Breaker
<1>5. ASSUME NEW on \in BOOLEAN, SetEnabled(on) PROVE Goal
  BY <1>5, <1>s DEF SetEnabled
<1>6. CASE RegisterIntegration
  BY <1>6 DEF RegisterIntegration, NewBreaker
<1>7. CASE DispatchTick
  BY <1>7, <1>s DEF DispatchTick
<1>8. CASE UNCHANGED integrationVars
  BY <1>8, <1>s DEF integrationVars
<1> QED
  BY <1>1, <1>2, <1>3, <1>4, <1>5, <1>6, <1>7, <1>8 DEF IntegrationNext

LEMMA BreakerInvariant == IntegrationSpec => []BreakerInv
<1>1. IntegrationInit => IntegrationTypeOK
  <2> SUFFICES ASSUME IntegrationInit PROVE IntegrationTypeOK
    OBVIOUS
  <2>1. breaker \in Breaker
    BY DEF IntegrationInit, NewBreaker, Breaker
  <2>2. /\ integration \in [enabled : BOOLEAN, status : {"HEALTHY", "DEGRADED", "FAILED"}]
        /\ sending \in BOOLEAN
    BY DEF IntegrationInit
  <2> QED
    BY <2>1, <2>2 DEF IntegrationInit, IntegrationTypeOK, Breaker
<1>2. IntegrationInit => CountsInARow /\ OpenWhenFailing /\ CalledAfterRecovery /\ HealthyIsClosed
  BY IntegrationAssumption
     DEF IntegrationInit, NewBreaker, CountsInARow, OpenWhenFailing, CalledAfterRecovery, HealthyIsClosed
<1>3. BreakerInv /\ [IntegrationNext]_integrationVars => BreakerInv'
  BY IntegrationTypeStep, BreakerStep DEF BreakerInv
<1> QED
  BY <1>1, <1>2, <1>3, PTL DEF IntegrationSpec, BreakerInv

-----------------------------------------------------------------------------
(* Alerts.                                                                  *)

Raised == {e \in Events : alerts[e].status # NoAlert}

(* An event was acted on once per window up to when it was seen last.       *)
SeenPaced == \A e \in Events :
    /\ seenAt[e] <= eventTime
    /\ seenAt[e] = 0 => accepted[e] = 0
    /\ accepted[e] * DedupWindow < seenAt[e] + DedupWindow

(* The index names the alert of each condition, which has a severity it was *)
(* reported with and none below.                                            *)
IndexTells ==
    /\ \A e \in Raised : alerts[e].condition = ConditionOf[e] /\ dedupIndex[ConditionOf[e]] = e
    /\ \A c \in Conditions : dedupIndex[c] # NoAlert <=> reported[c] # {}
    /\ \A c \in Conditions : dedupIndex[c] # NoAlert =>
          /\ dedupIndex[c] \in Raised /\ alerts[dedupIndex[c]].condition = c
          /\ alerts[dedupIndex[c]].weight \in reported[c]
          /\ \A n \in reported[c] : n <= alerts[dedupIndex[c]].weight

(* No severity is beyond all measure, so that the worst of some is one.     *)
WeightsBounded == \E n \in Nat : \A e \in Raised : alerts[e].weight <= n

(* The alerts of an incident are alerts.                                    *)
IncidentsRaised == \A i \in Incidents : incidents[i].alerts \subseteq Raised

AlertInv == /\ AlertTypeOK /\ eventTime > 0
            /\ SeenPaced /\ IndexTells /\ WeightsBounded /\ IncidentsRaised /\ IncidentsBacked

AlertRecord == [condition : Conditions, weight : Nat, status : AlertStatus]

(* What is known of an alert that was raised. *)
LEMMA RaisedFields ==
  ASSUME AlertTypeOK, NEW e \in Raised
  PROVE  e \in Events /\ alerts[e] \in AlertRecord /\ alerts[e].weight \in Nat
BY AlertChainAssumption DEF AlertTypeOK, Alert, AlertRecord, Raised

(* What a report does: it raises the first alert of its condition, or the   *)
(* severity of the one there is.                                            *)
RaisesFirst(e) ==
    /\ dedupIndex[ConditionOf[e]] = NoAlert
    /\ alerts' = [alerts EXCEPT ![e] = [condition |-> ConditionOf[e], weight |-> WeightOf[e],
                                        status |-> "OPEN"]]
    /\ dedupIndex' = [dedupIndex EXCEPT ![ConditionOf[e]] = e]

RaisesWeight(a, n) ==
    /\ alerts' = [alerts EXCEPT ![a].weight = n]
    /\ UNCHANGED dedupIndex

(* A status is set, a severity rises: what an alert is about stays.         *)
LEMMA AlertChanged ==
  ASSUME AlertTypeOK, NEW a \in Raised,
         \/ \E n \in Nat : alerts' = [alerts EXCEPT ![a].weight = n]
         \/ \E s \in AlertStatus : alerts' = [alerts EXCEPT ![a].status = s]
  PROVE  /\ alerts' \in [Events -> Alert] /\ Raised' = Raised
         /\ \A e \in Raised : alerts'[e].condition = alerts[e].condition
         /\ \A e \in Raised : e # a => alerts'[e] = alerts[e]
<1>1. a \in Events /\ alerts[a] \in AlertRecord /\ alerts \in [Events -> Alert]
  BY RaisedFields DEF AlertTypeOK
<1>2. NoAlert \notin AlertStatus
  BY AlertChainAssumption
<1>3. ASSUME NEW n \in Nat, alerts' = [alerts EXCEPT ![a].weight = n]
      PROVE  alerts'[a] \in AlertRecord /\ alerts'[a].condition = alerts[a].condition
  BY <1>1, <1>3 DEF AlertRecord
<1>4. ASSUME NEW s \in AlertStatus, alerts' = [alerts EXCEPT ![a].status = s]
      PROVE  alerts'[a] \in AlertRecord /\ alerts'[a].condition = alerts[a].condition
  BY <1>1, <1>4 DEF AlertRecord
<1>5. alerts'[a] \in AlertRecord /\ alerts'[a].condition = alerts[a].condition
  BY <1>3, <1>4
<1>6. /\ DOMAIN alerts' = Events /\ alerts' = [e \in Events |-> alerts'[e]]
      /\ \A e \in Events : e # a => alerts'[e] = alerts[e]
  BY <1>1
<1>7. alerts' \in [Events -> Alert]
  BY <1>1, <1>5, <1>6 DEF Alert, AlertRecord
<1>8. alerts'[a].status # NoAlert
  BY <1>2, <1>5 DEF AlertRecord
<1> QED
  BY <1>1, <1>5, <1>6, <1>7, <1>8 DEF Raised

(* An incident stays backed while its alerts are about what they were about *)
(* and none of them becomes less severe.                                    *)
LEMMA IncidentsGoOn ==
  ASSUME AlertInv, UNCHANGED incidents,
         \A e \in Raised : /\ e \in Raised' /\ alerts'[e].condition = alerts[e].condition
                           /\ alerts'[e].weight \in Nat /\ alerts[e].weight <= alerts'[e].weight
  PROVE  IncidentsRaised' /\ IncidentsBacked'
<1>s. /\ \A i \in Incidents : incidents[i].alerts \subseteq Raised /\ incidents[i].weight \in Nat
      /\ \A e \in Raised : alerts[e].weight \in Nat
      /\ IncidentsBacked
  BY RaisedFields DEF AlertInv, AlertTypeOK, IncidentsRaised
<1>1. IncidentsRaised'
  BY <1>s DEF IncidentsRaised
<1>2. IncidentsBacked'
  <2> SUFFICES ASSUME NEW i \in Incidents, incidents[i] # NoIncident
               PROVE  /\ \E e \in incidents[i].alerts : incidents[i].weight <= alerts'[e].weight
                      /\ \A e, f \in incidents[i].alerts :
                            RepositoryOf[alerts'[e].condition] = RepositoryOf[alerts'[f].condition]
    BY DEF IncidentsBacked, RepoOfAlert
  <2>1. /\ \E e \in incidents[i].alerts : incidents[i].weight <= alerts[e].weight
        /\ \A e, f \in incidents[i].alerts :
              RepositoryOf[alerts[e].condition] = RepositoryOf[alerts[f].condition]
    BY <1>s DEF IncidentsBacked, RepoOfAlert
  <2>2. PICK e \in incidents[i].alerts : incidents[i].weight <= alerts[e].weight
    BY <2>1
  <2>3. incidents[i].weight <= alerts'[e].weight
    BY <1>s, <2>2
  <2> QED
    BY <1>s, <2>1, <2>3
<1> QED
  BY <1>1, <1>2

LEMMA ReportStep ==
  ASSUME AlertInv, NEW e \in Events, Reported(e), UNCHANGED incidents
  PROVE  /\ alerts' \in [Events -> Alert]
         /\ dedupIndex' \in [Conditions -> Events \union {NoAlert}]
         /\ dedupIndex'[ConditionOf[e]] \in Events
         /\ reported' \in [Conditions -> SUBSET Nat]
         /\ IndexTells' /\ WeightsBounded' /\ IncidentsRaised' /\ IncidentsBacked'
<1> DEFINE c == ConditionOf[e]
           n == WeightOf[e]
           known == dedupIndex[c]
<1>s. /\ alerts \in [Events -> Alert] /\ dedupIndex \in [Conditions -> Events \union {NoAlert}]
      /\ reported \in [Conditions -> SUBSET Nat] /\ AlertTypeOK
      /\ c \in Conditions /\ n \in Nat /\ NoAlert \notin Events /\ NoAlert \notin AlertStatus
      /\ IndexTells
  BY AlertChainAssumption DEF AlertInv, AlertTypeOK
<1>w. \A a \in Raised : a \in Events /\ alerts[a] \in AlertRecord /\ alerts[a].weight \in Nat
  BY <1>s, RaisedFields
<1>1. reported' = [reported EXCEPT ![c] = @ \union {n}] /\ reported' \in [Conditions -> SUBSET Nat]
  BY <1>s DEF Reported
<1>2. PICK m \in Nat : \A a \in Raised : alerts[a].weight <= m
  BY DEF AlertInv, WeightsBounded
<1>3. m + n \in Nat /\ m <= m + n /\ n <= m + n
  BY <1>s
<1>4. CASE known = NoAlert
  <2> DEFINE r == [condition |-> c, weight |-> n, status |-> "OPEN"]
  <2>1. alerts' = [alerts EXCEPT ![e] = r] /\ dedupIndex' = [dedupIndex EXCEPT ![c] = e]
    BY <1>4 DEF Reported
  <2>2. e \notin Raised
    BY <1>4, <1>s DEF IndexTells
  <2>3. r \in AlertRecord /\ r.condition = c /\ r.weight = n /\ r.status # NoAlert
    BY <1>s DEF AlertRecord, AlertStatus
  <2> HIDE DEF r
  <2>4. alerts' \in [Events -> Alert] /\ alerts'[e] = r /\ \A a \in Events : a # e => alerts'[a] = alerts[a]
    BY <1>s, <2>1, <2>3 DEF Alert, AlertRecord
  <2>5. Raised' = Raised \union {e}
    BY <2>3, <2>4 DEF Raised
  <2>6. \A a \in Raised : alerts'[a] = alerts[a]
    BY <1>w, <2>2, <2>4
  <2>7. /\ dedupIndex' \in [Conditions -> Events \union {NoAlert}] /\ dedupIndex'[c] = e
        /\ \A d \in Conditions : d # c => dedupIndex'[d] = dedupIndex[d] /\ reported'[d] = reported[d]
        /\ reported'[c] = {n}
    BY <1>1, <1>4, <1>s, <2>1 DEF IndexTells
  <2>8. WeightsBounded'
    <3>1. \A a \in Raised' : alerts'[a].weight <= m + n
      BY <1>2, <1>3, <1>s, <1>w, <2>3, <2>4, <2>5, <2>6
    <3> QED
      BY <1>3, <3>1 DEF WeightsBounded
  <2>9. IncidentsRaised' /\ IncidentsBacked'
    BY <1>w, <2>5, <2>6, IncidentsGoOn
  <2>10. \A a \in Raised' : alerts'[a].condition = ConditionOf[a] /\ dedupIndex'[ConditionOf[a]] = a
    <3> SUFFICES ASSUME NEW a \in Raised'
                 PROVE  alerts'[a].condition = ConditionOf[a] /\ dedupIndex'[ConditionOf[a]] = a
      OBVIOUS
    <3>1. CASE a = e
      BY <2>3, <2>4, <2>7, <3>1
    <3>2. CASE a # e
      <4>1. a \in Raised /\ alerts'[a] = alerts[a]
        BY <2>5, <2>6, <3>2
      <4>2. alerts[a].condition = ConditionOf[a] /\ dedupIndex[ConditionOf[a]] = a
        BY <1>s, <4>1 DEF IndexTells
      <4>3. ConditionOf[a] \in Conditions /\ ConditionOf[a] # c
        BY <1>4, <1>s, <1>w, <4>1, <4>2, AlertChainAssumption
      <4> QED
        BY <2>7, <4>1, <4>2, <4>3
    <3> QED
      BY <3>1, <3>2
  <2>11. ASSUME NEW d \in Conditions
         PROVE  /\ dedupIndex'[d] # NoAlert <=> reported'[d] # {}
                /\ dedupIndex'[d] # NoAlert =>
                      /\ dedupIndex'[d] \in Raised' /\ alerts'[dedupIndex'[d]].condition = d
                      /\ alerts'[dedupIndex'[d]].weight \in reported'[d]
                      /\ \A k \in reported'[d] : k <= alerts'[dedupIndex'[d]].weight
    <3>1. CASE d = c
      BY <1>s, <2>3, <2>4, <2>5, <2>7, <3>1
    <3>2. CASE d # c
      BY <1>s, <2>5, <2>6, <2>7, <3>2 DEF IndexTells
    <3> QED
      BY <3>1, <3>2
  <2>12. IndexTells'
    BY <2>10, <2>11 DEF IndexTells
  <2> QED
    BY <1>1, <2>4, <2>7, <2>8, <2>9, <2>12
<1>5. CASE known # NoAlert
  <2> DEFINE k == Max({alerts[known].weight, n})
  <2>1. /\ alerts' = [alerts EXCEPT ![known].weight = k] /\ UNCHANGED dedupIndex
    BY <1>5 DEF Reported
  <2>2. /\ known \in Raised /\ known \in Events /\ alerts[known].condition = c
        /\ alerts[known] \in AlertRecord /\ alerts[known].weight \in Nat
        /\ alerts[known].weight \in reported[c]
        /\ \A x \in reported[c] : x <= alerts[known].weight
    BY <1>5, <1>s, <1>w DEF IndexTells
  <2>3. k \in {alerts[known].weight, n} /\ alerts[known].weight <= k /\ n <= k
    BY <1>s, <2>2, GreaterOfTwo
  <2> HIDE DEF k
  <2>4. k \in Nat /\ k \in reported'[c] /\ \A x \in reported'[c] : x <= k
    BY <1>s, <1>1, <2>2, <2>3
  <2>5. /\ alerts' \in [Events -> Alert] /\ Raised' = Raised
        /\ \A a \in Raised : alerts'[a].condition = alerts[a].condition
        /\ \A a \in Raised : a # known => alerts'[a] = alerts[a]
    BY <1>s, <2>1, <2>2, <2>4, AlertChanged
  <2>6. alerts'[known].weight = k
    BY <1>s, <2>1, <2>2 DEF AlertRecord
  <2>7. \A a \in Raised : alerts'[a].weight \in Nat /\ alerts[a].weight <= alerts'[a].weight
    BY <1>w, <2>3, <2>4, <2>5, <2>6
  <2>8. IncidentsRaised' /\ IncidentsBacked'
    BY <2>5, <2>7, IncidentsGoOn
  <2>9. WeightsBounded'
    <3>1. k <= m + n
      BY <1>2, <1>3, <1>s, <2>2, <2>3
    <3>2. \A a \in Raised' : alerts'[a].weight <= m + n
      BY <1>2, <1>3, <1>s, <1>w, <2>5, <2>6, <3>1
    <3> QED
      BY <1>3, <3>2 DEF WeightsBounded
  <2>10. \A d \in Conditions : d # c => reported'[d] = reported[d]
    BY <1>1, <1>s
  <2>11. ASSUME NEW d \in Conditions
         PROVE  /\ dedupIndex[d] # NoAlert <=> reported'[d] # {}
                /\ dedupIndex[d] # NoAlert =>
                      /\ dedupIndex[d] \in Raised' /\ alerts'[dedupIndex[d]].condition = d
                      /\ alerts'[dedupIndex[d]].weight \in reported'[d]
                      /\ \A x \in reported'[d] : x <= alerts'[dedupIndex[d]].weight
    <3>1. CASE d = c
      BY <1>5, <2>2, <2>4, <2>5, <2>6, <3>1
    <3>2. CASE d # c
      <4>1. dedupIndex[d] # NoAlert =>
               dedupIndex[d] \in Raised /\ alerts[dedupIndex[d]].condition = d /\ dedupIndex[d] # known
        BY <1>s, <2>2, <3>2 DEF IndexTells
      <4> QED
        BY <1>s, <2>5, <2>10, <3>2, <4>1 DEF IndexTells
    <3> QED
      BY <3>1, <3>2
  <2>12. IndexTells'
    BY <1>s, <2>1, <2>5, <2>11 DEF IndexTells
  <2> QED
    BY <1>1, <1>s, <2>1, <2>2, <2>5, <2>8, <2>9, <2>12
<1> QED
  BY <1>4, <1>5

(* publish: one acceptance more, a whole window after the last.             *)
LEMMA SeenStep ==
  ASSUME AlertInv, NEW e \in Events, Publish(e)
  PROVE  SeenPaced' /\ seenAt' \in [Events -> Nat] /\ accepted' \in [Events -> Nat]
<1>s. /\ seenAt \in [Events -> Nat] /\ accepted \in [Events -> Nat] /\ SeenPaced
      /\ eventTime \in Nat /\ eventTime > 0 /\ DedupWindow \in Nat /\ DedupWindow > 0
  BY AlertChainAssumption DEF AlertInv, AlertTypeOK
<1>1. /\ seenAt' = [seenAt EXCEPT ![e] = eventTime] /\ accepted' = [accepted EXCEPT ![e] = @ + 1]
      /\ UNCHANGED eventTime
      /\ seenAt[e] = 0 \/ eventTime - seenAt[e] >= DedupWindow
  BY <1>s DEF Publish, Duplicate
<1>2. (accepted[e] + 1) * DedupWindow < eventTime + DedupWindow
  <2> DEFINE n == accepted[e] * DedupWindow
  <2>1. n \in Nat /\ (accepted[e] + 1) * DedupWindow = n + DedupWindow
    BY <1>s
  <2>2. n < seenAt[e] + DedupWindow
    BY <1>s DEF SeenPaced
  <2>3. seenAt[e] = 0 => n = 0
    BY <1>s DEF SeenPaced
  <2> HIDE DEF n
  <2>4. n < eventTime
    BY <1>1, <1>s, <2>1, <2>2, <2>3
  <2> QED
    BY <1>s, <2>1, <2>4
<1>3. seenAt' \in [Events -> Nat] /\ accepted' \in [Events -> Nat]
  BY <1>1, <1>s
<1>4. SeenPaced'
  <2> SUFFICES ASSUME NEW a \in Events
               PROVE  /\ seenAt'[a] <= eventTime' /\ (seenAt'[a] = 0 => accepted'[a] = 0)
                      /\ accepted'[a] * DedupWindow < seenAt'[a] + DedupWindow
    BY DEF SeenPaced
  <2>1. CASE a = e
    <3>1. seenAt'[a] = eventTime /\ accepted'[a] = accepted[e] + 1
      BY <1>1, <1>s, <2>1
    <3> QED
      BY <1>1, <1>2, <1>s, <3>1
  <2>2. CASE a # e
    <3>1. seenAt'[a] = seenAt[a] /\ accepted'[a] = accepted[a]
      BY <1>1, <1>s, <2>2
    <3> QED
      BY <1>1, <1>s, <3>1 DEF SeenPaced
  <2> QED
    BY <2>1, <2>2
<1> QED
  BY <1>3, <1>4

(* What a step says that leaves the alerts and the incidents alone.         *)
LEMMA AlertsStay ==
  ASSUME AlertInv, UNCHANGED <<alerts, dedupIndex, incidents, reported>>
  PROVE  IndexTells' /\ WeightsBounded' /\ IncidentsRaised' /\ IncidentsBacked'
<1>1. Raised' = Raised
  BY DEF Raised
<1>2. IndexTells'
  BY <1>1 DEF AlertInv, IndexTells
<1>3. WeightsBounded'
  BY <1>1 DEF AlertInv, WeightsBounded
<1>4. IncidentsRaised'
  BY <1>1 DEF AlertInv, IncidentsRaised
<1>5. IncidentsBacked'
  BY DEF AlertInv, IncidentsBacked, RepoOfAlert
<1> QED
  BY <1>2, <1>3, <1>4, <1>5

(* Correlating groups the open alerts of one repository, and the severity   *)
(* of the group is that of one of them.                                     *)
LEMMA CorrelateStep ==
  ASSUME AlertInv, CorrelateAlerts
  PROVE  /\ incidents' \in [Incidents -> [alerts : SUBSET Events, weight : Nat]]
         /\ IncidentsRaised' /\ IncidentsBacked'
<1>s. /\ incidents \in [Incidents -> [alerts : SUBSET Events, weight : Nat]]
      /\ AlertTypeOK /\ IncidentsRaised /\ IncidentsBacked /\ NoAlert \notin AlertStatus
  BY AlertChainAssumption DEF AlertInv, AlertTypeOK
<1>w. \A e \in Raised : e \in Events /\ alerts[e].weight \in Nat
  BY <1>s, RaisedFields
<1>1. PICK m \in Nat : \A e \in Raised : alerts[e].weight <= m
  BY DEF AlertInv, WeightsBounded
<1>2. PICK newest \in [Incidents -> {RepositoryOf[c] : c \in Conditions}] :
          incidents' = [i \in Incidents |->
              IF IncidentOf[newest[i]] = i /\ AlertsOf(newest[i]) # {}
              THEN [alerts |-> AlertsOf(newest[i]), weight |-> Max({alerts[e].weight : e \in AlertsOf(newest[i])})]
              ELSE incidents[i]]
  BY DEF CorrelateAlerts
<1>3. UNCHANGED alerts /\ Raised' = Raised
  BY DEF CorrelateAlerts, Raised
<1>4. \A i \in Incidents : AlertsOf(newest[i]) \subseteq Raised
  BY AlertChainAssumption DEF AlertsOf, OpenAlerts, Raised, AlertStatus
<1>5. ASSUME NEW S, S \subseteq Raised, S # {}
      PROVE  /\ Max({alerts[e].weight : e \in S}) \in Nat
             /\ \E f \in S : Max({alerts[e].weight : e \in S}) = alerts[f].weight
  <2> DEFINE W == {alerts[e].weight : e \in S}
  <2>1. W \subseteq Nat /\ W # {} /\ \A x \in W : x <= m
    BY <1>1, <1>5, <1>w
  <2> HIDE DEF W
  <2>2. Max(W) \in W
    BY <2>1, GreatestExists
  <2> QED
    BY <2>1, <2>2 DEF W
<1>6. ASSUME NEW i \in Incidents
      PROVE  /\ incidents'[i] \in [alerts : SUBSET Events, weight : Nat]
             /\ incidents'[i].alerts \subseteq Raised
             /\ incidents'[i] # NoIncident =>
                   /\ \E e \in incidents'[i].alerts : incidents'[i].weight <= alerts[e].weight
                   /\ \A e, f \in incidents'[i].alerts : RepoOfAlert(e) = RepoOfAlert(f)
  <2> DEFINE S == AlertsOf(newest[i])
             w == Max({alerts[e].weight : e \in S})
  <2>1. CASE IncidentOf[newest[i]] = i /\ S # {}
    <3>1. incidents'[i] = [alerts |-> S, weight |-> w]
      BY <1>2, <2>1
    <3>2. S \subseteq Raised /\ \A e, f \in S : RepoOfAlert(e) = RepoOfAlert(f)
      BY <1>4 DEF AlertsOf
    <3>3. w \in Nat /\ \E e \in S : w = alerts[e].weight
      BY <1>5, <2>1, <3>2
    <3> HIDE DEF S, w
    <3>4. \E e \in S : w <= alerts[e].weight
      BY <3>3
    <3> QED
      BY <1>w, <3>1, <3>2, <3>3, <3>4
  <2>2. CASE ~(IncidentOf[newest[i]] = i /\ S # {})
    <3>1. incidents'[i] = incidents[i]
      BY <1>2, <2>2
    <3> QED
      BY <1>s, <3>1 DEF IncidentsRaised, IncidentsBacked
  <2> QED
    BY <2>1, <2>2
<1>7. incidents' \in [Incidents -> [alerts : SUBSET Events, weight : Nat]]
  BY <1>2, <1>6
<1>8. IncidentsRaised' /\ IncidentsBacked'
  BY <1>3, <1>6 DEF IncidentsRaised, IncidentsBacked, RepoOfAlert
<1> QED
  BY <1>7, <1>8

LEMMA AlertStep == AlertInv /\ [AlertNext]_alertVars => AlertInv'
<1> SUFFICES ASSUME AlertInv, [AlertNext]_alertVars PROVE AlertInv'
  OBVIOUS
<1>s. AlertTypeOK /\ eventTime > 0 /\ eventTime \in Nat
  BY DEF AlertInv, AlertTypeOK
<1>1. ASSUME NEW e \in Events, Publish(e) PROVE AlertInv'
  <2>1. SeenPaced' /\ seenAt' \in [Events -> Nat] /\ accepted' \in [Events -> Nat]
    BY <1>1, SeenStep
  <2>2. UNCHANGED <<incidents, eventTime>>
    BY <1>1 DEF Publish
  <2>3. CASE UNCHANGED <<alerts, dedupIndex, notified, reported>>
    <3>1. IndexTells' /\ WeightsBounded' /\ IncidentsRaised' /\ IncidentsBacked'
      BY <2>2, <2>3, AlertsStay
    <3>2. AlertTypeOK'
      BY <1>s, <2>1, <2>2, <2>3 DEF AlertTypeOK
    <3> QED
      BY <1>s, <2>1, <2>2, <3>1, <3>2 DEF AlertInv
  <2>4. CASE Reported(e) /\ Dispatched(dedupIndex'[ConditionOf[e]])
    <3>1. /\ alerts' \in [Events -> Alert]
          /\ dedupIndex' \in [Conditions -> Events \union {NoAlert}]
          /\ dedupIndex'[ConditionOf[e]] \in Events
          /\ reported' \in [Conditions -> SUBSET Nat]
          /\ IndexTells' /\ WeightsBounded' /\ IncidentsRaised' /\ IncidentsBacked'
      BY <2>2, <2>4, ReportStep
    <3>2. notified' \in [Events -> Nat]
      BY <1>s, <2>4, <3>1, AlertChainAssumption DEF Dispatched, AlertTypeOK
    <3> QED
      BY <1>s, <2>1, <2>2, <3>1, <3>2 DEF AlertInv, AlertTypeOK
  <2> QED
    BY <1>1, <2>3, <2>4 DEF Publish
<1>2. ASSUME NEW e \in Events, NEW s \in OperatorStatus, SetAlert(e, s) PROVE AlertInv'
  <2>1. /\ alerts' = [alerts EXCEPT ![e].status = s] /\ s \in AlertStatus /\ e \in Raised
        /\ UNCHANGED <<seenAt, accepted, dedupIndex, incidents, notified, reported, eventTime>>
    BY <1>2, AlertChainAssumption DEF SetAlert, Raised
  <2>2. /\ alerts' \in [Events -> Alert] /\ Raised' = Raised
        /\ \A a \in Raised : alerts'[a].condition = alerts[a].condition
        /\ \A a \in Raised : a # e => alerts'[a] = alerts[a]
    BY <1>s, <2>1, AlertChanged
  <2>w. \A a \in Raised : a \in Events /\ alerts[a] \in AlertRecord /\ alerts[a].weight \in Nat
    BY <1>s, RaisedFields
  <2>3. alerts'[e].weight = alerts[e].weight
    BY <1>s, <2>1, <2>w DEF AlertTypeOK, AlertRecord
  <2>4. \A a \in Raised : alerts'[a].weight = alerts[a].weight
    BY <2>2, <2>3
  <2>5. IncidentsRaised' /\ IncidentsBacked'
    BY <2>1, <2>2, <2>4, <2>w, IncidentsGoOn
  <2>6. IndexTells'
    BY <2>1, <2>2, <2>4 DEF AlertInv, IndexTells
  <2>7. WeightsBounded'
    BY <2>2, <2>4 DEF AlertInv, WeightsBounded
  <2>8. SeenPaced'
    BY <2>1 DEF AlertInv, SeenPaced
  <2> QED
    BY <1>s, <2>1, <2>2, <2>5, <2>6, <2>7, <2>8 DEF AlertInv, AlertTypeOK
<1>3. CASE CorrelateAlerts
  <2>1. UNCHANGED <<seenAt, accepted, alerts, dedupIndex, notified, reported, eventTime>>
    BY <1>3 DEF CorrelateAlerts
  <2> QED
    BY <1>3, <1>s, <2>1, CorrelateStep
       DEF AlertInv, AlertTypeOK, SeenPaced, IndexTells, WeightsBounded, Raised
<1>4. CASE EventTick
  <2>1. /\ UNCHANGED <<seenAt, accepted, alerts, dedupIndex, incidents, notified, reported>>
        /\ eventTime' = eventTime + 1
    BY <1>4 DEF EventTick
  <2>2. SeenPaced'
    BY <1>s, <2>1 DEF AlertInv, AlertTypeOK, SeenPaced
  <2>3. IndexTells' /\ WeightsBounded' /\ IncidentsRaised' /\ IncidentsBacked'
    BY <2>1, AlertsStay
  <2>4. AlertTypeOK' /\ eventTime' > 0
    BY <1>s, <2>1 DEF AlertTypeOK
  <2> QED
    BY <2>2, <2>3, <2>4 DEF AlertInv
<1>5. CASE UNCHANGED alertVars
  BY <1>5 DEF alertVars, AlertInv, AlertTypeOK, SeenPaced, IndexTells, WeightsBounded, IncidentsRaised,
              IncidentsBacked, Raised, RepoOfAlert
<1> QED
  BY <1>1, <1>2, <1>3, <1>4, <1>5 DEF AlertNext

(* What an operator is told follows from the invariant.                     *)
LEMMA AlertsTold == AlertInv => AlertsTell
<1> SUFFICES ASSUME AlertInv PROVE AlertsTell
  OBVIOUS
<1>s. /\ seenAt \in [Events -> Nat] /\ accepted \in [Events -> Nat] /\ eventTime \in Nat
      /\ DedupWindow \in Nat /\ reported \in [Conditions -> SUBSET Nat]
      /\ SeenPaced /\ IndexTells /\ AlertTypeOK
      /\ dedupIndex \in [Conditions -> Events \union {NoAlert}]
  BY AlertChainAssumption DEF AlertInv, AlertTypeOK
<1>1. OncePerWindow
  <2> SUFFICES ASSUME NEW e \in Events PROVE accepted[e] * DedupWindow < eventTime + DedupWindow
    BY DEF OncePerWindow
  <2> DEFINE n == accepted[e] * DedupWindow
  <2>1. n \in Nat /\ n < seenAt[e] + DedupWindow /\ seenAt[e] <= eventTime /\ seenAt[e] \in Nat
    BY <1>s DEF SeenPaced
  <2> HIDE DEF n
  <2>2. n < eventTime + DedupWindow
    BY <1>s, <2>1
  <2> QED
    BY <2>2 DEF n
<1>2. WorstKnown
  <2> SUFFICES ASSUME NEW c \in Conditions, reported[c] # {}
               PROVE  /\ {e \in Events : alerts[e].status # NoAlert /\ alerts[e].condition = c} = {dedupIndex[c]}
                      /\ alerts[dedupIndex[c]].weight = Max(reported[c])
    BY DEF WorstKnown
  <2> DEFINE a == dedupIndex[c]
             n == alerts[a].weight
  <2>1. /\ a \in Raised /\ a \in Events /\ alerts[a].condition = c
        /\ n \in reported[c] /\ \A x \in reported[c] : x <= n
    BY <1>s DEF IndexTells, Raised
  <2>2. \A e \in Raised : alerts[e].condition = c => e = a
    BY <1>s DEF IndexTells
  <2>3. {e \in Events : alerts[e].status # NoAlert /\ alerts[e].condition = c} = {a}
    BY <2>1, <2>2 DEF Raised
  <2> HIDE DEF n
  <2>4. reported[c] \subseteq Nat /\ n \in Nat
    BY <1>s, <2>1
  <2>5. Max(reported[c]) \in reported[c] /\ \A x \in reported[c] : x <= Max(reported[c])
    BY <2>1, <2>4, GreatestExists
  <2>6. n = Max(reported[c])
    BY <2>1, <2>4, <2>5
  <2> QED
    BY <2>3, <2>6 DEF n
<1> QED
  BY <1>1, <1>2 DEF AlertInv, AlertsTell

LEMMA AlertInvariant == AlertSpec => []AlertInv
<1>1. AlertInit => AlertInv
  <2> SUFFICES ASSUME AlertInit PROVE AlertInv
    OBVIOUS
  <2>1. Raised = {}
    BY DEF AlertInit, Raised
  <2>2. AlertTypeOK /\ eventTime > 0
    BY DEF AlertInit, AlertTypeOK, Alert, NoIncident
  <2>3. SeenPaced
    BY AlertChainAssumption DEF AlertInit, SeenPaced
  <2>4. IndexTells
    BY <2>1 DEF AlertInit, IndexTells
  <2>5. WeightsBounded
    BY <2>1 DEF WeightsBounded
  <2>6. IncidentsRaised /\ IncidentsBacked
    BY DEF AlertInit, IncidentsRaised, IncidentsBacked, NoIncident
  <2> QED
    BY <2>2, <2>3, <2>4, <2>5, <2>6 DEF AlertInv
<1> QED
  BY <1>1, AlertStep, PTL DEF AlertSpec

(* The chain from an event to an incident acts on an event once per window, *)
(* knows the worst severity of each condition and backs each incident with  *)
(* an alert as severe, for any number of events, conditions and             *)
(* repositories; and an integration leaves a failing provider alone.        *)
THEOREM OthersAlwaysTold == AlertSpec /\ IntegrationSpec => []OthersTold
<1>1. BreakerInv => BreakerProtects
  BY DEF BreakerInv, CalledAfterRecovery, HealthyIsClosed, BreakerProtects
<1> QED
  BY <1>1, AlertInvariant, AlertsTold, BreakerInvariant, PTL DEF OthersTold

-----------------------------------------------------------------------------
(* The priority job queue.                                                  *)

(* The times are left open: what 2 ** attempts is does not matter here.     *)
JobsTyped(records) == \E T : records \in [QueueJobs -> [state : JobStates, attempts : Nat, time : T]]

PlacesTyped == /\ heap \subseteq QueueJobs /\ dlq \subseteq QueueJobs /\ replaying \subseteq QueueJobs
               /\ held \in [QueueWorkers -> QueueJobs \union {NoJob}]
               /\ handed \in [QueueJobs -> Nat]

(* A worker holds a running job that no other has, the run counted but not  *)
(* yet its outcome.                                                         *)
HeldRuns == /\ \A v, w \in QueueWorkers : held[v] = held[w] /\ held[v] # NoJob => v = w
            /\ \A w \in QueueWorkers : held[w] # NoJob =>
                  /\ job[held[w]].state = "RUNNING"
                  /\ handed[held[w]] = job[held[w]].attempts + 1

(* Where the queue keeps a job that waits or has failed; its attempts are   *)
(* its runs.                                                                *)
PlacesTell ==
    /\ dlq \intersect replaying = {}
    /\ \A j \in QueueJobs :
          /\ j \in heap => Waits(j) \/ job[j].state = "CANCELLED"
          /\ Waits(j) => j \in heap
          /\ job[j].state = "FAILED" <=> j \in dlq \union replaying
          /\ Waits(j) \/ job[j].state \in {"CREATED", "FAILED"} => handed[j] = job[j].attempts

PriorityInv == JobsTyped(job) /\ PlacesTyped /\ HeldRuns /\ PlacesTell

IsHeld(j) == \E w \in QueueWorkers : held[w] = j

(* What is in the record of a job.                                          *)
LEMMA QueuedFields ==
  ASSUME JobsTyped(job), NEW j \in QueueJobs
  PROVE  job[j].state \in JobStates /\ job[j].attempts \in Nat
BY DEF JobsTyped

(* The phase of a job is told by its state and by who holds it.             *)
PhasesTold ==
    \A j \in QueueJobs :
       /\ job[j].state = "CREATED" => PriorityPhase(j) = "new"
       /\ Waits(j) => PriorityPhase(j) = "waiting"
       /\ job[j].state = "CANCELLED" => PriorityPhase(j) = "cancelled"
       /\ job[j].state = "FAILED" => PriorityPhase(j) = "dead"
       /\ job[j].state = "RUNNING" /\ ~IsHeld(j) => PriorityPhase(j) = "done"
       /\ job[j].state = "RUNNING" /\ IsHeld(j) => PriorityPhase(j) = "running"

LEMMA PhasesAreTold == PriorityInv => PhasesTold
<1> SUFFICES ASSUME PriorityInv, NEW j \in QueueJobs
             PROVE  /\ job[j].state = "CREATED" => PriorityPhase(j) = "new"
                    /\ Waits(j) => PriorityPhase(j) = "waiting"
                    /\ job[j].state = "CANCELLED" => PriorityPhase(j) = "cancelled"
                    /\ job[j].state = "FAILED" => PriorityPhase(j) = "dead"
                    /\ job[j].state = "RUNNING" /\ ~IsHeld(j) => PriorityPhase(j) = "done"
                    /\ job[j].state = "RUNNING" /\ IsHeld(j) => PriorityPhase(j) = "running"
  BY DEF PhasesTold
<1>1. /\ j \in heap => Waits(j) \/ job[j].state = "CANCELLED"
      /\ Waits(j) => j \in heap
      /\ job[j].state = "FAILED" => j \in dlq \union replaying
  BY DEF PriorityInv, PlacesTell
<1>2. /\ Holders(j) = {} <=> ~IsHeld(j)
      /\ IsHeld(j) => job[j].state = "RUNNING"
  BY PriorityJobQueueAssumption DEF PriorityInv, HeldRuns, Holders, IsHeld
<1>3. IsHeld(j) => Cardinality(Holders(j)) = 1
  <2> SUFFICES ASSUME NEW w \in QueueWorkers, held[w] = j PROVE Cardinality(Holders(j)) = 1
    BY DEF IsHeld
  <2>1. Holders(j) = {w}
    BY PriorityJobQueueAssumption DEF PriorityInv, HeldRuns, Holders
  <2> QED
    BY <2>1, FS_Singleton
<1>4. job[j].state = "CREATED" => PriorityPhase(j) = "new"
  BY DEF PriorityPhase, Waits
<1>5. Waits(j) => PriorityPhase(j) = "waiting"
  BY <1>1, <1>2 DEF PriorityPhase, Waits
<1>6. job[j].state = "CANCELLED" => PriorityPhase(j) = "cancelled"
  BY <1>2 DEF PriorityPhase, Waits
<1>7. job[j].state = "FAILED" => PriorityPhase(j) = "dead"
  BY <1>1 DEF PriorityPhase, Waits
<1>8. job[j].state = "RUNNING" /\ ~IsHeld(j) => PriorityPhase(j) = "done"
  <2>1. Cardinality({}) # 1
    BY FS_EmptySet
  <2> QED
    BY <1>1, <1>2, <2>1 DEF PriorityPhase, Waits
<1>9. job[j].state = "RUNNING" /\ IsHeld(j) => PriorityPhase(j) = "running"
  BY <1>1, <1>2, <1>3 DEF PriorityPhase, Waits
<1> QED
  BY <1>4, <1>5, <1>6, <1>7, <1>8, <1>9

LEMMA PhasesToldNext == PriorityInv' => PhasesTold'
BY PhasesAreTold, PTL

(* One job moves, and the phase of every other one stays.                   *)
LEMMA PhaseMoves ==
  ASSUME PriorityInv, PhasesTold, JobsTyped(job'), PhasesTold',
         NEW j \in QueueJobs, NEW to, PriorityPhase(j)' = to,
         \A k \in QueueJobs : k # j =>
            job'[k].state = job[k].state /\ (IsHeld(k)' <=> IsHeld(k))
  PROVE  [k \in QueueJobs |-> PriorityPhase(k)]'
            = [[k \in QueueJobs |-> PriorityPhase(k)] EXCEPT ![j] = to]
<1>1. ASSUME NEW k \in QueueJobs, k # j PROVE PriorityPhase(k)' = PriorityPhase(k)
  <2>1. job[k].state \in JobStates
    BY QueuedFields DEF PriorityInv
  <2>2. job'[k].state = job[k].state /\ (IsHeld(k)' <=> IsHeld(k))
    BY <1>1
  <2>3. Waits(k)' <=> Waits(k)
    BY <2>2 DEF Waits
  <2> QED
    BY <2>1, <2>2, <2>3 DEF PhasesTold, JobStates, Waits
<1> QED
  BY <1>1

(* One job changes to a state with so many attempts.                        *)
JobGoes(j, s, n) ==
    /\ JobsTyped(job')
    /\ job'[j].state = s /\ job'[j].attempts = n
    /\ \A k \in QueueJobs : k # j => job'[k] = job[k]

LEMMA StateGoes ==
  ASSUME JobsTyped(job), NEW j \in QueueJobs, NEW s \in JobStates, SetState(j, s)
  PROVE  JobGoes(j, s, job[j].attempts)
BY DEF JobsTyped, JobGoes, SetState

LEMMA QueuedGoes ==
  ASSUME JobsTyped(job), NEW j \in QueueJobs, NEW t,
         job' = [job EXCEPT ![j].state = "QUEUED", ![j].time = t]
  PROVE  JobGoes(j, "QUEUED", job[j].attempts)
<1>1. PICK T : job \in [QueueJobs -> [state : JobStates, attempts : Nat, time : T]]
  BY DEF JobsTyped
<1>2. "QUEUED" \in JobStates
  BY DEF JobStates
<1>3. job' \in [QueueJobs -> [state : JobStates, attempts : Nat, time : T \union {t}]]
  BY <1>1, <1>2
<1> QED
  BY <1>1, <1>3 DEF JobsTyped, JobGoes

LEMMA RetryingGoes ==
  ASSUME JobsTyped(job), NEW j \in QueueJobs, NEW n \in Nat, NEW t,
         job' = [job EXCEPT ![j] = [state |-> "RETRYING", attempts |-> n, time |-> t]]
  PROVE  JobGoes(j, "RETRYING", n)
<1>1. PICK T : job \in [QueueJobs -> [state : JobStates, attempts : Nat, time : T]]
  BY DEF JobsTyped
<1>2. "RETRYING" \in JobStates
  BY DEF JobStates
<1>3. job' \in [QueueJobs -> [state : JobStates, attempts : Nat, time : T \union {t}]]
  BY <1>1, <1>2
<1> QED
  BY <1>1, <1>3 DEF JobsTyped, JobGoes

LEMMA FailedGoes ==
  ASSUME JobsTyped(job), NEW j \in QueueJobs, NEW n \in Nat,
         job' = [job EXCEPT ![j].state = "FAILED", ![j].attempts = n]
  PROVE  JobGoes(j, "FAILED", n)
<1>1. PICK T : job \in [QueueJobs -> [state : JobStates, attempts : Nat, time : T]]
  BY DEF JobsTyped
<1>2. "FAILED" \in JobStates
  BY DEF JobStates
<1>3. job' \in [QueueJobs -> [state : JobStates, attempts : Nat, time : T]]
  BY <1>1, <1>2
<1> QED
  BY <1>1, <1>3 DEF JobsTyped, JobGoes

(* The steps of the abstract queue, said of the jobs of this one.           *)
PriorityRefined == [PriorityQueue!RQNext]_<<[j \in QueueJobs |-> PriorityPhase(j)], handed>>

(* One phase changes from one to another.                                   *)
LEMMA PhaseSteps ==
  ASSUME PriorityInv, PriorityInv', PhasesTold, PhasesTold', NEW j \in QueueJobs, NEW s, NEW n, JobGoes(j, s, n),
         NEW from, NEW to, PriorityPhase(j) = from, PriorityPhase(j)' = to,
         \A k \in QueueJobs : k # j => (IsHeld(k)' <=> IsHeld(k))
  PROVE  PriorityQueue!Moves(j, from, to)
<1>1. [k \in QueueJobs |-> PriorityPhase(k)]'
            = [[k \in QueueJobs |-> PriorityPhase(k)] EXCEPT ![j] = to]
  BY PhaseMoves DEF JobGoes
<1> QED
  BY <1>1 DEF PriorityQueue!Moves

LEMMA EnqueueJobStep ==
  ASSUME PriorityInv, NEW j \in QueueJobs, EnqueueJob(j)
  PROVE  PriorityInv' /\ PriorityRefined
<1>1. JobGoes(j, "QUEUED", job[j].attempts)
  BY QueuedGoes DEF PriorityInv, EnqueueJob
<1>2. /\ heap' = heap \union {j} /\ UNCHANGED <<dlq, held, handed>>
      /\ \/ job[j].state = "CREATED" /\ UNCHANGED replaying
         \/ j \in replaying /\ replaying' = replaying \ {j}
  BY DEF EnqueueJob
<1>3. job[j].state \in {"CREATED", "FAILED"} /\ handed[j] = job[j].attempts
      /\ j \notin dlq \union replaying'
  BY <1>2 DEF PriorityInv, PlacesTell
<1>4. ~IsHeld(j)
  BY <1>3, PriorityJobQueueAssumption DEF PriorityInv, HeldRuns, IsHeld
<1>5. PlacesTyped'
  BY <1>2 DEF PriorityInv, PlacesTyped
<1>6. HeldRuns'
  BY <1>1, <1>2, <1>4, PriorityJobQueueAssumption DEF PriorityInv, PlacesTyped, HeldRuns, JobGoes, IsHeld
<1>7. PlacesTell'
  BY <1>1, <1>2, <1>3 DEF PriorityInv, PlacesTell, JobGoes, Waits
<1>8. PriorityInv'
  BY <1>1, <1>5, <1>6, <1>7 DEF PriorityInv, JobGoes
<1>9. PhasesTold /\ PhasesTold'
  BY <1>8, PhasesAreTold, PhasesToldNext
<1>10. PriorityPhase(j)' = "waiting"
  BY <1>1, <1>9 DEF PhasesTold, JobGoes, Waits
<1>11. \A k \in QueueJobs : IsHeld(k)' <=> IsHeld(k)
  BY <1>2 DEF IsHeld
<1>12. CASE job[j].state = "CREATED"
  <2>1. PriorityPhase(j) = "new"
    BY <1>9, <1>12 DEF PhasesTold
  <2>2. PriorityQueue!Moves(j, "new", "waiting")
    BY <1>1, <1>8, <1>9, <1>10, <1>11, <2>1, PhaseSteps
  <2> QED
    BY <1>2, <1>8, <2>2 DEF PriorityRefined, PriorityQueue!RQNext, PriorityQueue!Submit
<1>13. CASE job[j].state = "FAILED"
  <2>1. PriorityPhase(j) = "dead"
    BY <1>9, <1>13 DEF PhasesTold
  <2>2. PriorityQueue!Moves(j, "dead", "waiting")
    BY <1>1, <1>8, <1>9, <1>10, <1>11, <2>1, PhaseSteps
  <2> QED
    BY <1>2, <1>8, <2>2 DEF PriorityRefined, PriorityQueue!RQNext, PriorityQueue!Again
<1> QED
  BY <1>3, <1>12, <1>13

LEMMA CancelJobStep ==
  ASSUME PriorityInv, NEW j \in QueueJobs, CancelJob(j)
  PROVE  PriorityInv' /\ PriorityRefined
<1>1. JobGoes(j, "CANCELLED", job[j].attempts)
  BY StateGoes DEF PriorityInv, CancelJob, JobStates
<1>2. UNCHANGED <<heap, dlq, held, replaying, handed>> /\ job[j].state = "QUEUED"
  BY DEF CancelJob
<1>3. ~IsHeld(j) /\ j \notin dlq \union replaying
  BY <1>2, PriorityJobQueueAssumption DEF PriorityInv, HeldRuns, IsHeld, PlacesTell
<1>4. PlacesTyped'
  BY <1>2 DEF PriorityInv, PlacesTyped
<1>5. HeldRuns'
  BY <1>1, <1>2, <1>3, PriorityJobQueueAssumption DEF PriorityInv, PlacesTyped, HeldRuns, JobGoes, IsHeld
<1>6. PlacesTell'
  BY <1>1, <1>2, <1>3 DEF PriorityInv, PlacesTell, JobGoes, Waits
<1>7. PriorityInv'
  BY <1>1, <1>4, <1>5, <1>6 DEF PriorityInv, JobGoes
<1>8. PhasesTold /\ PhasesTold'
  BY <1>7, PhasesAreTold, PhasesToldNext
<1>9. PriorityPhase(j) = "waiting" /\ PriorityPhase(j)' = "cancelled"
  BY <1>1, <1>2, <1>8 DEF PhasesTold, JobGoes, Waits
<1>10. \A k \in QueueJobs : IsHeld(k)' <=> IsHeld(k)
  BY <1>2 DEF IsHeld
<1>11. PriorityQueue!Moves(j, "waiting", "cancelled")
  BY <1>1, <1>7, <1>8, <1>9, <1>10, PhaseSteps
<1> QED
  BY <1>2, <1>7, <1>11 DEF PriorityRefined, PriorityQueue!RQNext, PriorityQueue!Cancel

(* A dead letter that is popped is still dead until it is enqueued.         *)
LEMMA PopDeadStep ==
  ASSUME PriorityInv, NEW j \in QueueJobs, PopDead(j)
  PROVE  PriorityInv' /\ PriorityRefined
<1>1. /\ j \in dlq /\ dlq' = dlq \ {j} /\ replaying' = replaying \union {j}
      /\ UNCHANGED <<heap, job, held, handed>>
  BY DEF PopDead
<1>2. PlacesTyped' /\ HeldRuns' /\ PlacesTell'
  BY <1>1 DEF PriorityInv, PlacesTyped, HeldRuns, PlacesTell, Waits
<1>3. PriorityInv'
  BY <1>1, <1>2 DEF PriorityInv
<1>4. dlq' \union replaying' = dlq \union replaying
  BY <1>1
<1>5. \A k \in QueueJobs : PriorityPhase(k)' = PriorityPhase(k)
  BY <1>1, <1>4 DEF PriorityPhase, Holders, Waits
<1> QED
  BY <1>1, <1>3, <1>5 DEF PriorityRefined

(* A queue of nothing but cancelled jobs is emptied.                        *)
LEMMA DropCancelledStep ==
  ASSUME PriorityInv, {j \in heap : job[j].state # "CANCELLED"} = {}, heap' = {},
         UNCHANGED <<job, dlq, held, replaying, handed>>
  PROVE  PriorityInv' /\ PriorityRefined
<1>1. \A j \in QueueJobs : ~Waits(j)
  BY DEF PriorityInv, PlacesTell, Waits
<1>2. PlacesTyped' /\ HeldRuns' /\ PlacesTell'
  BY <1>1 DEF PriorityInv, PlacesTyped, HeldRuns, PlacesTell, Waits
<1>3. PriorityInv'
  BY <1>2 DEF PriorityInv
<1>4. PhasesTold /\ PhasesTold'
  BY <1>3, PhasesAreTold, PhasesToldNext
<1>5. ASSUME NEW k \in QueueJobs PROVE PriorityPhase(k)' = PriorityPhase(k)
  <2>1. job[k].state \in JobStates /\ job'[k].state = job[k].state /\ (IsHeld(k)' <=> IsHeld(k))
    BY QueuedFields DEF PriorityInv, IsHeld
  <2> QED
    BY <1>4, <2>1 DEF PhasesTold, JobStates, Waits
<1> QED
  BY <1>3, <1>5 DEF PriorityRefined

LEMMA DequeueJobStep ==
  ASSUME PriorityInv, NEW w \in QueueWorkers, DequeueJob(w)
  PROVE  PriorityInv' /\ PriorityRefined
<1> DEFINE live == {j \in heap : job[j].state # "CANCELLED"}
<1>1. CASE live = {} /\ heap' = {} /\ UNCHANGED <<job, held, handed>>
  BY <1>1, DropCancelledStep DEF DequeueJob
<1>2. ASSUME NEW j \in First(live), SetState(j, "RUNNING"),
             heap' = {k \in heap \ {j} : ~Ahead(k, j)},
             held' = [held EXCEPT ![w] = j], handed' = [handed EXCEPT ![j] = @ + 1]
      PROVE  PriorityInv' /\ PriorityRefined
  <2>1. /\ j \in QueueJobs /\ j \in heap /\ Waits(j) /\ held[w] = NoJob /\ UNCHANGED <<dlq, replaying>>
        /\ \A k \in QueueJobs : k # j /\ Waits(k) => k \in heap'
        /\ heap' \subseteq heap /\ j \notin heap'
    BY <1>2 DEF First, DequeueJob, PriorityInv, PlacesTyped, PlacesTell, Waits
  <2>2. JobGoes(j, "RUNNING", job[j].attempts)
    BY <1>2, <2>1, StateGoes DEF PriorityInv, JobStates
  <2>3. handed[j] = job[j].attempts /\ handed[j] \in Nat /\ j \notin dlq \union replaying
    BY <2>1 DEF PriorityInv, PlacesTyped, PlacesTell, Waits
  <2>4. ~IsHeld(j) /\ j # NoJob
    BY <2>1, PriorityJobQueueAssumption DEF PriorityInv, HeldRuns, IsHeld, Waits
  <2>5. /\ held' \in [QueueWorkers -> QueueJobs \union {NoJob}] /\ held'[w] = j
        /\ \A v \in QueueWorkers : v # w => held'[v] = held[v]
        /\ handed' \in [QueueJobs -> Nat] /\ handed'[j] = handed[j] + 1
        /\ \A k \in QueueJobs : k # j => handed'[k] = handed[k]
    BY <1>2, <2>1, <2>3 DEF PriorityInv, PlacesTyped
  <2>6. PlacesTyped'
    BY <2>1, <2>5 DEF PriorityInv, PlacesTyped
  <2>7. HeldRuns'
    <3>1. ASSUME NEW u \in QueueWorkers, NEW v \in QueueWorkers, held'[u] = held'[v], held'[u] # NoJob
          PROVE  u = v
      BY <2>4, <2>5, <3>1 DEF PriorityInv, HeldRuns, IsHeld
    <3>2. ASSUME NEW v \in QueueWorkers, held'[v] # NoJob
          PROVE  job'[held'[v]].state = "RUNNING" /\ handed'[held'[v]] = job'[held'[v]].attempts + 1
      <4>1. CASE v = w
        BY <2>2, <2>3, <2>5, <4>1 DEF JobGoes
      <4>2. CASE v # w
        <5>1. held'[v] = held[v] /\ held[v] \in QueueJobs /\ held[v] # j
          BY <2>4, <2>5, <3>2, <4>2 DEF PriorityInv, PlacesTyped, IsHeld
        <5> QED
          BY <2>2, <2>5, <3>2, <5>1 DEF PriorityInv, HeldRuns, JobGoes
      <4> QED
        BY <4>1, <4>2
    <3> QED
      BY <3>1, <3>2 DEF HeldRuns
  <2>8. PlacesTell'
    <3> SUFFICES ASSUME NEW k \in QueueJobs
                 PROVE  /\ k \in heap' => Waits(k)' \/ job'[k].state = "CANCELLED"
                        /\ Waits(k)' => k \in heap'
                        /\ job'[k].state = "FAILED" <=> k \in dlq' \union replaying'
                        /\ Waits(k)' \/ job'[k].state \in {"CREATED", "FAILED"} => handed'[k] = job'[k].attempts
      BY <2>1 DEF PriorityInv, PlacesTell
    <3>1. CASE k = j
      BY <2>1, <2>2, <2>3, <3>1 DEF JobGoes, Waits
    <3>2. CASE k # j
      <4>1. job'[k] = job[k] /\ handed'[k] = handed[k] /\ (Waits(k)' <=> Waits(k))
        BY <2>2, <2>5, <3>2 DEF JobGoes, Waits
      <4> QED
        BY <2>1, <3>2, <4>1 DEF PriorityInv, PlacesTell
    <3> QED
      BY <3>1, <3>2
  <2>9. PriorityInv'
    BY <2>2, <2>6, <2>7, <2>8 DEF PriorityInv, JobGoes
  <2>10. PhasesTold /\ PhasesTold'
    BY <2>9, PhasesAreTold, PhasesToldNext
  <2>11. IsHeld(j)' /\ \A k \in QueueJobs : k # j => (IsHeld(k)' <=> IsHeld(k))
    BY <2>1, <2>5, PriorityJobQueueAssumption DEF IsHeld
  <2>12. PriorityPhase(j) = "waiting" /\ PriorityPhase(j)' = "running"
    BY <2>1, <2>2, <2>10, <2>11 DEF PhasesTold, JobGoes
  <2>13. PriorityQueue!Moves(j, "waiting", "running")
    BY <2>1, <2>2, <2>9, <2>10, <2>11, <2>12, PhaseSteps
  <2> QED
    BY <1>2, <2>1, <2>9, <2>13 DEF PriorityRefined, PriorityQueue!RQNext, PriorityQueue!Take
<1> QED
  BY <1>1, <1>2 DEF DequeueJob

LEMMA JobSucceedsStep ==
  ASSUME PriorityInv, NEW w \in QueueWorkers, JobSucceeds(w)
  PROVE  PriorityInv' /\ PriorityRefined
<1>j. PICK j \in QueueJobs : j = held[w]
  BY DEF PriorityInv, PlacesTyped, JobSucceeds
<1>1. /\ j = held[w] /\ j # NoJob
      /\ held' \in [QueueWorkers -> QueueJobs \union {NoJob}] /\ held'[w] = NoJob
      /\ \A v \in QueueWorkers : v # w => held'[v] = held[v]
      /\ UNCHANGED <<heap, job, dlq, replaying, handed>>
  BY <1>j DEF PriorityInv, PlacesTyped, JobSucceeds, Release
<1>2. PlacesTyped' /\ HeldRuns' /\ PlacesTell'
  BY <1>1 DEF PriorityInv, PlacesTyped, HeldRuns, PlacesTell, Waits
<1>3. PriorityInv'
  BY <1>1, <1>2 DEF PriorityInv
<1>4. PhasesTold /\ PhasesTold'
  BY <1>3, PhasesAreTold, PhasesToldNext
<1>5. /\ IsHeld(j) /\ ~IsHeld(j)' /\ \A k \in QueueJobs : k # j => (IsHeld(k)' <=> IsHeld(k))
      /\ job[j].state = "RUNNING"
  BY <1>1, PriorityJobQueueAssumption DEF IsHeld, PriorityInv, HeldRuns
<1>6. PriorityPhase(j) = "running" /\ PriorityPhase(j)' = "done"
  BY <1>1, <1>4, <1>5 DEF PhasesTold
<1>7. JobGoes(j, "RUNNING", job[j].attempts)
  BY <1>1, <1>5 DEF PriorityInv, JobGoes
<1>8. PriorityQueue!Moves(j, "running", "done")
  BY <1>1, <1>3, <1>4, <1>5, <1>6, <1>7, PhaseSteps
<1> QED
  BY <1>1, <1>3, <1>8 DEF PriorityRefined, PriorityQueue!RQNext, PriorityQueue!Done

LEMMA HandleFailureStep ==
  ASSUME PriorityInv, NEW w \in QueueWorkers, HandleFailure(w)
  PROVE  PriorityInv' /\ PriorityRefined
<1>j. PICK j \in QueueJobs : j = held[w]
  BY DEF PriorityInv, PlacesTyped, HandleFailure
<1>1. /\ j = held[w] /\ j # NoJob
      /\ held' \in [QueueWorkers -> QueueJobs \union {NoJob}] /\ held'[w] = NoJob
      /\ \A v \in QueueWorkers : v # w => held'[v] = held[v]
      /\ UNCHANGED <<replaying, handed>>
  BY <1>j DEF PriorityInv, PlacesTyped, HandleFailure, Release
<1>2. /\ job[j].state = "RUNNING" /\ handed[j] = job[j].attempts + 1
      /\ job[j].attempts \in Nat /\ handed[j] \in Nat /\ MaxQueueAttempts \in Nat
  BY <1>1, QueuedFields, PriorityJobQueueAssumption DEF PriorityInv, PlacesTyped, HeldRuns
<1>3. /\ IsHeld(j) /\ ~IsHeld(j)' /\ \A k \in QueueJobs : k # j => (IsHeld(k)' <=> IsHeld(k))
      /\ j \notin heap /\ j \notin dlq \union replaying
  BY <1>1, <1>2, PriorityJobQueueAssumption DEF IsHeld, PriorityInv, HeldRuns, PlacesTell, Waits
<1>4. ASSUME NEW s, JobGoes(j, s, job[j].attempts + 1),
             \/ s = "RETRYING" /\ heap' = heap \union {j} /\ UNCHANGED dlq
             \/ s = "FAILED" /\ dlq' = dlq \union {j} /\ UNCHANGED heap
      PROVE  PriorityInv'
  <2>1. PlacesTyped'
    BY <1>1, <1>4 DEF PriorityInv, PlacesTyped
  <2>2. HeldRuns'
    <3> SUFFICES ASSUME NEW v \in QueueWorkers, held'[v] # NoJob
                 PROVE  job'[held'[v]].state = "RUNNING" /\ handed'[held'[v]] = job'[held'[v]].attempts + 1
      BY <1>1 DEF PriorityInv, HeldRuns
    <3>1. held'[v] = held[v] /\ held[v] \in QueueJobs /\ held[v] # j
      BY <1>1 DEF PriorityInv, PlacesTyped, HeldRuns
    <3> QED
      BY <1>1, <1>4, <3>1 DEF PriorityInv, HeldRuns, JobGoes
  <2>3. PlacesTell'
    <3>1. dlq' \intersect replaying' = {}
      BY <1>1, <1>3, <1>4 DEF PriorityInv, PlacesTell
    <3> SUFFICES ASSUME NEW k \in QueueJobs
                 PROVE  /\ k \in heap' => Waits(k)' \/ job'[k].state = "CANCELLED"
                        /\ Waits(k)' => k \in heap'
                        /\ job'[k].state = "FAILED" <=> k \in dlq' \union replaying'
                        /\ Waits(k)' \/ job'[k].state \in {"CREATED", "FAILED"} => handed'[k] = job'[k].attempts
      BY <3>1 DEF PlacesTell
    <3>2. CASE k = j
      BY <1>1, <1>2, <1>3, <1>4, <3>2 DEF JobGoes, Waits
    <3>3. CASE k # j
      <4>1. job'[k] = job[k] /\ handed'[k] = handed[k] /\ (Waits(k)' <=> Waits(k))
        BY <1>1, <1>4, <3>3 DEF JobGoes, Waits
      <4> QED
        BY <1>1, <1>4, <3>3, <4>1 DEF PriorityInv, PlacesTell
    <3> QED
      BY <3>2, <3>3
  <2> QED
    BY <1>4, <2>1, <2>2, <2>3 DEF PriorityInv, JobGoes
<1>5. CASE /\ job[j].attempts + 1 < MaxQueueAttempts
           /\ job' = [job EXCEPT ![j] = [state |-> "RETRYING", attempts |-> job[j].attempts + 1,
                                         time |-> clock + Delay(job[j].attempts + 1)]]
           /\ heap' = heap \union {j} /\ UNCHANGED dlq
  <2>1. JobGoes(j, "RETRYING", job[j].attempts + 1)
    BY <1>2, <1>5, RetryingGoes DEF PriorityInv
  <2>2. PriorityInv'
    BY <1>4, <1>5, <2>1
  <2>3. PhasesTold /\ PhasesTold'
    BY <2>2, PhasesAreTold, PhasesToldNext
  <2>4. PriorityPhase(j) = "running" /\ PriorityPhase(j)' = "waiting"
    BY <1>2, <1>3, <2>1, <2>3 DEF PhasesTold, JobGoes, Waits
  <2>5. PriorityQueue!Moves(j, "running", "waiting")
    BY <1>3, <2>1, <2>2, <2>3, <2>4, PhaseSteps
  <2> QED
    BY <1>1, <1>2, <1>5, <2>2, <2>5 DEF PriorityRefined, PriorityQueue!RQNext, PriorityQueue!Retry
<1>6. CASE /\ job[j].attempts + 1 >= MaxQueueAttempts
           /\ job' = [job EXCEPT ![j].state = "FAILED", ![j].attempts = job[j].attempts + 1]
           /\ dlq' = dlq \union {j} /\ UNCHANGED heap
  <2>1. JobGoes(j, "FAILED", job[j].attempts + 1)
    BY <1>2, <1>6, FailedGoes DEF PriorityInv
  <2>2. PriorityInv'
    BY <1>4, <1>6, <2>1
  <2>3. PhasesTold /\ PhasesTold'
    BY <2>2, PhasesAreTold, PhasesToldNext
  <2>4. PriorityPhase(j) = "running" /\ PriorityPhase(j)' = "dead"
    BY <1>2, <1>3, <2>1, <2>3 DEF PhasesTold, JobGoes
  <2>5. PriorityQueue!Moves(j, "running", "dead")
    BY <1>3, <2>1, <2>2, <2>3, <2>4, PhaseSteps
  <2> QED
    BY <1>1, <1>2, <1>6, <2>2, <2>5 DEF PriorityRefined, PriorityQueue!RQNext, PriorityQueue!GiveUp
<1> QED
  BY <1>1, <1>5, <1>6 DEF HandleFailure

LEMMA PriorityStep == PriorityInv /\ [PriorityNext]_priorityVars => PriorityInv' /\ PriorityRefined
<1> SUFFICES ASSUME PriorityInv, [PriorityNext]_priorityVars PROVE PriorityInv' /\ PriorityRefined
  OBVIOUS
<1>1. ASSUME NEW j \in QueueJobs, EnqueueJob(j) \/ CancelJob(j) \/ PopDead(j)
      PROVE  PriorityInv' /\ PriorityRefined
  BY <1>1, EnqueueJobStep, CancelJobStep, PopDeadStep
<1>2. ASSUME NEW w \in QueueWorkers, DequeueJob(w) \/ JobSucceeds(w) \/ HandleFailure(w)
      PROVE  PriorityInv' /\ PriorityRefined
  BY <1>2, DequeueJobStep, JobSucceedsStep, HandleFailureStep
<1>3. CASE QueueTick \/ UNCHANGED priorityVars
  <2>1. UNCHANGED <<heap, job, dlq, held, replaying, handed>>
    BY <1>3 DEF QueueTick, priorityVars
  <2>2. PlacesTyped' /\ HeldRuns' /\ PlacesTell'
    BY <2>1 DEF PriorityInv, PlacesTyped, HeldRuns, PlacesTell, Waits
  <2>3. \A k \in QueueJobs : PriorityPhase(k)' = PriorityPhase(k)
    BY <2>1 DEF PriorityPhase, Holders, Waits
  <2> QED
    BY <2>1, <2>2, <2>3 DEF PriorityInv, PriorityRefined
<1> QED
  BY <1>1, <1>2, <1>3 DEF PriorityNext

LEMMA PriorityStarts == PriorityInit => PriorityInv /\ PriorityQueue!RQInit
<1> SUFFICES ASSUME PriorityInit PROVE PriorityInv /\ PriorityQueue!RQInit
  OBVIOUS
<1>1. job \in [QueueJobs -> [state : JobStates, attempts : Nat, time : Nat]]
      /\ \A j \in QueueJobs : job[j].state = "CREATED" /\ job[j].attempts = 0
  BY DEF PriorityInit, JobStates
<1>2. JobsTyped(job)
  BY <1>1 DEF JobsTyped
<1>3. PlacesTyped /\ HeldRuns
  BY DEF PriorityInit, PlacesTyped, HeldRuns
<1>4. PlacesTell
  BY <1>1 DEF PriorityInit, PlacesTell, Waits
<1>5. PriorityInv
  BY <1>2, <1>3, <1>4 DEF PriorityInv
<1>6. \A j \in QueueJobs : PriorityPhase(j) = "new"
  BY <1>1, <1>5, PhasesAreTold DEF PhasesTold
<1> QED
  BY <1>5, <1>6 DEF PriorityInit, PriorityQueue!RQInit

(* No job of the priority queue is lost or held twice, a cancelled one      *)
(* never runs, and none is given up before max_attempts runs, whatever the  *)
(* workers and operators do.                                                *)
LEMMA PriorityImplements == PrioritySpec => PriorityKeepsJobs
<1>1. PriorityInv /\ [PriorityNext]_priorityVars
         => [PriorityQueue!RQNext]_<<[j \in QueueJobs |-> PriorityPhase(j)], handed>>
  BY PriorityStep DEF PriorityRefined
<1> QED
  BY PriorityStarts, PriorityStep, <1>1, PTL DEF PrioritySpec, PriorityKeepsJobs, PriorityQueue!RQSpec

-----------------------------------------------------------------------------
(* The queue of security jobs.                                              *)

(* A job's status tells where it is and how often it was taken.             *)
OpsPlace(j) ==
    /\ j \in opsHeap <=> opsJob[j].status \in {"QUEUED", "RETRYING"}
    /\ opsRunning = j <=> opsJob[j].status = "RUNNING"
    /\ opsJob[j].status = "RUNNING" => j \in OpsHandled
    /\ opsJob[j].status = "FAILED" => deadJobs[j] = 1
    /\ opsJob[j].status # "FAILED" => deadJobs[j] = 0
    /\ opsJob[j].status \in {"none", "QUEUED", "RETRYING"} => opsTaken[j] = opsJob[j].retries
    /\ opsJob[j].status = "RUNNING" => opsTaken[j] = opsJob[j].retries + 1

OpsInv == OpsTypeOK /\ \A j \in OpsJobs : OpsPlace(j)

OpsPhasesTold ==
    \A j \in OpsJobs :
       /\ opsJob[j].status = "none" => OpsPhase(j) = "new"
       /\ opsJob[j].status \in {"QUEUED", "RETRYING"} => OpsPhase(j) = "waiting"
       /\ opsJob[j].status = "RUNNING" => OpsPhase(j) = "running"
       /\ opsJob[j].status = "COMPLETED" => OpsPhase(j) = "done"
       /\ opsJob[j].status = "FAILED" => OpsPhase(j) = "dead"

LEMMA OpsPhasesAreTold == OpsInv => OpsPhasesTold
<1> SUFFICES ASSUME OpsInv, NEW j \in OpsJobs
             PROVE  /\ opsJob[j].status = "none" => OpsPhase(j) = "new"
                    /\ opsJob[j].status \in {"QUEUED", "RETRYING"} => OpsPhase(j) = "waiting"
                    /\ opsJob[j].status = "RUNNING" => OpsPhase(j) = "running"
                    /\ opsJob[j].status = "COMPLETED" => OpsPhase(j) = "done"
                    /\ opsJob[j].status = "FAILED" => OpsPhase(j) = "dead"
  BY DEF OpsPhasesTold
<1>1. OpsPlace(j)
  BY DEF OpsInv
<1> QED
  BY <1>1 DEF OpsPlace, OpsPhase

LEMMA OpsPhasesToldNext == OpsInv' => OpsPhasesTold'
BY OpsPhasesAreTold, PTL

(* One job goes to a status, and nothing is changed of any other.           *)
OpsGoes(j, s, n) ==
    /\ opsJob' \in [OpsJobs -> [status : OpsStatus, retries : 0..MaxRetries]]
    /\ opsJob'[j].status = s /\ opsJob'[j].retries = n
    /\ \A k \in OpsJobs : k # j => opsJob'[k] = opsJob[k]

LEMMA StatusGoes ==
  ASSUME OpsInv, NEW j \in OpsJobs, NEW s \in OpsStatus, SetStatus(j, s)
  PROVE  OpsGoes(j, s, opsJob[j].retries)
BY DEF OpsInv, OpsTypeOK, OpsGoes, SetStatus

LEMMA RetriesGoes ==
  ASSUME OpsInv, NEW j \in OpsJobs, opsJob[j].retries < MaxRetries,
         opsJob' = [opsJob EXCEPT ![j] = [status |-> "RETRYING", retries |-> opsJob[j].retries + 1]]
  PROVE  OpsGoes(j, "RETRYING", opsJob[j].retries + 1)
<1>1. opsJob[j].retries \in 0..MaxRetries /\ MaxRetries \in Nat
      /\ opsJob \in [OpsJobs -> [status : OpsStatus, retries : 0..MaxRetries]]
  BY SecurityJobQueueAssumption DEF OpsInv, OpsTypeOK
<1>2. opsJob[j].retries + 1 \in 0..MaxRetries
  BY <1>1
<1>3. "RETRYING" \in OpsStatus
  BY DEF OpsStatus
<1> QED
  BY <1>1, <1>2, <1>3 DEF OpsGoes

OpsRefined == [SecurityQueue!RQNext]_<<[j \in OpsHandled |-> OpsPhase(j)], [j \in OpsHandled |-> opsTaken[j]]>>

(* When one job goes somewhere, its phase alone changes, if it has one.     *)
LEMMA OpsSteps ==
  ASSUME OpsInv, OpsInv', NEW j \in OpsJobs, NEW s, NEW n, OpsGoes(j, s, n),
         NEW from, NEW to, OpsPhase(j) = from, OpsPhase(j)' = to,
         \A k \in OpsJobs : k # j => opsTaken'[k] = opsTaken[k]
  PROVE  /\ j \in OpsHandled => SecurityQueue!Moves(j, from, to)
         /\ j \notin OpsHandled => OpsRefined
         /\ \A k \in OpsHandled : k # j => opsTaken'[k] = opsTaken[k]
<1>1. OpsPhasesTold /\ OpsPhasesTold' /\ OpsHandled \subseteq OpsJobs
  BY OpsPhasesAreTold, OpsPhasesToldNext, SecurityJobQueueAssumption
<1>2. ASSUME NEW k \in OpsJobs, k # j PROVE OpsPhase(k)' = OpsPhase(k)
  <2>1. opsJob'[k] = opsJob[k] /\ opsJob[k].status \in OpsStatus
    BY <1>2 DEF OpsGoes, OpsInv, OpsTypeOK
  <2> QED
    BY <1>1, <2>1 DEF OpsPhasesTold, OpsStatus
<1>3. j \in OpsHandled => SecurityQueue!Moves(j, from, to)
  BY <1>1, <1>2 DEF SecurityQueue!Moves
<1>4. j \notin OpsHandled => OpsRefined
  BY <1>1, <1>2 DEF OpsRefined
<1> QED
  BY <1>1, <1>3, <1>4

(* A job is new to the queue and taken up by it.                            *)
LEMMA EnqueueOpsStep ==
  ASSUME OpsInv, NEW j \in OpsJobs, EnqueueOps(j)
  PROVE  OpsInv' /\ OpsRefined
<1>1. OpsGoes(j, "QUEUED", opsJob[j].retries)
  BY StatusGoes DEF EnqueueOps, OpsStatus
<1>2. /\ opsJob[j].status = "none" /\ opsHeap' = opsHeap \union {j}
      /\ allJobs' \in [OpsIds -> OpsJobs \union {NoOpsJob}]
      /\ UNCHANGED <<deadJobs, opsRunning, opsTaken>>
  BY DEF EnqueueOps, OpsInv, OpsTypeOK, OpsIds
<1>3. OpsTypeOK'
  BY <1>1, <1>2 DEF OpsInv, OpsTypeOK, OpsGoes
<1>4. ASSUME NEW k \in OpsJobs PROVE OpsPlace(k)'
  <2>1. OpsPlace(k)
    BY DEF OpsInv
  <2>2. CASE k = j
    BY <1>1, <1>2, <2>1, <2>2 DEF OpsPlace, OpsGoes
  <2>3. CASE k # j
    BY <1>1, <1>2, <2>1, <2>3 DEF OpsPlace, OpsGoes
  <2> QED
    BY <2>2, <2>3
<1>5. OpsInv'
  BY <1>3, <1>4 DEF OpsInv
<1>6. OpsPhase(j) = "new" /\ OpsPhase(j)' = "waiting"
  BY <1>1, <1>2, <1>5, OpsPhasesAreTold, OpsPhasesToldNext DEF OpsPhasesTold, OpsGoes
<1>7. (j \in OpsHandled => SecurityQueue!Moves(j, "new", "waiting")) /\ (j \notin OpsHandled => OpsRefined)
  BY <1>1, <1>2, <1>5, <1>6, OpsSteps
<1> QED
  BY <1>2, <1>5, <1>7 DEF OpsRefined, SecurityQueue!RQNext, SecurityQueue!Submit

LEMMA ProcessOneStep ==
  ASSUME OpsInv, ProcessOne
  PROVE  OpsInv' /\ OpsRefined
<1>1. PICK j \in FirstOps :
          /\ opsHeap' = opsHeap \ {j}
          /\ opsTaken' = [opsTaken EXCEPT ![j] = @ + 1]
          /\ IF j \in OpsHandled THEN SetStatus(j, "RUNNING") /\ opsRunning' = j
             ELSE SetStatus(j, "COMPLETED") /\ UNCHANGED opsRunning
  BY DEF ProcessOne
<1>2. /\ j \in OpsJobs /\ j \in opsHeap /\ opsRunning = NoOpsJob
      /\ UNCHANGED <<deadJobs, allJobs>>
  BY DEF ProcessOne, FirstOps, OpsInv, OpsTypeOK
<1> DEFINE s == IF j \in OpsHandled THEN "RUNNING" ELSE "COMPLETED"
<1>3. OpsGoes(j, s, opsJob[j].retries)
  BY <1>1, <1>2, StatusGoes DEF OpsStatus
<1>4. /\ opsTaken' \in [OpsJobs -> Nat] /\ opsTaken'[j] = opsTaken[j] + 1
      /\ \A k \in OpsJobs : k # j => opsTaken'[k] = opsTaken[k]
      /\ opsRunning' = IF j \in OpsHandled THEN j ELSE NoOpsJob
      /\ \A k \in OpsJobs : k # NoOpsJob
  BY <1>1, <1>2, SecurityJobQueueAssumption DEF OpsInv, OpsTypeOK
<1>5. OpsTypeOK'
  BY <1>1, <1>2, <1>3, <1>4 DEF OpsInv, OpsTypeOK, OpsGoes
<1>6. ASSUME NEW k \in OpsJobs PROVE OpsPlace(k)'
  <2>1. OpsPlace(k)
    BY DEF OpsInv
  <2>2. CASE k = j
    BY <1>1, <1>2, <1>3, <1>4, <2>1, <2>2 DEF OpsPlace, OpsGoes
  <2>3. CASE k # j
    BY <1>1, <1>2, <1>3, <1>4, <2>1, <2>3 DEF OpsPlace, OpsGoes
  <2> QED
    BY <2>2, <2>3
<1>7. OpsInv'
  BY <1>5, <1>6 DEF OpsInv
<1>8. opsJob[j].status \in {"QUEUED", "RETRYING"}
  BY <1>2 DEF OpsInv, OpsPlace
<1>9. OpsPhase(j) = "waiting" /\ OpsPhase(j)' = IF j \in OpsHandled THEN "running" ELSE "done"
  BY <1>2, <1>3, <1>7, <1>8, OpsPhasesAreTold, OpsPhasesToldNext DEF OpsPhasesTold, OpsGoes
<1>10. CASE j \in OpsHandled
  <2>1. SecurityQueue!Moves(j, "waiting", "running")
    BY <1>2, <1>3, <1>4, <1>7, <1>9, <1>10, OpsSteps
  <2>2. [k \in OpsHandled |-> opsTaken[k]]'
           = [[k \in OpsHandled |-> opsTaken[k]] EXCEPT ![j] = @ + 1]
    BY <1>4, <1>10, SecurityJobQueueAssumption
  <2> QED
    BY <1>7, <1>10, <2>1, <2>2 DEF OpsRefined, SecurityQueue!RQNext, SecurityQueue!Take
<1>11. CASE j \notin OpsHandled
  BY <1>2, <1>3, <1>4, <1>7, <1>9, <1>11, OpsSteps
<1> QED
  BY <1>10, <1>11

LEMMA HandlerReturnsStep ==
  ASSUME OpsInv, HandlerReturns
  PROVE  OpsInv' /\ OpsRefined
<1>j. PICK j \in OpsJobs : j = opsRunning
  BY DEF HandlerReturns, OpsInv, OpsTypeOK
<1>1. /\ opsRunning = j /\ opsRunning' = NoOpsJob /\ SetStatus(j, "COMPLETED")
      /\ UNCHANGED <<opsHeap, deadJobs, allJobs, opsTaken>>
      /\ \A k \in OpsJobs : k # NoOpsJob
  BY <1>j, SecurityJobQueueAssumption DEF HandlerReturns
<1>2. OpsGoes(j, "COMPLETED", opsJob[j].retries)
  BY <1>1, StatusGoes DEF OpsStatus
<1>3. OpsTypeOK'
  BY <1>1, <1>2 DEF OpsInv, OpsTypeOK, OpsGoes
<1>4. ASSUME NEW k \in OpsJobs PROVE OpsPlace(k)'
  <2>1. OpsPlace(k)
    BY DEF OpsInv
  <2>2. CASE k = j
    BY <1>1, <1>2, <2>1, <2>2 DEF OpsPlace, OpsGoes
  <2>3. CASE k # j
    BY <1>1, <1>2, <2>1, <2>3 DEF OpsPlace, OpsGoes
  <2> QED
    BY <2>2, <2>3
<1>5. OpsInv'
  BY <1>3, <1>4 DEF OpsInv
<1>6. opsJob[j].status = "RUNNING" /\ j \in OpsHandled
  BY <1>1 DEF OpsInv, OpsPlace
<1>7. OpsPhase(j) = "running" /\ OpsPhase(j)' = "done"
  BY <1>2, <1>5, <1>6, OpsPhasesAreTold, OpsPhasesToldNext DEF OpsPhasesTold, OpsGoes
<1>8. SecurityQueue!Moves(j, "running", "done")
  BY <1>1, <1>2, <1>5, <1>6, <1>7, OpsSteps
<1> QED
  BY <1>1, <1>5, <1>6, <1>8 DEF OpsRefined, SecurityQueue!RQNext, SecurityQueue!Done

LEMMA HandlerRaisesStep ==
  ASSUME OpsInv, HandlerRaises
  PROVE  OpsInv' /\ OpsRefined
<1>j. PICK j \in OpsJobs : j = opsRunning
  BY DEF HandlerRaises, OpsInv, OpsTypeOK
<1>1. /\ opsRunning = j /\ opsRunning' = NoOpsJob
      /\ UNCHANGED <<allJobs, opsTaken>>
      /\ \A k \in OpsJobs : k # NoOpsJob
  BY <1>j, SecurityJobQueueAssumption DEF HandlerRaises
<1>2. /\ opsJob[j].status = "RUNNING" /\ j \in OpsHandled /\ deadJobs[j] = 0 /\ j \notin opsHeap
      /\ opsTaken[j] = opsJob[j].retries + 1
      /\ opsJob[j].retries \in 0..MaxRetries /\ MaxRetries \in Nat
      /\ opsJob \in [OpsJobs -> [status : OpsStatus, retries : 0..MaxRetries]]
  BY <1>1, SecurityJobQueueAssumption DEF OpsInv, OpsPlace, OpsTypeOK
<1>3. CASE /\ opsJob[j].retries < MaxRetries
           /\ opsJob' = [opsJob EXCEPT ![j] = [status |-> "RETRYING", retries |-> opsJob[j].retries + 1]]
           /\ opsHeap' = opsHeap \union {j} /\ UNCHANGED deadJobs
  <2>1. OpsGoes(j, "RETRYING", opsJob[j].retries + 1)
    BY <1>3, RetriesGoes
  <2>2. OpsTypeOK'
    BY <1>1, <1>3, <2>1 DEF OpsInv, OpsTypeOK, OpsGoes
  <2>3. ASSUME NEW k \in OpsJobs PROVE OpsPlace(k)'
    <3>1. OpsPlace(k)
      BY DEF OpsInv
    <3>2. CASE k = j
      BY <1>1, <1>2, <1>3, <2>1, <3>1, <3>2 DEF OpsPlace, OpsGoes
    <3>3. CASE k # j
      BY <1>1, <1>3, <2>1, <3>1, <3>3 DEF OpsPlace, OpsGoes
    <3> QED
      BY <3>2, <3>3
  <2>4. OpsInv'
    BY <2>2, <2>3 DEF OpsInv
  <2>5. OpsPhase(j) = "running" /\ OpsPhase(j)' = "waiting"
    BY <1>2, <2>1, <2>4, OpsPhasesAreTold, OpsPhasesToldNext DEF OpsPhasesTold, OpsGoes
  <2>6. SecurityQueue!Moves(j, "running", "waiting")
    BY <1>1, <1>2, <2>1, <2>4, <2>5, OpsSteps
  <2> QED
    BY <1>1, <1>2, <1>3, <2>4, <2>6 DEF OpsRefined, SecurityQueue!RQNext, SecurityQueue!Retry
<1>4. CASE /\ opsJob[j].retries >= MaxRetries
           /\ SetStatus(j, "FAILED")
           /\ deadJobs' = [deadJobs EXCEPT ![j] = @ + 1] /\ UNCHANGED opsHeap
  <2>1. OpsGoes(j, "FAILED", opsJob[j].retries)
    BY <1>4, StatusGoes DEF OpsStatus
  <2>2. deadJobs' \in [OpsJobs -> Nat] /\ deadJobs'[j] = 1
        /\ \A k \in OpsJobs : k # j => deadJobs'[k] = deadJobs[k]
    BY <1>2, <1>4 DEF OpsInv, OpsTypeOK
  <2>3. OpsTypeOK'
    BY <1>1, <1>4, <2>1, <2>2 DEF OpsInv, OpsTypeOK, OpsGoes
  <2>4. ASSUME NEW k \in OpsJobs PROVE OpsPlace(k)'
    <3>1. OpsPlace(k)
      BY DEF OpsInv
    <3>2. CASE k = j
      BY <1>1, <1>2, <1>4, <2>1, <2>2, <3>1, <3>2 DEF OpsPlace, OpsGoes
    <3>3. CASE k # j
      BY <1>1, <1>4, <2>1, <2>2, <3>1, <3>3 DEF OpsPlace, OpsGoes
    <3> QED
      BY <3>2, <3>3
  <2>5. OpsInv'
    BY <2>3, <2>4 DEF OpsInv
  <2>6. OpsPhase(j) = "running" /\ OpsPhase(j)' = "dead"
    BY <1>2, <2>1, <2>5, OpsPhasesAreTold, OpsPhasesToldNext DEF OpsPhasesTold, OpsGoes
  <2>7. SecurityQueue!Moves(j, "running", "dead")
    BY <1>1, <1>2, <2>1, <2>5, <2>6, OpsSteps
  <2> QED
    BY <1>1, <1>2, <1>4, <2>5, <2>7 DEF OpsRefined, SecurityQueue!RQNext, SecurityQueue!GiveUp
<1> QED
  BY <1>1, <1>3, <1>4 DEF HandlerRaises

LEMMA OpsStep == OpsInv /\ [OpsNext]_opsVars => OpsInv' /\ OpsRefined
<1> SUFFICES ASSUME OpsInv, [OpsNext]_opsVars PROVE OpsInv' /\ OpsRefined
  OBVIOUS
<1>1. CASE UNCHANGED opsVars
  BY <1>1 DEF opsVars, OpsInv, OpsTypeOK, OpsPlace, OpsRefined, OpsPhase
<1> QED
  BY <1>1, EnqueueOpsStep, ProcessOneStep, HandlerReturnsStep, HandlerRaisesStep DEF OpsNext

LEMMA OpsStarts == OpsInit => OpsInv /\ SecurityQueue!RQInit
<1> SUFFICES ASSUME OpsInit PROVE OpsInv /\ SecurityQueue!RQInit
  OBVIOUS
<1>1. OpsTypeOK /\ \A j \in OpsJobs : OpsPlace(j)
  BY SecurityJobQueueAssumption DEF OpsInit, OpsTypeOK, OpsPlace, OpsStatus
<1>2. \A j \in OpsHandled : OpsPhase(j) = "new" /\ opsTaken[j] = 0
  BY SecurityJobQueueAssumption DEF OpsInit, OpsPhase
<1> QED
  BY <1>1, <1>2 DEF OpsInv, SecurityQueue!RQInit

LEMMA OpsImplements == OpsSpec => SecurityQueueKeepsJobs
<1>1. OpsInv /\ [OpsNext]_opsVars
         => [SecurityQueue!RQNext]_<<[j \in OpsHandled |-> OpsPhase(j)], [j \in OpsHandled |-> opsTaken[j]]>>
  BY OpsStep DEF OpsRefined
<1> QED
  BY OpsStarts, OpsStep, <1>1, PTL DEF OpsSpec, SecurityQueueKeepsJobs, SecurityQueue!RQSpec

(* Both job queues of the code implement the abstract one, for any number   *)
(* of jobs and workers: a job is in the heap, with one worker, in the dead  *)
(* letters or done, it runs again until it has run as often as it may, and  *)
(* what was cancelled or is done never runs.                                *)
THEOREM QueuesAlwaysKeepJobs == PrioritySpec /\ OpsSpec => QueuesKeepJobs
BY PriorityImplements, OpsImplements DEF QueuesKeepJobs

-----------------------------------------------------------------------------
(* Reviews of compliance.                                                   *)

(* Of some numbers one is the least.                                        *)
LEMMA LeastExists ==
  ASSUME NEW S, S \subseteq Nat, S # {}
  PROVE  Min(S) \in S /\ \A s \in S : Min(S) <= s
<1>1. PICK x \in S : \A y \in S : <<y, x>> \notin OpToRel(<, Nat)
  BY NatLessThanWellFounded, WFMin, Zenon
<1>2. \A y \in S : ~(y < x)
  BY <1>1, Zenon DEF OpToRel
<1>3. \A y \in S : x <= y
  BY <1>2
<1> QED
  BY <1>3 DEF Min

AssessmentStatus == {"DRAFT", "IN_PROGRESS", "REVIEW", "APPROVED"}
AssessmentRecord == [organisation : Organisations, assessor : People, reviewer : People \union {Nobody},
                     status : AssessmentStatus, score : 0..Cardinality(Controls)]
EvaluationRecord == [said : [Controls -> ControlStates], by : [Controls -> Nat], at : Nat]
ExceptionRecord == [control : Controls, organisation : Organisations, owner : People,
                    approver : People \union {Nobody},
                    status : {"PENDING_APPROVAL", "APPROVED", "EXPIRED"}, expires : Nat]

ReviewTyped ==
    /\ assessments \in [Assessments -> {NotMade} \union AssessmentRecord]
    /\ evaluations \in [Assessments -> EvaluationRecord]
    /\ reviewed \in [Assessments -> Nat]
    /\ controlStatus \in [Controls -> ControlStates]
    /\ exceptions \in Seq(ExceptionRecord) /\ Len(exceptions) <= MaxExceptions
    /\ gaps \subseteq Controls \X Organisations
    /\ reviewTime \in 0..ReviewHorizon

(* Who approved an exception is somebody else than its owner, also when its *)
(* time is over; an evaluation names exceptions that are there, and only an *)
(* assessment that was made was evaluated.                                  *)
OthersApprove ==
    \A n \in DOMAIN exceptions : exceptions[n].status # "PENDING_APPROVAL"
                                    => exceptions[n].approver \notin {exceptions[n].owner, Nobody}
ExcusesThere ==
    \A a \in Assessments, c \in Controls :
       evaluations[a].by[c] # 0 => evaluations[a].by[c] \in DOMAIN exceptions
EvaluatedMade == \A a \in Assessments : assessments[a] = NotMade => evaluations[a] = NotEvaluated

ComplianceInv ==
    /\ ReviewTyped /\ ApprovalStands /\ OthersApprove /\ ExcusesThere /\ EvaluatedMade
    /\ ExcusedRightly /\ GapsTell

LEMMA MadeFields ==
  ASSUME ReviewTyped, NEW a \in Assessments
  PROVE  /\ a \in Made <=> assessments[a] # NotMade
         /\ a \in Made => assessments[a] \in AssessmentRecord
         /\ evaluations[a] \in EvaluationRecord
         /\ assessments[a] \in AssessmentRecord => a \in Made
BY DEF ReviewTyped, Made, NotMade, AssessmentRecord, AssessmentStatus

LEMMA ExceptionFields ==
  ASSUME ReviewTyped, NEW n \in DOMAIN exceptions
  PROVE  n \in 1..Len(exceptions) /\ exceptions[n] \in ExceptionRecord
BY DEF ReviewTyped

(* One assessment is written, and the others stay as they are.              *)
Written(a) == /\ assessments' \in [Assessments -> {NotMade} \union AssessmentRecord]
              /\ assessments'[a] \in AssessmentRecord
              /\ \A b \in Assessments : b # a => assessments'[b] = assessments[b]

LEMMA CreateStep ==
  ASSUME ComplianceInv, NEW a \in Assessments, NEW o \in Organisations, NEW p \in People,
         CreateAssessment(a, o, p)
  PROVE  ComplianceInv'
<1> DEFINE r == [organisation |-> o, assessor |-> p, reviewer |-> Nobody, status |-> "DRAFT", score |-> 0]
<1>1. /\ a \notin Made /\ assessments' = [assessments EXCEPT ![a] = r]
      /\ UNCHANGED <<evaluations, reviewed, controlStatus, exceptions, gaps, reviewTime>>
      /\ ReviewTyped
  BY DEF CreateAssessment, ComplianceInv
<1>2. Cardinality(Controls) \in Nat
  BY ComplianceAssumption, FS_CardinalityType
<1>3. r \in AssessmentRecord /\ r.status = "DRAFT"
  BY <1>2 DEF AssessmentRecord, AssessmentStatus
<1> HIDE DEF r
<1>4. Written(a) /\ assessments'[a] = r
  BY <1>1, <1>3 DEF Written, ReviewTyped
<1>5. ReviewTyped'
  BY <1>1, <1>4 DEF ReviewTyped, Written
<1>6. Made' = Made \union {a} /\ assessments[a] = NotMade
  BY <1>1, <1>3, <1>4, <1>5, MadeFields DEF Made, Written, NotMade, AssessmentRecord
<1>7. evaluations[a] = NotEvaluated
  BY <1>6 DEF ComplianceInv, EvaluatedMade
<1>8. /\ \A c \in Controls : evaluations[a].by[c] = 0 /\ evaluations[a].said[c] = "NOT_ASSESSED"
      /\ \A b \in Made : b \in Assessments /\ b # a /\ assessments'[b] = assessments[b]
  BY <1>1, <1>4, <1>7 DEF NotEvaluated, Made, Written
<1>9. ApprovalStands'
  BY <1>1, <1>3, <1>4, <1>6, <1>8 DEF ComplianceInv, ApprovalStands
<1>10. OthersApprove' /\ ExcusesThere'
  BY <1>1 DEF ComplianceInv, OthersApprove, ExcusesThere
<1>11. EvaluatedMade'
  BY <1>1, <1>4, <1>7 DEF ComplianceInv, EvaluatedMade, Written
<1>12. ExcusedRightly'
  BY <1>1, <1>6, <1>8 DEF ComplianceInv, ExcusedRightly
<1>13. GapsTell'
  BY <1>1, <1>6, <1>8 DEF ComplianceInv, GapsTell
<1> QED
  BY <1>5, <1>9, <1>10, <1>11, <1>12, <1>13 DEF ComplianceInv

LEMMA ReviewStep ==
  ASSUME ComplianceInv, NEW a \in Assessments, NEW p \in People, NEW approved \in BOOLEAN,
         SubmitReview(a, p, approved)
  PROVE  ComplianceInv'
<1> DEFINE s == IF approved THEN "APPROVED" ELSE "REVIEW"
<1>1. /\ a \in Made /\ assessments[a].assessor # p
      /\ assessments' = [assessments EXCEPT ![a].reviewer = p, ![a].status = s]
      /\ reviewed' = [reviewed EXCEPT ![a] = assessments[a].score]
      /\ UNCHANGED <<evaluations, controlStatus, exceptions, gaps, reviewTime>>
      /\ ReviewTyped
  BY DEF SubmitReview, ComplianceInv
<1>2. assessments[a] \in AssessmentRecord /\ s \in AssessmentStatus
  BY <1>1, MadeFields DEF AssessmentStatus
<1>3. assessments[a].score \in Nat
  BY <1>2, ComplianceAssumption, FS_CardinalityType DEF AssessmentRecord
<1> HIDE DEF s
<1>4. /\ Written(a) /\ assessments'[a].reviewer = p
      /\ assessments'[a].assessor = assessments[a].assessor
      /\ assessments'[a].organisation = assessments[a].organisation
      /\ assessments'[a].score = assessments[a].score
  BY <1>1, <1>2 DEF Written, ReviewTyped, AssessmentRecord
<1>5. reviewed' \in [Assessments -> Nat] /\ reviewed'[a] = assessments[a].score
      /\ \A b \in Assessments : b # a => reviewed'[b] = reviewed[b]
  BY <1>1, <1>3 DEF ReviewTyped
<1>6. ReviewTyped'
  BY <1>1, <1>4, <1>5 DEF ReviewTyped, Written
<1>7. Made' = Made /\ \A b \in Made : assessments'[b].organisation = assessments[b].organisation
  BY <1>1, <1>4, <1>6, MadeFields DEF Made, Written, NotMade, AssessmentRecord, AssessmentStatus
<1>8. ApprovalStands'
  <2> SUFFICES ASSUME NEW b \in Made, assessments'[b].status = "APPROVED"
               PROVE  /\ assessments'[b].reviewer \notin {assessments'[b].assessor, Nobody}
                      /\ assessments'[b].score = reviewed'[b]
    BY <1>7 DEF ApprovalStands
  <2>1. CASE b = a
    BY <1>1, <1>4, <1>5, <2>1, ComplianceAssumption
  <2>2. CASE b # a
    BY <1>4, <1>5, <2>2 DEF ComplianceInv, ApprovalStands, Written, Made
  <2> QED
    BY <2>1, <2>2
<1>9. OthersApprove' /\ ExcusesThere'
  BY <1>1 DEF ComplianceInv, OthersApprove, ExcusesThere
<1>10. EvaluatedMade'
  BY <1>1, <1>4, <1>7 DEF ComplianceInv, EvaluatedMade, Made
<1>11. ExcusedRightly'
  BY <1>1, <1>7 DEF ComplianceInv, ExcusedRightly
<1>12. GapsTell'
  <2>1. \A b \in Made, c \in Controls :
           evaluations'[b].said[c] = "NON_COMPLIANT" => <<c, assessments'[b].organisation>> \in gaps'
    BY <1>1, <1>7 DEF ComplianceInv, GapsTell
  <2> QED
    BY <1>1, <1>7, <2>1 DEF ComplianceInv, GapsTell
<1> QED
  BY <1>6, <1>8, <1>9, <1>10, <1>11, <1>12 DEF ComplianceInv

(* What an evaluation looks at and what it says.                            *)
Excuses(o) == [c \in Controls |-> ActiveException(c, o)]
Says(o, found) == [c \in Controls |->
    IF Excuses(o)[c] # 0 THEN "NOT_APPLICABLE"
    ELSE CASE found[c] = "none" -> "COMPLIANT"
           [] found[c] = "high" -> "NON_COMPLIANT"
           [] OTHER -> "PARTIALLY_COMPLIANT"]

LEMMA ExcuseHolds ==
  ASSUME ReviewTyped, NEW c \in Controls, NEW o
  PROVE  /\ Excuses(o)[c] \in Nat
         /\ Excuses(o)[c] # 0 => Excuses(o)[c] \in Unexpired(c, o)
<1>1. Unexpired(c, o) \subseteq Nat
  BY DEF ReviewTyped, Unexpired, Approved
<1>2. CASE Unexpired(c, o) = {}
  BY <1>2 DEF Excuses, ActiveException
<1>3. CASE Unexpired(c, o) # {}
  <2>1. Min(Unexpired(c, o)) \in Unexpired(c, o)
    BY <1>1, <1>3, LeastExists
  <2> QED
    BY <1>1, <1>3, <2>1 DEF Excuses, ActiveException
<1> QED
  BY <1>2, <1>3

LEMMA SaysTyped ==
  ASSUME NEW o, NEW found
  PROVE  /\ Says(o, found) \in [Controls -> ControlStates]
         /\ \A c \in Controls : Says(o, found)[c] = "NON_COMPLIANT" => Excuses(o)[c] = 0
<1>1. ASSUME NEW c \in Controls
      PROVE  /\ Says(o, found)[c] \in ControlStates
             /\ Says(o, found)[c] = "NON_COMPLIANT" => Excuses(o)[c] = 0
  <2>1. CASE Excuses(o)[c] # 0
    BY <2>1 DEF Says, ControlStates
  <2>2. CASE Excuses(o)[c] = 0
    BY <2>2 DEF Says, ControlStates
  <2> QED
    BY <2>1, <2>2
<1>2. Says(o, found) = [c \in Controls |-> Says(o, found)[c]]
  BY DEF Says
<1> QED
  BY <1>1, <1>2

LEMMA EvaluateStep ==
  ASSUME ComplianceInv, NEW a \in Assessments, NEW found \in [Controls -> {"none", "low", "high"}],
         EvaluateControls(a, found)
  PROVE  ComplianceInv'
<1>t. ReviewTyped /\ a \in Made
  BY DEF ComplianceInv, EvaluateControls
<1>o. PICK o \in Organisations : o = assessments[a].organisation
  BY <1>t, MadeFields DEF AssessmentRecord
<1> DEFINE excuse == Excuses(o)
           said == Says(o, found)
           counted == {c \in Controls : said[c] \in {"NOT_APPLICABLE", "COMPLIANT"}}
           score == Cardinality(counted)
           failing == {<<c, o>> : c \in {d \in Controls : said[d] = "NON_COMPLIANT"}}
           expired == UNION {ExpiredBefore(c, o) : c \in Controls}
           e == [said |-> said, by |-> excuse, at |-> reviewTime]
<1>1. /\ controlStatus' = [c \in Controls |-> IF excuse[c] # 0 THEN controlStatus[c] ELSE said[c]]
      /\ gaps' = gaps \cup failing
      /\ exceptions' = [n \in DOMAIN exceptions |->
                          IF n \in expired THEN [exceptions[n] EXCEPT !.status = "EXPIRED"] ELSE exceptions[n]]
      /\ assessments' = [assessments EXCEPT ![a].score = score, ![a].status = "IN_PROGRESS"]
      /\ evaluations' = [evaluations EXCEPT ![a] = e]
      /\ UNCHANGED <<reviewed, reviewTime>>
  BY <1>o DEF EvaluateControls, Excuses, Says
<1>2. /\ said \in [Controls -> ControlStates]
      /\ \A c \in Controls : said[c] = "NON_COMPLIANT" => excuse[c] = 0
  BY SaysTyped
<1>3. \A c \in Controls : excuse[c] \in Nat /\ (excuse[c] # 0 => excuse[c] \in Unexpired(c, o))
  BY <1>t, ExcuseHolds
<1>4. excuse \in [Controls -> Nat]
  BY <1>3 DEF Excuses
<1>5. score \in 0..Cardinality(Controls)
  <2>1. counted \in SUBSET Controls
    OBVIOUS
  <2> HIDE DEF counted
  <2>2. IsFiniteSet(counted) /\ score <= Cardinality(Controls)
    BY <2>1, ComplianceAssumption, FS_Subset
  <2>3. score \in Nat /\ Cardinality(Controls) \in Nat
    BY <2>2, ComplianceAssumption, FS_CardinalityType
  <2> QED
    BY <2>2, <2>3
<1>6. reviewTime \in Nat
  BY <1>t, ComplianceAssumption DEF ReviewTyped
<1>7. e \in EvaluationRecord /\ e.said = said /\ e.by = excuse /\ e.at = reviewTime
  BY <1>2, <1>4, <1>6 DEF EvaluationRecord
<1> HIDE DEF score, e, said, excuse, expired
<1>8. /\ Written(a) /\ assessments'[a].status = "IN_PROGRESS"
      /\ assessments'[a].organisation = assessments[a].organisation
  <2>1. assessments[a] \in AssessmentRecord /\ assessments \in [Assessments -> {NotMade} \union AssessmentRecord]
    BY <1>t, MadeFields DEF ReviewTyped
  <2> QED
    BY <1>1, <1>5, <2>1 DEF Written, AssessmentRecord, AssessmentStatus
<1>9. /\ evaluations' \in [Assessments -> EvaluationRecord] /\ evaluations'[a] = e
      /\ \A b \in Assessments : b # a => evaluations'[b] = evaluations[b]
  BY <1>1, <1>7, <1>t DEF ReviewTyped
<1>10. /\ exceptions' \in Seq(ExceptionRecord) /\ Len(exceptions') = Len(exceptions)
       /\ DOMAIN exceptions' = DOMAIN exceptions
       /\ \A n \in DOMAIN exceptions :
             /\ exceptions'[n].control = exceptions[n].control
             /\ exceptions'[n].organisation = exceptions[n].organisation
             /\ exceptions'[n].owner = exceptions[n].owner
             /\ exceptions'[n].approver = exceptions[n].approver
             /\ exceptions'[n].expires = exceptions[n].expires
             /\ exceptions[n].status = "PENDING_APPROVAL" => exceptions'[n].status = "PENDING_APPROVAL"
  <2>1. exceptions \in Seq(ExceptionRecord) /\ Len(exceptions) \in Nat /\ DOMAIN exceptions = 1..Len(exceptions)
    BY <1>t DEF ReviewTyped
  <2>2. ASSUME NEW n \in DOMAIN exceptions
        PROVE  /\ exceptions'[n] \in ExceptionRecord
               /\ exceptions'[n].control = exceptions[n].control
               /\ exceptions'[n].organisation = exceptions[n].organisation
               /\ exceptions'[n].owner = exceptions[n].owner
               /\ exceptions'[n].approver = exceptions[n].approver
               /\ exceptions'[n].expires = exceptions[n].expires
               /\ exceptions[n].status = "PENDING_APPROVAL" => exceptions'[n].status = "PENDING_APPROVAL"
    <3>1. exceptions[n] \in ExceptionRecord
      BY <1>t, ExceptionFields
    <3>2. n \in expired => exceptions[n].status = "APPROVED"
      BY DEF expired, ExpiredBefore, Approved
    <3>3. CASE n \in expired
      BY <1>1, <3>1, <3>2, <3>3 DEF ExceptionRecord
    <3>4. CASE n \notin expired
      BY <1>1, <3>1, <3>4
    <3> QED
      BY <3>3, <3>4
  <2>3. DOMAIN exceptions' = 1..Len(exceptions) /\ exceptions' \in [1..Len(exceptions) -> ExceptionRecord]
    BY <1>1, <2>1, <2>2
  <2>4. exceptions' \in Seq(ExceptionRecord) /\ Len(exceptions') = Len(exceptions)
    BY <2>1, <2>3
  <2> QED
    BY <2>1, <2>2, <2>3, <2>4
<1>11. /\ controlStatus' \in [Controls -> ControlStates] /\ gaps' \subseteq Controls \X Organisations
       /\ gaps \subseteq gaps' /\ \A c \in Controls : said[c] = "NON_COMPLIANT" => <<c, o>> \in gaps'
  BY <1>1, <1>2, <1>t DEF ReviewTyped
<1>12. ReviewTyped'
  <2>1. reviewed' \in [Assessments -> Nat] /\ reviewTime' \in 0..ReviewHorizon /\ Len(exceptions) <= MaxExceptions
    BY <1>1, <1>t DEF ReviewTyped
  <2> QED
    BY <1>8, <1>9, <1>10, <1>11, <2>1 DEF ReviewTyped, Written
<1>13. Made' = Made /\ \A b \in Made : assessments'[b].organisation = assessments[b].organisation
  BY <1>t, <1>8, <1>12, MadeFields DEF Made, Written, NotMade, AssessmentRecord, AssessmentStatus
<1>14. ApprovalStands'
  BY <1>1, <1>8, <1>13 DEF ComplianceInv, ApprovalStands, Written, Made
<1>15. OthersApprove'
  BY <1>10 DEF ComplianceInv, OthersApprove
<1>16. ASSUME NEW c \in Controls, excuse[c] # 0
       PROVE  /\ excuse[c] \in DOMAIN exceptions
              /\ exceptions[excuse[c]].control = c /\ exceptions[excuse[c]].organisation = o
              /\ exceptions[excuse[c]].approver \notin {exceptions[excuse[c]].owner, Nobody}
              /\ reviewTime <= exceptions[excuse[c]].expires
  <2>1. excuse[c] \in Unexpired(c, o)
    BY <1>3, <1>16
  <2>2. /\ excuse[c] \in DOMAIN exceptions /\ exceptions[excuse[c]].status = "APPROVED"
        /\ exceptions[excuse[c]].control = c /\ exceptions[excuse[c]].organisation = o
        /\ exceptions[excuse[c]].expires >= reviewTime
    BY <2>1 DEF Unexpired, Approved
  <2>3. exceptions[excuse[c]] \in ExceptionRecord
    BY <1>t, <2>2, ExceptionFields
  <2> QED
    BY <1>6, <2>2, <2>3 DEF ComplianceInv, OthersApprove, ExceptionRecord
<1>17. ExcusesThere'
  <2> SUFFICES ASSUME NEW b \in Assessments, NEW c \in Controls, evaluations'[b].by[c] # 0
               PROVE  evaluations'[b].by[c] \in DOMAIN exceptions'
    BY DEF ExcusesThere
  <2>1. CASE b = a
    BY <1>7, <1>9, <1>10, <1>16, <2>1
  <2>2. CASE b # a
    BY <1>9, <1>10, <2>2 DEF ComplianceInv, ExcusesThere
  <2> QED
    BY <2>1, <2>2
<1>18. EvaluatedMade'
  BY <1>t, <1>8, <1>9, <1>12, <1>13 DEF ComplianceInv, EvaluatedMade, Written, Made
<1>19. ExcusedRightly'
  <2> SUFFICES ASSUME NEW b \in Made, NEW c \in Controls, evaluations'[b].by[c] # 0
               PROVE  LET x == exceptions'[evaluations'[b].by[c]] IN
                      /\ x.control = c /\ x.organisation = assessments'[b].organisation
                      /\ x.approver \notin {x.owner, Nobody}
                      /\ evaluations'[b].at <= x.expires
    BY <1>13 DEF ExcusedRightly
  <2>1. CASE b = a
    BY <1>7, <1>8, <1>9, <1>10, <1>16, <1>o, <2>1
  <2>2. CASE b # a
    <3>1. evaluations'[b] = evaluations[b] /\ assessments'[b].organisation = assessments[b].organisation
          /\ evaluations[b].by[c] \in DOMAIN exceptions
      BY <1>9, <1>13, <2>2 DEF ComplianceInv, ExcusesThere, Made
    <3> QED
      BY <1>10, <3>1 DEF ComplianceInv, ExcusedRightly
  <2> QED
    BY <2>1, <2>2
<1>20. GapsTell'
  <2>1. ASSUME NEW b \in Made, NEW c \in Controls, evaluations'[b].said[c] = "NON_COMPLIANT"
        PROVE  <<c, assessments'[b].organisation>> \in gaps'
    <3>1. CASE b = a
      BY <1>7, <1>8, <1>9, <1>11, <1>o, <2>1, <3>1
    <3>2. CASE b # a
      <4>1. evaluations'[b] = evaluations[b] /\ assessments'[b].organisation = assessments[b].organisation
        BY <1>9, <1>13, <3>2 DEF Made
      <4> QED
        BY <1>11, <2>1, <4>1 DEF ComplianceInv, GapsTell
    <3> QED
      BY <3>1, <3>2
  <2>2. ASSUME NEW c \in Controls, controlStatus'[c] = "NON_COMPLIANT"
        PROVE  \E q \in Organisations : <<c, q>> \in gaps'
    <3>1. CASE excuse[c] # 0
      BY <1>1, <1>11, <2>2, <3>1 DEF ComplianceInv, GapsTell
    <3>2. CASE excuse[c] = 0
      BY <1>1, <1>11, <2>2, <3>2
    <3> QED
      BY <3>1, <3>2
  <2> QED
    BY <1>13, <2>1, <2>2 DEF GapsTell
<1> QED
  BY <1>12, <1>14, <1>15, <1>17, <1>18, <1>19, <1>20 DEF ComplianceInv

(* What a step on the exceptions leaves of the rest.                        *)
LEMMA ExceptionsGoOn ==
  ASSUME ComplianceInv, UNCHANGED <<assessments, evaluations, reviewed, controlStatus, gaps, reviewTime>>,
         exceptions' \in Seq(ExceptionRecord), Len(exceptions') <= MaxExceptions, OthersApprove',
         \A n \in DOMAIN exceptions :
            /\ n \in DOMAIN exceptions'
            /\ exceptions'[n].control = exceptions[n].control
            /\ exceptions'[n].organisation = exceptions[n].organisation
            /\ exceptions'[n].expires = exceptions[n].expires
            /\ exceptions[n].approver \notin {exceptions[n].owner, Nobody}
                  => exceptions'[n].approver \notin {exceptions'[n].owner, Nobody}
  PROVE  ComplianceInv'
<1>1. ReviewTyped'
  BY DEF ComplianceInv, ReviewTyped
<1>2. Made' = Made
  BY DEF Made
<1>3. ApprovalStands' /\ EvaluatedMade' /\ GapsTell'
  BY <1>2 DEF ComplianceInv, ApprovalStands, EvaluatedMade, GapsTell
<1>4. ExcusesThere'
  BY DEF ComplianceInv, ExcusesThere
<1>5. ExcusedRightly'
  <2> SUFFICES ASSUME NEW b \in Made, NEW c \in Controls, evaluations[b].by[c] # 0
               PROVE  LET x == exceptions'[evaluations[b].by[c]] IN
                      /\ x.control = c /\ x.organisation = assessments[b].organisation
                      /\ x.approver \notin {x.owner, Nobody}
                      /\ evaluations[b].at <= x.expires
    BY <1>2 DEF ExcusedRightly
  <2>1. evaluations[b].by[c] \in DOMAIN exceptions
    BY DEF ComplianceInv, ExcusesThere, Made
  <2> QED
    BY <2>1 DEF ComplianceInv, ExcusedRightly
<1> QED
  BY <1>1, <1>3, <1>4, <1>5 DEF ComplianceInv

LEMMA RequestStep ==
  ASSUME ComplianceInv, NEW c \in Controls, NEW o \in Organisations, NEW p \in People,
         RequestException(c, o, p)
  PROVE  ComplianceInv'
<1> DEFINE x == [control |-> c, organisation |-> o, owner |-> p, approver |-> Nobody,
                 status |-> "PENDING_APPROVAL", expires |-> reviewTime + Lifetime]
<1>1. /\ exceptions' = Append(exceptions, x) /\ Len(exceptions) < MaxExceptions
      /\ UNCHANGED <<assessments, evaluations, reviewed, controlStatus, gaps, reviewTime>>
  BY DEF RequestException
<1>2. exceptions \in Seq(ExceptionRecord) /\ reviewTime \in Nat /\ Lifetime \in Nat /\ MaxExceptions \in Nat
  BY ComplianceAssumption DEF ComplianceInv, ReviewTyped
<1>3. x \in ExceptionRecord /\ x.status = "PENDING_APPROVAL"
  BY <1>2 DEF ExceptionRecord
<1> HIDE DEF x
<1>4. /\ exceptions' \in Seq(ExceptionRecord) /\ Len(exceptions') = Len(exceptions) + 1
      /\ DOMAIN exceptions = 1..Len(exceptions) /\ DOMAIN exceptions' = 1..(Len(exceptions) + 1)
      /\ Len(exceptions) \in Nat
      /\ \A n \in 1..Len(exceptions) : exceptions'[n] = exceptions[n]
      /\ exceptions'[Len(exceptions) + 1] = x
  BY <1>1, <1>2, <1>3
<1>5. OthersApprove'
  <2> SUFFICES ASSUME NEW n \in 1..(Len(exceptions) + 1), exceptions'[n].status # "PENDING_APPROVAL"
               PROVE  exceptions'[n].approver \notin {exceptions'[n].owner, Nobody}
    BY <1>4 DEF OthersApprove
  <2>1. n \in 1..Len(exceptions) /\ exceptions'[n] = exceptions[n]
    BY <1>3, <1>4
  <2> QED
    BY <1>4, <2>1 DEF ComplianceInv, OthersApprove
<1>6. Len(exceptions') <= MaxExceptions
  BY <1>1, <1>2, <1>4
<1> QED
  BY <1>1, <1>4, <1>5, <1>6, ExceptionsGoOn

LEMMA ApproveStep ==
  ASSUME ComplianceInv, NEW m \in 1..MaxExceptions, NEW p \in People, ApproveException(m, p)
  PROVE  ComplianceInv'
<1>1. /\ m \in DOMAIN exceptions /\ exceptions[m].owner # p
      /\ exceptions' = [exceptions EXCEPT ![m].approver = p, ![m].status = "APPROVED"]
      /\ UNCHANGED <<assessments, evaluations, reviewed, controlStatus, gaps, reviewTime>>
  BY DEF ApproveException
<1>2. /\ exceptions \in Seq(ExceptionRecord) /\ Len(exceptions) <= MaxExceptions
      /\ DOMAIN exceptions = 1..Len(exceptions) /\ exceptions[m] \in ExceptionRecord
      /\ exceptions \in [1..Len(exceptions) -> ExceptionRecord] /\ Len(exceptions) \in Nat
  BY <1>1, ExceptionFields DEF ComplianceInv, ReviewTyped
<1>3. /\ exceptions' \in [1..Len(exceptions) -> ExceptionRecord]
      /\ \A n \in 1..Len(exceptions) : n # m => exceptions'[n] = exceptions[n]
  BY <1>1, <1>2 DEF ExceptionRecord
<1>4. /\ exceptions'[m].approver = p /\ exceptions'[m].owner = exceptions[m].owner
      /\ exceptions'[m].control = exceptions[m].control
      /\ exceptions'[m].organisation = exceptions[m].organisation
      /\ exceptions'[m].expires = exceptions[m].expires
  BY <1>1, <1>2 DEF ExceptionRecord
<1>5. /\ exceptions' \in Seq(ExceptionRecord) /\ Len(exceptions') = Len(exceptions)
      /\ DOMAIN exceptions' = 1..Len(exceptions)
  BY <1>2, <1>3
<1>6. p \notin {exceptions[m].owner, Nobody}
  BY <1>1, ComplianceAssumption
<1>7. OthersApprove'
  <2> SUFFICES ASSUME NEW n \in 1..Len(exceptions), exceptions'[n].status # "PENDING_APPROVAL"
               PROVE  exceptions'[n].approver \notin {exceptions'[n].owner, Nobody}
    BY <1>5 DEF OthersApprove
  <2>1. CASE n = m
    BY <1>4, <1>6, <2>1
  <2>2. CASE n # m
    BY <1>2, <1>3, <2>2 DEF ComplianceInv, OthersApprove
  <2> QED
    BY <2>1, <2>2
<1>8. ASSUME NEW n \in DOMAIN exceptions
      PROVE  /\ n \in DOMAIN exceptions'
             /\ exceptions'[n].control = exceptions[n].control
             /\ exceptions'[n].organisation = exceptions[n].organisation
             /\ exceptions'[n].expires = exceptions[n].expires
             /\ exceptions[n].approver \notin {exceptions[n].owner, Nobody}
                   => exceptions'[n].approver \notin {exceptions'[n].owner, Nobody}
  <2>1. CASE n = m
    BY <1>2, <1>4, <1>5, <1>6, <2>1
  <2>2. CASE n # m
    BY <1>2, <1>3, <1>5, <2>2
  <2> QED
    BY <2>1, <2>2
<1> QED
  BY <1>1, <1>2, <1>5, <1>7, <1>8, ExceptionsGoOn

LEMMA ComplianceStep == ComplianceInv /\ [ComplianceNext]_complianceVars => ComplianceInv'
<1> SUFFICES ASSUME ComplianceInv, [ComplianceNext]_complianceVars PROVE ComplianceInv'
  OBVIOUS
<1>1. CASE ReviewTick
  <2>1. UNCHANGED <<assessments, evaluations, reviewed, controlStatus, exceptions, gaps>>
        /\ reviewTime < ReviewHorizon /\ reviewTime' = reviewTime + 1
    BY <1>1 DEF ReviewTick
  <2>2. ReviewTyped'
    BY <2>1, ComplianceAssumption DEF ComplianceInv, ReviewTyped
  <2>3. Made' = Made
    BY <2>1 DEF Made
  <2>4. ApprovalStands' /\ OthersApprove' /\ ExcusesThere' /\ EvaluatedMade'
    BY <2>1, <2>3 DEF ComplianceInv, ApprovalStands, OthersApprove, ExcusesThere, EvaluatedMade
  <2>5. ExcusedRightly' /\ GapsTell'
    BY <2>1, <2>3 DEF ComplianceInv, ExcusedRightly, GapsTell
  <2> QED
    BY <2>2, <2>4, <2>5 DEF ComplianceInv
<1>2. CASE UNCHANGED complianceVars
  <2>1. UNCHANGED <<assessments, evaluations, reviewed, controlStatus, exceptions, gaps, reviewTime>>
    BY <1>2 DEF complianceVars
  <2>2. ReviewTyped' /\ Made' = Made
    BY <2>1 DEF ComplianceInv, ReviewTyped, Made
  <2>3. ApprovalStands' /\ OthersApprove' /\ ExcusesThere' /\ EvaluatedMade'
    BY <2>1, <2>2 DEF ComplianceInv, ApprovalStands, OthersApprove, ExcusesThere, EvaluatedMade
  <2>4. ExcusedRightly' /\ GapsTell'
    BY <2>1, <2>2 DEF ComplianceInv, ExcusedRightly, GapsTell
  <2> QED
    BY <2>2, <2>3, <2>4 DEF ComplianceInv
<1> QED
  BY <1>1, <1>2, CreateStep, ReviewStep, EvaluateStep, RequestStep, ApproveStep DEF ComplianceNext

LEMMA ComplianceInvariant == ComplianceSpec => []ComplianceInv
<1>1. ComplianceInit => ComplianceInv
  <2> SUFFICES ASSUME ComplianceInit PROVE ComplianceInv
    OBVIOUS
  <2>1. ReviewTyped
    <3>1. NotEvaluated \in EvaluationRecord
      BY DEF NotEvaluated, EvaluationRecord, ControlStates
    <3>2. exceptions \in Seq(ExceptionRecord) /\ Len(exceptions) = 0 /\ DOMAIN exceptions = {}
      BY DEF ComplianceInit
    <3> QED
      BY <3>1, <3>2, ComplianceAssumption DEF ComplianceInit, ReviewTyped, ControlStates
  <2>2. Made = {} /\ exceptions = << >>
    BY DEF ComplianceInit, Made
  <2>3. ApprovalStands /\ OthersApprove /\ EvaluatedMade /\ ExcusedRightly
    BY <2>2 DEF ComplianceInit, ApprovalStands, OthersApprove, EvaluatedMade, ExcusedRightly
  <2>4. ExcusesThere /\ GapsTell
    BY <2>2 DEF ComplianceInit, ExcusesThere, GapsTell, NotEvaluated
  <2> QED
    BY <2>1, <2>3, <2>4 DEF ComplianceInv
<1> QED
  BY <1>1, ComplianceStep, PTL DEF ComplianceSpec

(* Nothing counts as approved, excused or failing but by what the rules of  *)
(* the review allow, for any number of people, organisations, controls and  *)
(* exceptions, in whatever order they do their part.                        *)
THEOREM ComplianceAlwaysKept == ComplianceSpec => []ComplianceKept
<1>1. ComplianceInv => ComplianceKept
  BY DEF ComplianceInv, ComplianceKept
<1> QED
  BY <1>1, ComplianceInvariant, PTL

-----------------------------------------------------------------------------
(* The language server.                                                     *)

(* An edit carries the text, and a close none.                              *)
Messages == {m \in [kind : Kinds, uri : Uris, text : Texts \union {Gone}] :
                /\ m.kind \in {"didOpen", "didChange"} => m.text # Gone
                /\ m.kind = "didClose" => m.text = Gone}
Publication == [at : {"publish"}, uri : Uris, text : Texts \union {OnDisk}, from : {"message", "table"}]
Threads == {Waiting, [at |-> "over"]} \union Publication

LspTyped ==
    /\ documents \in [Uris -> Texts \union {Gone}]
    /\ isRunning \in BOOLEAN
    /\ client \in [Editors -> Threads]
    /\ pipe \in [Editors -> Seq(Messages)]
    /\ buffer \in [Editors -> [Uris -> Texts \union {Gone}]]
    /\ shown \in [Editors -> [Uris -> Texts \union {Gone}]]
    /\ last \in [Editors -> [Uris -> {"message", "table", "failed"}]]
    /\ users \in [Uris -> SUBSET Editors]
    /\ texts \in Nat /\ unpublished \in Nat

(* The messages that change the entry of a document, those that have        *)
(* diagnostics published, and those of editors that are not among its users. *)
OfTable(u) == {m \in Messages : m.uri = u /\ m.kind \in {"didOpen", "didChange", "didClose"}}
Published(u) == {m \in Messages : m.uri = u /\ m.kind \in {"didOpen", "didChange", "didSave", "applyFix"}}
Strange(c) == {m \in Messages : m.kind # "exit" /\ c \notin users[m.uri]}
WithText(t) == {m \in Messages : m.text \in t}

(* Only users have a document open and send messages about it.              *)
UsersKnown == \A c \in Editors :
    /\ \A u \in Uris : buffer[c][u] # Gone => c \in users[u]
    /\ NoneOf(pipe[c], Strange(c))

(* The table will have what the only user has: the last message about the   *)
(* entry says so, and where none is on its way the entry does.              *)
TableFollows == \A c \in Editors : \A u \in Uris :
    /\ LastFits(pipe[c], OfTable(u), WithText({buffer[c][u]}))
    /\ NoneOf(pipe[c], OfTable(u)) /\ users[u] \subseteq {c} => documents[u] = buffer[c][u]

Publishes(c, u) == client[c].at = "publish" /\ client[c].uri = u
WillShow(c, u) == \/ client[c].text = buffer[c][u]
                  \/ client[c].from = "table" /\ users[u] # {c}
Shows(c, u) == \/ shown[c][u] = buffer[c][u]
               \/ last[c][u] = "failed"
               \/ last[c][u] = "table" /\ users[u] # {c}

(* What is published last about an open document is its text: by a message, *)
(* or else by the thread, or else already.                                  *)
TextFollows == \A c \in Editors : \A u \in Uris : buffer[c][u] # Gone =>
    /\ LastFits(pipe[c], Published(u), WithText({buffer[c][u], Gone}))
    /\ NoneOf(pipe[c], Published(u)) => IF Publishes(c, u) THEN WillShow(c, u) ELSE Shows(c, u)

LspInv == LspTyped /\ UsersKnown /\ TableFollows /\ TextFollows

LEMMA LspShows == LspInv => ShowsItsText
<1> SUFFICES ASSUME LspInv, NEW c \in Editors, NEW u \in Uris, buffer[c][u] # Gone, Quiet(c)
             PROVE  Shows(c, u)
  BY DEF ShowsItsText, Shows
<1>1. NoneOf(pipe[c], Published(u))
  BY DEF Quiet, NoneOf
<1>2. ~Publishes(c, u)
  BY DEF Quiet, Publishes, Waiting
<1> QED
  BY <1>1, <1>2 DEF LspInv, TextFollows

(* What an editor does: it sends one message about a document, which from   *)
(* then on has text t in its window; w is {c} where it is then a user.      *)
SendsMessage(c, m, t, w) ==
    /\ m \in Messages /\ t \in Texts \union {Gone} /\ w \subseteq {c}
    /\ m.kind # "exit" \/ t # Gone => c \in users[m.uri] \union w
    /\ IF m \in OfTable(m.uri) THEN m.text = t ELSE t = buffer[c][m.uri]
    /\ IF m \in Published(m.uri) THEN m.text \in {t, Gone} ELSE t \in {buffer[c][m.uri], Gone}
    /\ pipe' = [pipe EXCEPT ![c] = Append(@, m)]
    /\ buffer' = [buffer EXCEPT ![c][m.uri] = t]
    /\ users' = [users EXCEPT ![m.uri] = @ \union w]
    /\ texts' \in Nat
    /\ UNCHANGED <<documents, isRunning, client, shown, last, unpublished>>

LEMMA SendFollows ==
  ASSUME LspInv, NEW c \in Editors, NEW m, NEW t, NEW w, SendsMessage(c, m, t, w)
  PROVE  LspInv'
<1> DEFINE u == m.uri
<1>1. /\ LspTyped /\ m \in Messages /\ u \in Uris /\ t \in Texts \union {Gone} /\ w \subseteq {c}
      /\ m.kind # "exit" \/ t # Gone => c \in users[u] \union w
      /\ \A v \in Uris : v # u => m \notin OfTable(v) /\ m \notin Published(v)
      /\ IF m \in OfTable(u) THEN m.text = t ELSE t = buffer[c][u]
      /\ IF m \in Published(u) THEN m.text \in {t, Gone} ELSE t \in {buffer[c][u], Gone}
      /\ texts' \in Nat
      /\ UNCHANGED <<documents, isRunning, client, shown, last, unpublished>>
  BY DEF LspInv, SendsMessage, Messages, OfTable, Published
<1>2. /\ pipe' \in [Editors -> Seq(Messages)] /\ pipe'[c] = Append(pipe[c], m)
      /\ \A d \in Editors : d # c => pipe'[d] = pipe[d]
      /\ pipe[c] \in Seq(Messages)
  <2>1. pipe \in [Editors -> Seq(Messages)] /\ m \in Messages
    BY DEF LspInv, LspTyped, SendsMessage
  <2>2. Append(pipe[c], m) \in Seq(Messages)
    BY <2>1, AppendProperties
  <2> QED
    BY <2>1, <2>2 DEF SendsMessage
<1>3. /\ buffer' \in [Editors -> [Uris -> Texts \union {Gone}]] /\ buffer'[c][u] = t
      /\ \A d \in Editors, v \in Uris : d # c \/ v # u => buffer'[d][v] = buffer[d][v]
  BY <1>1 DEF LspTyped, SendsMessage
<1>4. /\ users' \in [Uris -> SUBSET Editors] /\ users'[u] = users[u] \union w
      /\ \A v \in Uris : v # u => users'[v] = users[v]
  BY <1>1 DEF LspTyped, SendsMessage
<1> HIDE DEF u
<1>5. /\ \A v \in Uris : users[v] \subseteq users'[v] /\ users'[v] \subseteq users[v] \union {c}
      /\ \A v \in Uris : users'[v] # users[v] => v = u
  BY <1>1, <1>4
<1>6. ASSUME NEW S, NEW T
      PROVE  /\ NoneOf(pipe'[c], S) <=> NoneOf(pipe[c], S) /\ m \notin S
             /\ m \in S /\ m \in T => LastFits(pipe'[c], S, T)
             /\ m \notin S /\ LastFits(pipe[c], S, T) => LastFits(pipe'[c], S, T)
  BY <1>1, <1>2, AppendLast
<1>7. LspTyped'
  BY <1>1, <1>2, <1>3, <1>4 DEF LspTyped
<1>8. UsersKnown'
  <2>1. ASSUME NEW d \in Editors, NEW v \in Uris, buffer'[d][v] # Gone PROVE d \in users'[v]
    BY <1>1, <1>3, <1>4, <1>5, <2>1 DEF LspInv, UsersKnown
  <2>2. ASSUME NEW d \in Editors PROVE NoneOf(pipe'[d], Strange(d)')
    <3>1. Strange(d)' \subseteq Strange(d)
      BY <1>5 DEF Strange, Messages
    <3>2. NoneOf(pipe[d], Strange(d)')
      BY <3>1 DEF LspInv, UsersKnown, NoneOf
    <3>3. CASE d = c
      <4>1. m \notin Strange(c)'
        BY <1>1, <1>4 DEF Strange, u
      <4>2. NoneOf(pipe'[c], Strange(d)') <=> NoneOf(pipe[c], Strange(d)') /\ m \notin Strange(d)'
        BY <1>6
      <4> QED
        BY <3>2, <3>3, <4>1, <4>2
    <3>4. CASE d # c
      BY <1>2, <3>2, <3>4
    <3> QED
      BY <3>3, <3>4
  <2> QED
    BY <2>1, <2>2 DEF UsersKnown
<1>9. TableFollows'
  <2> SUFFICES ASSUME NEW d \in Editors, NEW v \in Uris
               PROVE  /\ LastFits(pipe'[d], OfTable(v), WithText({buffer'[d][v]}))
                      /\ NoneOf(pipe'[d], OfTable(v)) /\ users'[v] \subseteq {d} => documents'[v] = buffer'[d][v]
    BY DEF TableFollows, OfTable, WithText
  <2>1. /\ LastFits(pipe[d], OfTable(v), WithText({buffer[d][v]}))
        /\ NoneOf(pipe[d], OfTable(v)) /\ users[v] \subseteq {d} => documents[v] = buffer[d][v]
        /\ users'[v] \subseteq {d} => users[v] \subseteq {d}
    BY <1>5 DEF LspInv, TableFollows
  <2>2. /\ NoneOf(pipe'[c], OfTable(v)) <=> NoneOf(pipe[c], OfTable(v)) /\ m \notin OfTable(v)
        /\ m \in OfTable(v) /\ m \in WithText({buffer'[d][v]}) => LastFits(pipe'[c], OfTable(v), WithText({buffer'[d][v]}))
        /\ m \notin OfTable(v) /\ LastFits(pipe[c], OfTable(v), WithText({buffer'[d][v]})) =>
              LastFits(pipe'[c], OfTable(v), WithText({buffer'[d][v]}))
    BY <1>6
  <2>3. CASE d = c /\ m \in OfTable(v)
    <3>1. v = u /\ m.text = t /\ buffer'[d][v] = t
      BY <1>1, <1>3, <2>3
    <3>2. m \in WithText({buffer'[d][v]})
      BY <1>1, <3>1 DEF WithText
    <3> QED
      BY <2>2, <2>3, <3>2
  <2>4. CASE d = c /\ m \notin OfTable(v)
    <3>1. buffer'[d][v] = buffer[d][v]
      BY <1>1, <1>3, <2>4
    <3> QED
      BY <1>1, <2>1, <2>2, <2>4, <3>1
  <2>5. CASE d # c
    <3>1. buffer'[d][v] = buffer[d][v] /\ pipe'[d] = pipe[d]
      BY <1>2, <1>3, <2>5
    <3> QED
      BY <1>1, <2>1, <3>1
  <2> QED
    BY <2>3, <2>4, <2>5
<1>10. TextFollows'
  <2> SUFFICES ASSUME NEW d \in Editors, NEW v \in Uris, buffer'[d][v] # Gone
               PROVE  /\ LastFits(pipe'[d], Published(v), WithText({buffer'[d][v], Gone}))
                      /\ NoneOf(pipe'[d], Published(v)) =>
                            IF Publishes(d, v)' THEN WillShow(d, v)' ELSE Shows(d, v)'
    BY DEF TextFollows, Published, WithText
  <2>1. CASE d = c /\ m \in Published(v)
    <3>1. v = u /\ m.text \in {t, Gone} /\ buffer'[d][v] = t
      BY <1>1, <1>3, <2>1
    <3>2. m \in WithText({buffer'[d][v], Gone})
      BY <1>1, <3>1 DEF WithText
    <3>3. /\ NoneOf(pipe'[c], Published(v)) <=> NoneOf(pipe[c], Published(v)) /\ m \notin Published(v)
          /\ m \in Published(v) /\ m \in WithText({buffer'[d][v], Gone}) =>
                LastFits(pipe'[c], Published(v), WithText({buffer'[d][v], Gone}))
      BY <1>6
    <3> QED
      BY <2>1, <3>2, <3>3
  <2>2. CASE ~(d = c /\ m \in Published(v))
    <3>1. buffer'[d][v] = buffer[d][v]
      BY <1>1, <1>3, <2>2
    <3>2. d \in users[v]
      BY <3>1 DEF LspInv, UsersKnown
    <3>3. users[v] # {d} => users'[v] # {d}
      BY <1>5, <3>2
    <3>4. /\ LastFits(pipe[d], Published(v), WithText({buffer'[d][v], Gone}))
          /\ NoneOf(pipe[d], Published(v)) =>
                IF Publishes(d, v) THEN WillShow(d, v) ELSE Shows(d, v)
      BY <3>1 DEF LspInv, TextFollows
    <3>5. /\ Publishes(d, v)' <=> Publishes(d, v)
          /\ WillShow(d, v) => WillShow(d, v)'
          /\ Shows(d, v) => Shows(d, v)'
      BY <1>1, <3>1, <3>3 DEF Publishes, WillShow, Shows
    <3>6. /\ LastFits(pipe'[d], Published(v), WithText({buffer'[d][v], Gone}))
          /\ NoneOf(pipe'[d], Published(v)) => NoneOf(pipe[d], Published(v))
      <4>1. CASE d # c
        BY <1>2, <3>4, <4>1
      <4>2. CASE d = c
        <5>1. /\ NoneOf(pipe'[c], Published(v)) <=> NoneOf(pipe[c], Published(v)) /\ m \notin Published(v)
              /\ m \notin Published(v) /\ LastFits(pipe[c], Published(v), WithText({buffer'[d][v], Gone})) =>
                    LastFits(pipe'[c], Published(v), WithText({buffer'[d][v], Gone}))
          BY <1>6
        <5> QED
          BY <2>2, <3>4, <4>2, <5>1
      <4> QED
        BY <4>1, <4>2
    <3>7. CASE Publishes(d, v)
      BY <3>4, <3>5, <3>6, <3>7
    <3>8. CASE ~Publishes(d, v)
      BY <3>4, <3>5, <3>6, <3>8
    <3> QED
      BY <3>7, <3>8
  <2> QED
    BY <2>1, <2>2
<1> QED
  BY <1>7, <1>8, <1>9, <1>10 DEF LspInv

LEMMA EditorsFollow ==
  ASSUME LspInv, NEW c \in Editors, NEW u \in Uris
  PROVE  Type(c, u) \/ Ask(c, u) \/ Close(c, u) \/ Quit(c) => LspInv'
<1>1. LspTyped /\ UsersKnown /\ texts \in Nat /\ MaxTexts \in Nat
  BY LanguageServerAssumption DEF LspInv, LspTyped
<1>2. \A v \in Uris : /\ buffer[c][v] \in Texts \union {Gone}
                      /\ buffer[c][v] # Gone => c \in users[v]
                      /\ buffer = [buffer EXCEPT ![c][v] = buffer[c][v]]
                      /\ users = [users EXCEPT ![v] = @ \union {}]
  BY <1>1 DEF LspTyped, UsersKnown
<1>3. ASSUME Type(c, u) PROVE LspInv'
  <2> DEFINE t == texts + 1
             m == Message(IF buffer[c][u] = Gone THEN "didOpen" ELSE "didChange", u, t)
  <2>1. t \in Texts /\ t # Gone /\ t \in Nat
    BY <1>1, <1>3 DEF Texts, Gone, Type
  <2>2. m \in Messages /\ m.uri = u /\ m.text = t /\ m \in OfTable(u) /\ m \in Published(u)
    BY <2>1 DEF OfTable, Published, Messages, Message, Kinds
  <2>3. SendsMessage(c, m, t, {c})
    BY <1>3, <2>1, <2>2 DEF Type, Send, EditorStays, SendsMessage
  <2> QED
    BY <2>3, SendFollows
<1>4. ASSUME Ask(c, u) PROVE LspInv'
  <2>1. PICK m \in {Message("didSave", u, buffer[c][u]), Message("didSave", u, Gone), Message("applyFix", u, Gone)} :
           Send(c, m)
    BY <1>4 DEF Ask
  <2>2. m \in Messages /\ m.uri = u /\ m.text \in {buffer[c][u], Gone} /\ m \notin OfTable(u) /\ m \in Published(u)
    BY <1>2 DEF OfTable, Published, Messages, Message, Kinds
  <2>3. SendsMessage(c, m, buffer[c][u], {})
    BY <1>1, <1>2, <1>4, <2>1, <2>2 DEF Ask, Send, EditorStays, SendsMessage
  <2> QED
    BY <2>3, SendFollows
<1>5. ASSUME Close(c, u) PROVE LspInv'
  <2> DEFINE m == Message("didClose", u, Gone)
  <2>1. m \in Messages /\ m.uri = u /\ m.text = Gone /\ m \in OfTable(u) /\ m \notin Published(u)
    BY DEF OfTable, Published, Messages, Message, Kinds
  <2>2. SendsMessage(c, m, Gone, {})
    BY <1>1, <1>2, <1>5, <2>1 DEF Close, Send, EditorStays, SendsMessage
  <2> QED
    BY <2>2, SendFollows
<1>6. ASSUME Quit(c) PROVE LspInv'
  <2>1. PICK v \in Uris : Send(c, Message("exit", v, Gone))
    BY <1>6 DEF Quit
  <2> DEFINE m == Message("exit", v, Gone)
  <2>2. m \in Messages /\ m.uri = v /\ m.kind = "exit" /\ m \notin OfTable(v) /\ m \notin Published(v)
    BY DEF OfTable, Published, Messages, Message, Kinds
  <2>3. SendsMessage(c, m, buffer[c][v], {})
    BY <1>1, <1>2, <1>6, <2>1, <2>2 DEF Quit, Send, EditorStays, SendsMessage
  <2> QED
    BY <2>3, SendFollows
<1> QED
  BY <1>3, <1>4, <1>5, <1>6

(* What a thread does with a message: one of the table writes its text into *)
(* the table, and one that is published leaves its text, or the table's     *)
(* where it has none, to be published.                                      *)
Reads(c, m, x) ==
    /\ m \in Messages /\ pipe[c] # <<>> /\ m = Head(pipe[c])
    /\ client[c].at = "read" /\ x \in Threads
    /\ pipe' = [pipe EXCEPT ![c] = Tail(@)]
    /\ client' = [client EXCEPT ![c] = x]
    /\ documents' = IF m \in OfTable(m.uri) THEN [documents EXCEPT ![m.uri] = m.text] ELSE documents
    /\ IF m \in Published(m.uri)
         THEN /\ x.at = "publish" /\ x.uri = m.uri
              /\ IF m.text # Gone THEN x.text = m.text ELSE x.text = documents[m.uri] /\ x.from = "table"
         ELSE x.at # "publish"
    /\ isRunning' \in BOOLEAN
    /\ UNCHANGED <<buffer, shown, last, users, texts, unpublished>>

LEMMA ReadFollows ==
  ASSUME LspInv, NEW c \in Editors, NEW m, NEW x, Reads(c, m, x)
  PROVE  LspInv'
<1> DEFINE u == m.uri
<1>1. /\ LspTyped /\ m \in Messages /\ u \in Uris /\ m.text \in Texts \union {Gone} /\ x \in Threads
      /\ m = Head(pipe[c]) /\ client[c].at = "read"
      /\ \A v \in Uris : v # u => m \notin OfTable(v) /\ m \notin Published(v)
      /\ isRunning' \in BOOLEAN
      /\ UNCHANGED <<buffer, shown, last, users, texts, unpublished>>
  BY DEF LspInv, Reads, Messages, OfTable, Published
<1>2. /\ pipe \in [Editors -> Seq(Messages)] /\ pipe[c] \in Seq(Messages) /\ pipe[c] # <<>>
      /\ pipe' = [pipe EXCEPT ![c] = Tail(@)]
  BY DEF LspInv, LspTyped, Reads
<1>3. ASSUME NEW S, NEW T
      PROVE  /\ Tail(pipe[c]) \in Seq(Messages)
             /\ NoneOf(pipe[c], S) <=> NoneOf(Tail(pipe[c]), S) /\ m \notin S
             /\ LastFits(pipe[c], S, T) => LastFits(Tail(pipe[c]), S, T)
             /\ LastFits(pipe[c], S, T) /\ NoneOf(Tail(pipe[c]), S) /\ m \in S => m \in T
  BY <1>1, <1>2, HeadLast
<1>4. Tail(pipe[c]) \in Seq(Messages)
  BY <1>2, HeadTailProperties
<1>5. /\ pipe' \in [Editors -> Seq(Messages)] /\ pipe'[c] = Tail(pipe[c])
      /\ \A d \in Editors : d # c => pipe'[d] = pipe[d]
  BY <1>2, <1>4
<1>6. ASSUME NEW d \in Editors, NEW S, NEW T
      PROVE  /\ NoneOf(pipe[d], S) => NoneOf(pipe'[d], S)
             /\ LastFits(pipe[d], S, T) => LastFits(pipe'[d], S, T)
  <2>1. CASE d = c
    <3>1. /\ NoneOf(pipe[c], S) <=> NoneOf(Tail(pipe[c]), S) /\ m \notin S
          /\ LastFits(pipe[c], S, T) => LastFits(Tail(pipe[c]), S, T)
      BY <1>3
    <3> QED
      BY <1>5, <2>1, <3>1
  <2>2. CASE d # c
    BY <1>5, <2>2
  <2> QED
    BY <2>1, <2>2
<1>7. /\ documents' \in [Uris -> Texts \union {Gone}]
      /\ \A v \in Uris : documents'[v] = IF m \in OfTable(v) THEN m.text ELSE documents[v]
  BY <1>1 DEF LspTyped, Reads
<1>8. /\ client' \in [Editors -> Threads] /\ client'[c] = x
      /\ \A d \in Editors : d # c => client'[d] = client[d]
  BY <1>1 DEF LspTyped, Reads
<1>9. /\ IF m \in Published(u)
           THEN /\ x.at = "publish" /\ x.uri = u
                /\ IF m.text # Gone THEN x.text = m.text ELSE x.text = documents[u] /\ x.from = "table"
           ELSE x.at # "publish"
      /\ m.kind # "exit" => c \in users[u]
  <2>1. NoneOf(pipe[c], Strange(c)) <=> NoneOf(Tail(pipe[c]), Strange(c)) /\ m \notin Strange(c)
    BY <1>3
  <2> QED
    BY <1>1, <2>1 DEF Reads, LspInv, UsersKnown, Strange
<1> HIDE DEF u
<1>10. LspTyped'
  BY <1>1, <1>5, <1>7, <1>8 DEF LspTyped
<1>11. UsersKnown'
  <2>1. \A d \in Editors : NoneOf(pipe'[d], Strange(d))
    BY <1>6 DEF LspInv, UsersKnown
  <2> QED
    BY <1>1, <2>1 DEF LspInv, UsersKnown, Strange
<1>12. TableFollows'
  <2> SUFFICES ASSUME NEW d \in Editors, NEW v \in Uris
               PROVE  /\ LastFits(pipe'[d], OfTable(v), WithText({buffer[d][v]}))
                      /\ NoneOf(pipe'[d], OfTable(v)) /\ users[v] \subseteq {d} => documents'[v] = buffer[d][v]
    BY <1>1 DEF TableFollows, OfTable, WithText
  <2>1. /\ LastFits(pipe[d], OfTable(v), WithText({buffer[d][v]}))
        /\ NoneOf(pipe[d], OfTable(v)) /\ users[v] \subseteq {d} => documents[v] = buffer[d][v]
    BY DEF LspInv, TableFollows
  <2>2. LastFits(pipe'[d], OfTable(v), WithText({buffer[d][v]}))
    BY <1>6, <2>1
  <2>3. ASSUME NoneOf(pipe'[d], OfTable(v)), users[v] \subseteq {d} PROVE documents'[v] = buffer[d][v]
    <3>1. /\ NoneOf(pipe[c], OfTable(v)) <=> NoneOf(Tail(pipe[c]), OfTable(v)) /\ m \notin OfTable(v)
          /\ LastFits(pipe[c], OfTable(v), WithText({buffer[d][v]})) /\ NoneOf(Tail(pipe[c]), OfTable(v)) /\ m \in OfTable(v)
                => m \in WithText({buffer[d][v]})
      BY <1>3
    <3>2. CASE m \in OfTable(v)
      <4>1. v = u /\ m.kind # "exit" /\ c \in users[v]
        BY <1>1, <1>9, <3>2 DEF OfTable
      <4>2. d = c
        BY <2>3, <4>1
      <4>3. m.text = buffer[d][v]
        BY <1>5, <2>1, <2>3, <3>1, <3>2, <4>2 DEF WithText
      <4> QED
        BY <1>7, <3>2, <4>3
    <3>3. CASE m \notin OfTable(v)
      <4>1. NoneOf(pipe[d], OfTable(v))
        BY <1>5, <2>3, <3>1, <3>3
      <4> QED
        BY <1>7, <2>1, <2>3, <3>3, <4>1
    <3> QED
      BY <3>2, <3>3
  <2> QED
    BY <2>2, <2>3
<1>13. TextFollows'
  <2> SUFFICES ASSUME NEW d \in Editors, NEW v \in Uris, buffer[d][v] # Gone
               PROVE  /\ LastFits(pipe'[d], Published(v), WithText({buffer[d][v], Gone}))
                      /\ NoneOf(pipe'[d], Published(v)) =>
                            IF Publishes(d, v)' THEN WillShow(d, v)' ELSE Shows(d, v)'
    BY <1>1 DEF TextFollows, Published, WithText
  <2>1. /\ LastFits(pipe[d], Published(v), WithText({buffer[d][v], Gone}))
        /\ NoneOf(pipe[d], Published(v)) => IF Publishes(d, v) THEN WillShow(d, v) ELSE Shows(d, v)
    BY DEF LspInv, TextFollows
  <2>2. LastFits(pipe'[d], Published(v), WithText({buffer[d][v], Gone}))
    BY <1>6, <2>1
  <2>3. ASSUME NoneOf(pipe'[d], Published(v))
        PROVE  IF Publishes(d, v)' THEN WillShow(d, v)' ELSE Shows(d, v)'
    <3>1. /\ NoneOf(pipe[c], Published(v)) <=> NoneOf(Tail(pipe[c]), Published(v)) /\ m \notin Published(v)
          /\ LastFits(pipe[c], Published(v), WithText({buffer[d][v], Gone})) /\ NoneOf(Tail(pipe[c]), Published(v))
                /\ m \in Published(v) => m \in WithText({buffer[d][v], Gone})
      BY <1>3
    <3>2. Shows(d, v)' <=> Shows(d, v)
      BY <1>1 DEF Shows
    <3>3. CASE d # c
      <4>1. /\ Publishes(d, v)' <=> Publishes(d, v)
            /\ WillShow(d, v)' <=> WillShow(d, v)
        BY <1>1, <1>8, <3>3 DEF Publishes, WillShow
      <4>2. NoneOf(pipe[d], Published(v))
        BY <1>5, <2>3, <3>3
      <4> QED
        BY <2>1, <3>2, <4>1, <4>2, Zenon
    <3>4. CASE d = c /\ m \notin Published(v)
      <4>1. NoneOf(pipe[d], Published(v)) /\ ~Publishes(d, v)
        BY <1>1, <1>5, <2>3, <3>1, <3>4 DEF Publishes
      <4>2. ~Publishes(d, v)'
        BY <1>1, <1>8, <1>9, <3>4 DEF Publishes
      <4> QED
        BY <2>1, <3>2, <4>1, <4>2
    <3>5. CASE d = c /\ m \in Published(v)
      <4>1. v = u /\ Publishes(d, v)'
        BY <1>1, <1>8, <1>9, <3>5 DEF Publishes
      <4>2. m.text \in {buffer[d][v], Gone}
        BY <1>5, <2>1, <2>3, <3>1, <3>5 DEF WithText
      <4>3. CASE m.text # Gone
        BY <1>1, <1>8, <1>9, <3>5, <4>1, <4>2, <4>3 DEF WillShow
      <4>4. CASE m.text = Gone
        <5>1. x.text = documents[v] /\ x.from = "table" /\ client'[d] = x /\ d \in users[v]
          BY <1>8, <1>9, <3>5, <4>1, <4>4 DEF LspInv, UsersKnown
        <5>2. SUFFICES ASSUME users[v] = {d} PROVE documents[v] = buffer[d][v]
          BY <1>1, <4>1, <5>1 DEF WillShow
        <5>3. NoneOf(pipe[c], OfTable(v))
          <6>1. m \notin OfTable(v)
            BY <4>4, <3>5 DEF OfTable, Published, Messages
          <6>2. NoneOf(Tail(pipe[c]), OfTable(v))
            <7> SUFFICES ASSUME ~NoneOf(Tail(pipe[c]), OfTable(v)) PROVE FALSE
              OBVIOUS
            <7>1. LastFits(Tail(pipe[c]), OfTable(v), WithText({buffer[d][v]}))
              BY <1>5, <1>6, <3>5 DEF LspInv, TableFollows
            <7>2. PICK l \in OfTable(v) \intersect WithText({buffer[d][v]}) :
                     \E k \in 1..Len(Tail(pipe[c])) : Tail(pipe[c])[k] = l
              BY <1>4, <7>1, LastThere
            <7>3. l \in Published(v)
              BY <7>2 DEF OfTable, WithText, Published, Messages
            <7>4. l \notin Published(v)
              BY <1>5, <2>3, <3>5, <7>2 DEF NoneOf
            <7> QED
              BY <7>3, <7>4
          <6>3. NoneOf(pipe[c], OfTable(v)) <=> NoneOf(Tail(pipe[c]), OfTable(v)) /\ m \notin OfTable(v)
            BY <1>3
          <6> QED
            BY <6>1, <6>2, <6>3
        <5> QED
          BY <3>5, <5>2, <5>3 DEF LspInv, TableFollows
      <4> QED
        BY <4>3, <4>4
    <3> QED
      BY <3>3, <3>4, <3>5
  <2> QED
    BY <2>2, <2>3
<1> QED
  BY <1>10, <1>11, <1>12, <1>13 DEF LspInv

LEMMA ThreadsFollow ==
  ASSUME LspInv, NEW c \in Editors
  PROVE  Edit(c) \/ Refresh(c) \/ Forget(c) \/ Exit(c) => LspInv'
<1> DEFINE m == Head(pipe[c])
<1>1. LspTyped
  BY DEF LspInv
<1>2. SUFFICES ASSUME Edit(c) \/ Refresh(c) \/ Forget(c) \/ Exit(c) PROVE LspInv'
  OBVIOUS
<1>3. /\ ReadMessage(c) /\ ThreadStays /\ isRunning' \in BOOLEAN
      /\ pipe[c] # <<>> /\ pipe[c] \in Seq(Messages)
  BY <1>1, <1>2 DEF Edit, Refresh, Forget, Exit, ReadMessage, LspTyped
<1>4. m \in Messages /\ m.uri \in Uris /\ m.text \in Texts \union {Gone} /\ documents[m.uri] \in Texts \union {Gone}
  <2>1. m \in Messages
    BY <1>3, HeadTailProperties
  <2> QED
    BY <1>1, <2>1 DEF Messages, LspTyped
<1>5. \A x : x \in Threads /\ client' = [client EXCEPT ![c] = x] /\ x.at # "publish"
             /\ m \notin Published(m.uri) /\ (m \in OfTable(m.uri) => documents' = [documents EXCEPT ![m.uri] = m.text])
             /\ (m \notin OfTable(m.uri) => documents' = documents)
             => Reads(c, m, x)
  BY <1>3, <1>4 DEF Reads, ReadMessage, ThreadStays
<1>6. Waiting \in Threads /\ Waiting.at # "publish"
      /\ [at |-> "over"] \in Threads /\ [at |-> "over"].at # "publish"
  BY DEF Threads, Waiting
<1>7. ASSUME Edit(c) PROVE LspInv'
  <2> DEFINE x == [at |-> "publish", uri |-> m.uri, text |-> m.text, from |-> "message"]
  <2>1. m.text # Gone /\ m \in OfTable(m.uri) /\ m \in Published(m.uri) /\ x \in Threads
    BY <1>4, <1>7 DEF Edit, OfTable, Published, Messages, Threads, Publication
  <2>2. client' = [client EXCEPT ![c] = x] /\ documents' = [documents EXCEPT ![m.uri] = m.text]
    BY <1>7 DEF Edit, Publishing
  <2>3. Reads(c, m, x)
    BY <1>3, <1>4, <2>1, <2>2 DEF Reads, ReadMessage, ThreadStays
  <2> QED
    BY <2>3, ReadFollows
<1>8. ASSUME Refresh(c) PROVE LspInv'
  <2>1. m \notin OfTable(m.uri) /\ m \in Published(m.uri) /\ documents' = documents
    BY <1>4, <1>8 DEF Refresh, OfTable, Published, Messages
  <2>2. CASE m.text # Gone
    <3> DEFINE x == [at |-> "publish", uri |-> m.uri, text |-> m.text, from |-> "message"]
    <3>1. x \in Threads /\ client' = [client EXCEPT ![c] = x]
      BY <1>4, <1>8, <2>2 DEF Refresh, Publishing, Threads, Publication
    <3>2. Reads(c, m, x)
      BY <1>3, <1>4, <2>1, <2>2, <3>1 DEF Reads, ReadMessage, ThreadStays
    <3> QED
      BY <3>2, ReadFollows
  <2>3. CASE m.text = Gone
    <3> DEFINE x == [at |-> "publish", uri |-> m.uri, text |-> documents[m.uri], from |-> "table"]
    <3>1. x \in Threads /\ client' = [client EXCEPT ![c] = x]
      BY <1>4, <1>8, <2>3 DEF Refresh, Publishing, Threads, Publication, OnDisk, Gone
    <3>2. Reads(c, m, x)
      BY <1>3, <1>4, <2>1, <2>3, <3>1 DEF Reads, ReadMessage, ThreadStays
    <3> QED
      BY <3>2, ReadFollows
  <2> QED
    BY <2>2, <2>3
<1>9. ASSUME Forget(c) PROVE LspInv'
  <2>1. m.text = Gone /\ m \in OfTable(m.uri) /\ m \notin Published(m.uri)
        /\ documents' = [documents EXCEPT ![m.uri] = m.text]
    BY <1>4, <1>9 DEF Forget, OfTable, Published, Messages
  <2>2. PICK x \in {Waiting, [at |-> "over"]} : client' = [client EXCEPT ![c] = x]
    BY <1>9 DEF Forget, Loop
  <2>3. Reads(c, m, x)
    BY <1>5, <1>6, <2>1, <2>2
  <2> QED
    BY <2>3, ReadFollows
<1>10. ASSUME Exit(c) PROVE LspInv'
  <2>1. m \notin OfTable(m.uri) /\ m \notin Published(m.uri) /\ documents' = documents
    BY <1>4, <1>10 DEF Exit, OfTable, Published, Messages
  <2>2. PICK x \in {Waiting, [at |-> "over"]} : client' = [client EXCEPT ![c] = x]
    BY <1>10 DEF Exit, Loop
  <2>3. Reads(c, m, x)
    BY <1>5, <1>6, <2>1, <2>2
  <2> QED
    BY <2>3, ReadFollows
<1> QED
  BY <1>2, <1>7, <1>8, <1>9, <1>10

LEMMA PublishFollows ==
  ASSUME LspInv, NEW c \in Editors, PublishDiagnostics(c)
  PROVE  LspInv'
<1> DEFINE p == client[c]
<1>1. LspTyped /\ p.at = "publish" /\ p \in Threads
  BY DEF LspInv, LspTyped, PublishDiagnostics
<1>2. p.uri \in Uris /\ p.text \in Texts \union {Gone} /\ p.from \in {"message", "table"}
  BY <1>1 DEF Threads, Waiting, Publication, OnDisk, Gone
<1>3. UNCHANGED <<documents, pipe, buffer, users, texts, isRunning>>
  BY DEF PublishDiagnostics
<1>4. PICK x \in {Waiting, [at |-> "over"]} : client' = [client EXCEPT ![c] = x]
  BY DEF PublishDiagnostics, Loop
<1>5. /\ client' \in [Editors -> Threads] /\ client'[c].at # "publish"
      /\ \A d \in Editors : d # c => client'[d] = client[d]
  BY <1>1, <1>4 DEF LspTyped, Threads, Waiting
<1>6. /\ last' \in [Editors -> [Uris -> {"message", "table", "failed"}]]
      /\ \A d \in Editors, v \in Uris : d # c \/ v # p.uri => last'[d][v] = last[d][v] /\ shown'[d][v] = shown[d][v]
      /\ \/ last'[c][p.uri] = "failed"
         \/ last'[c][p.uri] = p.from /\ shown'[c][p.uri] = p.text
      /\ shown' \in [Editors -> [Uris -> Texts \union {Gone}]]
      /\ unpublished' \in Nat
  <2>1. CASE /\ shown' = [shown EXCEPT ![c][p.uri] = p.text]
             /\ last' = [last EXCEPT ![c][p.uri] = p.from]
             /\ UNCHANGED unpublished
    BY <1>1, <1>2, <2>1 DEF LspTyped
  <2>2. CASE /\ unpublished < MaxUnpublished /\ unpublished' = unpublished + 1
             /\ last' = [last EXCEPT ![c][p.uri] = "failed"]
             /\ UNCHANGED shown
    BY <1>1, <1>2, <2>2 DEF LspTyped
  <2> QED
    BY <2>1, <2>2 DEF PublishDiagnostics
<1> HIDE DEF p
<1>7. LspTyped'
  BY <1>1, <1>3, <1>5, <1>6 DEF LspTyped
<1>8. UsersKnown' /\ TableFollows'
  BY <1>3 DEF LspInv, UsersKnown, TableFollows, Strange, OfTable, WithText
<1>9. TextFollows'
  <2> SUFFICES ASSUME NEW d \in Editors, NEW v \in Uris, buffer[d][v] # Gone, NoneOf(pipe[d], Published(v))
               PROVE  IF Publishes(d, v)' THEN WillShow(d, v)' ELSE Shows(d, v)'
    BY <1>3 DEF LspInv, TextFollows, Published, WithText
  <2>1. IF Publishes(d, v) THEN WillShow(d, v) ELSE Shows(d, v)
    BY DEF LspInv, TextFollows
  <2>2. CASE d = c /\ v = p.uri
    <3>1. Publishes(d, v) /\ ~Publishes(d, v)'
      BY <1>1, <1>5, <2>2 DEF Publishes, p
    <3>2. WillShow(d, v)
      BY <2>1, <3>1
    <3>3. Shows(d, v)'
      BY <1>3, <1>6, <2>2, <3>2 DEF WillShow, Shows, p
    <3> QED
      BY <3>1, <3>3
  <2>3. CASE ~(d = c /\ v = p.uri)
    <3>1. Shows(d, v)' <=> Shows(d, v)
      BY <1>3, <1>6, <2>3 DEF Shows
    <3>2. CASE d = c
      <4>1. ~Publishes(d, v) /\ ~Publishes(d, v)'
        BY <1>5, <2>3, <3>2 DEF Publishes, p
      <4> QED
        BY <2>1, <3>1, <4>1
    <3>3. CASE d # c
      <4>1. /\ Publishes(d, v)' <=> Publishes(d, v)
            /\ WillShow(d, v)' <=> WillShow(d, v)
        BY <1>3, <1>5, <3>3 DEF Publishes, WillShow
      <4> QED
        BY <2>1, <3>1, <4>1, Zenon
    <3> QED
      BY <3>2, <3>3
  <2> QED
    BY <2>2, <2>3
<1> QED
  BY <1>7, <1>8, <1>9 DEF LspInv

LEMMA LspInvariant == LspSpec => []LspInv
<1>1. LspInit => LspInv
  <2> SUFFICES ASSUME LspInit PROVE LspInv
    OBVIOUS
  <2>1. LspTyped
    BY EmptySeq DEF LspInit, LspTyped, Threads
  <2>2. \A c \in Editors : pipe[c] = <<>> /\ Len(pipe[c]) = 0 /\ \A u \in Uris : buffer[c][u] = Gone /\ documents[u] = Gone
    BY DEF LspInit
  <2> QED
    BY <2>1, <2>2 DEF LspInv, UsersKnown, TableFollows, TextFollows, NoneOf, LastFits
<1>2. LspInv /\ [LspNext]_lspVars => LspInv'
  <2> SUFFICES ASSUME LspInv, [LspNext]_lspVars PROVE LspInv'
    OBVIOUS
  <2>1. CASE LspNext
    <3>1. PICK c \in Editors : \/ \E u \in Uris : Type(c, u) \/ Ask(c, u) \/ Close(c, u)
                               \/ Quit(c) \/ Edit(c) \/ Refresh(c) \/ Forget(c) \/ Exit(c) \/ PublishDiagnostics(c)
      BY <2>1 DEF LspNext
    <3>2. ASSUME NEW u \in Uris, Type(c, u) \/ Ask(c, u) \/ Close(c, u) PROVE LspInv'
      BY <3>2, EditorsFollow
    <3>3. ASSUME Quit(c) PROVE LspInv'
      <4>1. PICK u \in Uris : TRUE
        BY <3>3 DEF Quit
      <4> QED
        BY <3>3, <4>1, EditorsFollow
    <3>4. ASSUME Edit(c) \/ Refresh(c) \/ Forget(c) \/ Exit(c) PROVE LspInv'
      BY <3>4, ThreadsFollow
    <3> QED
      BY <3>1, <3>2, <3>3, <3>4, PublishFollows
  <2>2. CASE UNCHANGED lspVars
    <3>1. LspTyped' /\ UsersKnown' /\ TableFollows'
      BY <2>2 DEF lspVars, LspInv, LspTyped, UsersKnown, TableFollows, Strange, OfTable, WithText
    <3>2. ASSUME NEW c \in Editors, NEW u \in Uris
          PROVE  /\ Publishes(c, u)' <=> Publishes(c, u)
                 /\ WillShow(c, u)' <=> WillShow(c, u)
                 /\ Shows(c, u)' <=> Shows(c, u)
      BY <2>2 DEF lspVars, Publishes, WillShow, Shows
    <3>3. TextFollows'
      <4> SUFFICES ASSUME NEW c \in Editors, NEW u \in Uris, buffer[c][u] # Gone, NoneOf(pipe[c], Published(u))
                   PROVE  IF Publishes(c, u)' THEN WillShow(c, u)' ELSE Shows(c, u)'
        BY <2>2 DEF lspVars, LspInv, TextFollows, Published, WithText
      <4>1. IF Publishes(c, u) THEN WillShow(c, u) ELSE Shows(c, u)
        BY DEF LspInv, TextFollows
      <4> QED
        BY <3>2, <4>1, Zenon
    <3> QED
      BY <3>1, <3>3 DEF LspInv
  <2> QED
    BY <2>1, <2>2
<1> QED
  BY <1>1, <1>2, PTL DEF LspSpec

(* When its messages are handled, an editor shows diagnostics of the text   *)
(* in its window, but for a publication that failed and for a text that the *)
(* server took from the table of a document several editors use: for any    *)
(* editors, documents and messages on their way (server.py).                *)
THEOREM EditorsSeeTheirText == LspSpec => []ShowsItsText
BY LspInvariant, LspShows, PTL

-----------------------------------------------------------------------------
(* The advisory database.                                                   *)

(* What a process holds in memory, and at which steps.                      *)
Handles == [at : Steps, copying : BOOLEAN, advisories : Contents, counted : Contents,
            update : Updates \cup {NoUpdate}, restored : 0..RecursionLimit, unseen : SUBSET Updates]

HandleTyped(h) ==
    /\ h \in Handles
    /\ h.copying => h.at \in DOMAIN Copies
    /\ h.at \in {"keepData", "keepMeta", "saveData", "saveMeta"} => h.update \in Updates
    /\ h.at \in {"ready", "keepData", "keepMeta", "saveData", "saveMeta", "bootMeta"} => BuiltIn \in h.advisories
    /\ h.at \in {"saveMeta", "bootMeta"} => h.counted = h.advisories

(* What a file holds that parses.                                           *)
FileTyped(c) == c \in {Absent, Broken} \/ (c \in Contents /\ BuiltIn \in c)

DbTyped ==
    /\ stored \in [Files -> Contents \cup {Broken}]
    /\ \A f \in Files : FileTyped(stored[f])
    /\ handle \in [DbProcesses -> Handles]
    /\ \A p \in DbProcesses : HandleTyped(handle[p])
    /\ confirmed \subseteq Updates /\ excused \subseteq Updates
    /\ overlapped \in BOOLEAN /\ stuck \in BOOLEAN
    /\ mishaps \subseteq {"crash", "disk error", "damage"}
    /\ Cardinality(mishaps) <= MaxMishaps

(* The confirmed batches that nobody may have written over.                 *)
Safe == confirmed \ excused

OldWhole == Whole("old data") /\ Whole("old meta")
BothWhole == Whole("data") /\ Whole("meta")

(* What a process knows of them at each step: it has them in memory, or     *)
(* they were confirmed since it loaded; they are in the backup that it made *)
(* or restores from; they are in the data that its metadata will vouch for. *)
Respects(h) ==
    /\ h.at \in {"ready", "keepData", "keepMeta", "saveData", "saveMeta", "bootMeta"} =>
           Safe \subseteq h.advisories \union h.unseen
    /\ h.at = "bootData" => Safe \subseteq h.unseen
    /\ h.at = "loadData" => Whole("meta") \/ Safe = {}
    /\ h.at \in {"bootMeta", "saveMeta", "restoreMeta"} => Safe \subseteq stored["data"]
    /\ h.at = "saveMeta" => /\ h.update \in h.advisories
                            /\ h.update \in stored["data"] \union excused
    /\ h.at = "keepMeta" =>
           \/ Safe \subseteq h.unseen
           \/ Whole("old data") /\ Safe \subseteq stored["old data"] \union h.unseen
    /\ h.at \in {"saveData", "saveMeta", "restoreData", "restoreMeta"} =>
           \/ Safe \subseteq h.unseen
           \/ OldWhole /\ Safe \subseteq stored["old data"] \union h.unseen
    /\ h.copying /\ h.at # "restoreMeta" => Safe \subseteq h.unseen \/ stored[Copies[h.at].to] = Broken

Durable ==
    /\ Safe \subseteq Recoverable
    /\ stored["data"] = Absent => Safe = {}
    /\ \A p \in DbProcesses : Respects(handle[p])

(* One process after the other: what the only one finds at each step.       *)
InTurn(h) ==
    /\ h.at # "closed" => h.unseen = {}
    /\ h.at \in {"bootData", "bootMeta"} => stored["old data"] = Absent
    /\ h.at \in {"ready", "keepData", "keepMeta"} => BothWhole
    /\ h.at = "keepMeta" => Whole("old data")
    /\ h.at = "loadData" => Whole("meta")
    /\ h.at \in {"saveData", "saveMeta", "restoreData", "restoreMeta"} => OldWhole
    /\ h.at \in {"bootMeta", "saveMeta", "restoreMeta"} => Whole("data")
    /\ h.at \in {"loadMeta", "loadData"} /\ h.restored # 0 => BothWhole
    /\ h.at \in {"ready", "keepData", "keepMeta", "saveData", "saveMeta"} => h.restored = 0
    /\ h.copying => stored[Copies[h.at].to] = Broken

(* And where nothing has gone wrong yet.                                    *)
SmoothIn(h) ==
    /\ h.at \notin {"restoreData", "restoreMeta"}
    /\ h.at \in {"bootMeta", "ready", "keepData", "keepMeta", "saveData", "saveMeta"} =>
           stored["data"] = h.counted /\ h.counted = h.advisories
    /\ h.at \in {"loadMeta", "loadData"} => stored["data"] # Absent
    /\ h.at = "loadData" => stored["data"] = h.counted

Smooth ==
    /\ stored["data"] # Broken
    /\ (\A p \in DbProcesses : handle[p].at \notin {"bootMeta", "saveMeta"}) => stored["data"] = stored["meta"]
    /\ \A p \in DbProcesses : SmoothIn(handle[p])

Turns ==
    /\ excused = {} /\ ~stuck
    /\ \A p, q \in DbProcesses : Opened(p) /\ Opened(q) => p = q
    /\ BothWhole \/ stored["old data"] = Absent \/ OldWhole
    /\ stored["data"] = Absent => stored["old data"] = Absent
    /\ \A p \in DbProcesses : InTurn(handle[p])
    /\ mishaps = {} => Smooth

DbInv ==
    /\ DbTyped
    /\ "damage" \notin mishaps => Durable
    /\ "damage" \notin mishaps /\ ~overlapped => Turns

LEMMA CopiesAre ==
  /\ DOMAIN Copies = {"keepData", "keepMeta", "restoreData", "restoreMeta"}
  /\ Copies["keepData"].from = "data" /\ Copies["keepData"].to = "old data" /\ Copies["keepData"].next = "keepMeta"
  /\ Copies["keepMeta"].from = "meta" /\ Copies["keepMeta"].to = "old meta" /\ Copies["keepMeta"].next = "saveData"
  /\ Copies["restoreData"].from = "old data" /\ Copies["restoreData"].to = "data"
  /\ Copies["restoreData"].next = "restoreMeta"
  /\ Copies["restoreMeta"].from = "old meta" /\ Copies["restoreMeta"].to = "meta"
  /\ Copies["restoreMeta"].next = "loadMeta"
  BY DEF Copies

LEMMA DbTypedTypes == DbTyped => DbTypeOK
  BY DEF DbTyped, DbTypeOK, Handles

LEMMA ClosedTyped == HandleTyped(ClosedDb)
<1>1. ClosedDb.at = "closed" /\ ClosedDb.copying = FALSE
  BY DEF ClosedDb
<1>2. "closed" \in Steps /\ 0 \in 0..RecursionLimit /\ {} \in Contents /\ {} \in SUBSET Updates
  BY AdvisoryDatabaseAssumption DEF Steps, Contents
<1>3. ClosedDb \in Handles
  BY <1>2 DEF ClosedDb, Handles
<1> QED
  BY <1>1, <1>3 DEF HandleTyped

LEMMA StillBelow == \A n \in Nat : \A k \in Nat : n < k => n + 1 <= k
  OBVIOUS

LEMMA OneMore == \A k \in Nat : \A n \in 0..k : 0 \in 0..k /\ (n # k => n + 1 \in 0..k)
  OBVIOUS

(* Something more goes wrong, within the bound.                             *)
LEMMA MishapCounted ==
  ASSUME DbTyped, NEW what \in {"crash", "disk error", "damage"}, MayGoWrong(what)
  PROVE  mishaps' \subseteq {"crash", "disk error", "damage"} /\ Cardinality(mishaps') <= MaxMishaps
<1>1. mishaps \subseteq {"crash", "disk error", "damage"} /\ MaxMishaps \in Nat
  BY AdvisoryDatabaseAssumption DEF DbTyped, DbTypeOK
<1>2. IsFiniteSet({"crash", "disk error", "damage"})
  <2>1. IsFiniteSet({"damage"})
    BY FS_Singleton
  <2>2. IsFiniteSet({"damage"} \union {"disk error"})
    BY <2>1, FS_AddElement
  <2>3. IsFiniteSet(({"damage"} \union {"disk error"}) \union {"crash"})
    BY <2>2, FS_AddElement
  <2>4. ({"damage"} \union {"disk error"}) \union {"crash"} = {"crash", "disk error", "damage"}
    OBVIOUS
  <2> QED
    BY <2>3, <2>4
<1>3. IsFiniteSet(mishaps)
  BY <1>1, <1>2, FS_Subset
<1>4. what \notin mishaps /\ Cardinality(mishaps) < MaxMishaps /\ mishaps' = mishaps \union {what}
  BY DEF MayGoWrong
<1>5. Cardinality(mishaps) \in Nat /\ Cardinality(mishaps \union {what}) = Cardinality(mishaps) + 1
  BY <1>3, <1>4, FS_AddElement, FS_CardinalityType
<1>6. Cardinality(mishaps') <= MaxMishaps
  <2>1. Cardinality(mishaps) + 1 <= MaxMishaps
    BY <1>1, <1>4, <1>5, StillBelow
  <2>2. Cardinality(mishaps') = Cardinality(mishaps) + 1
    BY <1>4, <1>5
  <2> QED
    BY <2>1, <2>2
<1> QED
  BY <1>1, <1>4, <1>6

(* A step of one process keeps the types where its own new state has them.  *)
LEMMA HandleStepTyped ==
  ASSUME DbTyped, NEW p \in DbProcesses, NEW r, SetHandle(p, r), HandleTyped(r)
  PROVE  handle' \in [DbProcesses -> Handles] /\ \A q \in DbProcesses : HandleTyped(handle'[q])
<1>1. handle \in [DbProcesses -> Handles] /\ \A q \in DbProcesses : HandleTyped(handle[q])
  BY DEF DbTyped
<1>2. r \in Handles /\ handle' = [handle EXCEPT ![p] = r]
  BY DEF HandleTyped, SetHandle
<1>3. \A q \in DbProcesses : handle'[q] = IF q = p THEN r ELSE handle[q]
  BY <1>1, <1>2
<1> QED
  BY <1>1, <1>2, <1>3

LEMMA FileStepTyped ==
  ASSUME DbTyped, NEW f \in Files, NEW c, FileTyped(c), stored' = [stored EXCEPT ![f] = c]
  PROVE  /\ stored' \in [Files -> Contents \cup {Broken}] /\ \A g \in Files : FileTyped(stored'[g])
         /\ stored'[f] = c /\ \A g \in Files : g # f => stored'[g] = stored[g]
<1>1. stored \in [Files -> Contents \cup {Broken}] /\ \A g \in Files : FileTyped(stored[g])
  BY DEF DbTyped
<1>2. c \in Contents \cup {Broken}
  BY DEF FileTyped, Absent, Contents
<1>3. \A g \in Files : stored'[g] = IF g = f THEN c ELSE stored[g]
  BY <1>1
<1> QED
  BY <1>1, <1>2, <1>3

(* Opening, loading, giving up: a process takes a step and no file changes. *)
StepOf(p, r) ==
    /\ SetHandle(p, r) /\ HandleTyped(r)
    /\ UNCHANGED <<stored, confirmed, excused>>
    /\ \/ UNCHANGED overlapped /\ Opened(p)
       \/ overlapped' = (overlapped \/ Others(p) # {})
    /\ \/ UNCHANGED mishaps
       \/ MayGoWrong("crash") \/ MayGoWrong("disk error")
    /\ stuck' \in BOOLEAN

LEMMA OnlyOne ==
  ASSUME DbTyped, Turns, NEW p \in DbProcesses, Opened(p) \/ Others(p) = {}, NEW q \in DbProcesses, q # p
  PROVE  handle[q].at = "closed" /\ ~handle[q].copying
<1>1. HandleTyped(handle[q])
  BY DEF DbTyped
<1>2. handle[q].at = "closed"
  BY DEF Turns, Others, Opened
<1> QED
  BY <1>1, <1>2, CopiesAre DEF HandleTyped

(* An idle process respects anything.                                       *)
LEMMA ClosedFits ==
  ASSUME NEW h, h.at = "closed", ~h.copying
  PROVE  Respects(h) /\ InTurn(h) /\ SmoothIn(h)
  BY DEF Respects, InTurn, SmoothIn

LEMMA StepKeeps ==
  ASSUME DbInv, NEW p \in DbProcesses, NEW r, StepOf(p, r),
         "damage" \notin mishaps => Respects(r),
         "damage" \notin mishaps /\ Turns => ~stuck' /\ InTurn(r),
         Turns /\ mishaps' = {} /\ (Opened(p) \/ Others(p) = {}) =>
             SmoothIn(r) /\ r.at \notin {"bootMeta", "saveMeta"} /\ stored["data"] = stored["meta"]
  PROVE  DbInv'
<1>1. /\ DbTyped /\ SetHandle(p, r) /\ HandleTyped(r) /\ UNCHANGED <<stored, confirmed, excused>>
      /\ mishaps \subseteq mishaps' /\ ("damage" \in mishaps' => "damage" \in mishaps)
      /\ overlapped' \in BOOLEAN /\ stuck' \in BOOLEAN
      /\ ~overlapped' => ~overlapped /\ (Opened(p) \/ Others(p) = {})
  <2>1. mishaps \subseteq mishaps' /\ ("damage" \in mishaps' => "damage" \in mishaps)
    BY DEF StepOf, MayGoWrong
  <2>2. /\ overlapped' \in BOOLEAN /\ stuck' \in BOOLEAN
        /\ ~overlapped' => ~overlapped /\ (Opened(p) \/ Others(p) = {})
    <3>1. overlapped \in BOOLEAN /\ stuck' \in BOOLEAN
      BY DEF DbInv, StepOf, DbTyped
    <3>2. \/ overlapped' = overlapped /\ Opened(p)
          \/ overlapped' = (overlapped \/ Others(p) # {})
      BY DEF StepOf
    <3>3. CASE overlapped' = overlapped /\ Opened(p)
      BY <3>1, <3>3
    <3>4. CASE overlapped' = (overlapped \/ Others(p) # {})
      BY <3>1, <3>4, Zenon
    <3> QED
      BY <3>2, <3>3, <3>4
  <2> QED
    BY <2>1, <2>2 DEF DbInv, StepOf
<1>2. \A q \in DbProcesses : handle'[q] = IF q = p THEN r ELSE handle[q]
  BY <1>1 DEF SetHandle, DbTyped
<1>3. DbTyped'
  <2>1. mishaps' \subseteq {"crash", "disk error", "damage"} /\ Cardinality(mishaps') <= MaxMishaps
    <3>1. CASE UNCHANGED mishaps
      BY <1>1, <3>1 DEF DbTyped
    <3>2. CASE MayGoWrong("crash") \/ MayGoWrong("disk error")
      BY <1>1, <3>2, MishapCounted
    <3> QED
      BY <3>1, <3>2 DEF StepOf
  <2>2. handle' \in [DbProcesses -> Handles] /\ \A q \in DbProcesses : HandleTyped(handle'[q])
    BY <1>1, HandleStepTyped
  <2> QED
    BY <1>1, <2>1, <2>2 DEF DbTyped
<1>4. ASSUME "damage" \notin mishaps' PROVE Durable'
  <2>1. Durable
    BY <1>1, <1>4 DEF DbInv
  <2>2. ASSUME NEW q \in DbProcesses PROVE Respects(handle'[q])
    BY <1>1, <1>2, <1>4, <2>1 DEF Durable
  <2> QED
    BY <1>1, <2>1, <2>2 DEF Durable, Safe, Recoverable, Respects, Whole, OldWhole
<1>5. ASSUME "damage" \notin mishaps', ~overlapped' PROVE Turns'
  <2>1. Turns
    BY <1>1, <1>5 DEF DbInv
  <2>2. \A q \in DbProcesses : q # p => handle'[q].at = "closed" /\ ~handle'[q].copying
    BY <1>1, <1>2, <1>5, <2>1, OnlyOne
  <2>3. ~stuck' /\ \A q \in DbProcesses : InTurn(handle'[q])
    BY <1>1, <1>2, <1>5, <2>1, <2>2, ClosedFits
  <2>4. ASSUME mishaps' = {} PROVE Smooth'
    <3>1. Smooth
      BY <1>1, <2>1, <2>4 DEF Turns
    <3>2. \A q \in DbProcesses : SmoothIn(handle'[q])
      BY <1>1, <1>2, <1>5, <2>1, <2>2, <2>4, ClosedFits
    <3>3. stored["data"] = stored["meta"]
      BY <1>1, <1>5, <2>1, <2>4
    <3> QED
      BY <1>1, <2>1, <3>1, <3>2, <3>3 DEF Smooth, SmoothIn
  <2>5. \A q, s \in DbProcesses : handle'[q].at # "closed" /\ handle'[s].at # "closed" => q = s
    BY <2>2
  <2> QED
    BY <1>1, <2>1, <2>3, <2>4, <2>5 DEF Turns, Opened, InTurn, Whole, OldWhole, BothWhole
<1> QED
  BY <1>3, <1>4, <1>5 DEF DbInv

(* Writing a file, which excuses what it may write over.                    *)
WriteOf(p, r, f, c) ==
    /\ SetHandle(p, r) /\ HandleTyped(r) /\ Opened(p)
    /\ f \in Files /\ FileTyped(c) /\ stored' = [stored EXCEPT ![f] = c]
    /\ MayOverwrite(p)
    /\ UNCHANGED <<confirmed, overlapped, stuck, mishaps>>

LEMMA WriteKeeps ==
  ASSUME DbInv, NEW p \in DbProcesses, NEW r, NEW f, NEW c, WriteOf(p, r, f, c),
         Durable => /\ Safe' \subseteq Recoverable'
                    /\ stored'["data"] = Absent => Safe' = {}
                    /\ Respects(r)',
         Turns => /\ BothWhole' \/ stored'["old data"] = Absent \/ OldWhole'
                  /\ stored'["data"] = Absent => stored'["old data"] = Absent
                  /\ InTurn(r)',
         Turns /\ mishaps = {} =>
                  /\ stored'["data"] # Broken /\ SmoothIn(r)'
                  /\ r.at \in {"bootMeta", "saveMeta"} \/ stored'["data"] = stored'["meta"]
  PROVE  DbInv'
<1>1. /\ DbTyped /\ SetHandle(p, r) /\ HandleTyped(r) /\ UNCHANGED <<confirmed, overlapped, stuck, mishaps>>
      /\ MayOverwrite(p) /\ Opened(p) /\ HandleTyped(handle[p])
  BY DEF DbInv, WriteOf, DbTyped
<1>2. /\ handle' \in [DbProcesses -> Handles]
      /\ \A q \in DbProcesses : handle'[q] = IF q = p THEN r ELSE handle[q]
      /\ \A q \in DbProcesses : HandleTyped(handle'[q])
  BY <1>1, HandleStepTyped DEF SetHandle, DbTyped
<1>3. stored' \in [Files -> Contents \cup {Broken}] /\ \A g \in Files : FileTyped(stored'[g])
  BY <1>1, FileStepTyped DEF WriteOf
<1>4. excused \subseteq excused' /\ excused' \subseteq Updates
  <2>1. /\ excused \subseteq Updates /\ confirmed \subseteq Updates /\ handle[p].unseen \subseteq Updates
        /\ \A q \in Others(p) : handle[q].update \in Updates \cup {NoUpdate}
    BY <1>1 DEF DbTyped, Others, HandleTyped, Handles
  <2> QED
    BY <1>1, <2>1 DEF MayOverwrite
<1>5. DbTyped'
  BY <1>1, <1>2, <1>3, <1>4 DEF DbTyped
<1>6. ASSUME "damage" \notin mishaps' PROVE Durable'
  <2>1. Durable
    BY <1>1, <1>6 DEF DbInv
  <2>2. ASSUME NEW q \in DbProcesses, q # p PROVE Respects(handle[q])'
    <3> DEFINE h == handle[q]
    <3>1. Respects(h) /\ HandleTyped(h) /\ handle'[q] = h
      BY <1>1, <1>2, <2>1, <2>2 DEF Durable, DbTyped
    <3>2. PICK g : g = handle[q]
      OBVIOUS
    <3>3. Safe' \subseteq Safe
      BY <1>1, <1>4 DEF Safe
    <3>4. CASE g.at = "closed"
      <4>1. ~g.copying
        BY <3>1, <3>2, <3>4, CopiesAre DEF HandleTyped
      <4> QED
        BY <3>1, <3>2, <3>4, <4>1 DEF Respects
    <3>5. CASE g.at = "ready"
      <4>1. ~g.copying
        BY <3>1, <3>2, <3>5, CopiesAre DEF HandleTyped
      <4> QED
        BY <3>1, <3>2, <3>3, <3>5, <4>1 DEF Respects
    <3>6. CASE g.at \notin {"closed", "ready"}
      <4>1. q \in Others(p) /\ Mixed(p)
        BY <2>2, <3>2, <3>6 DEF Others, Opened, Mixed
      <4>2. Safe' = {}
        BY <1>1, <4>1 DEF MayOverwrite, Safe
      <4>3. g.at = "saveMeta" => g.update \in excused' /\ g.update \in g.advisories
        <5>1. g.at = "saveMeta" => g.update \in Updates /\ g.update # NoUpdate
          BY <3>1, <3>2, AdvisoryDatabaseAssumption DEF HandleTyped
        <5> QED
          BY <1>1, <3>1, <3>2, <4>1, <5>1 DEF MayOverwrite, Respects
      <4> QED
        BY <3>1, <3>2, <4>2, <4>3 DEF Respects
    <3> QED
      BY <3>4, <3>5, <3>6
  <2>3. ASSUME NEW q \in DbProcesses PROVE Respects(handle[q])'
    <3>1. CASE q = p
      <4>1. handle'[p] = r /\ Respects(r)'
        BY <1>2, <2>1
      <4> QED
        BY <3>1, <4>1 DEF Respects
    <3> QED
      BY <2>2, <3>1
  <2> QED
    BY <2>1, <2>3 DEF Durable
<1>7. ASSUME "damage" \notin mishaps', ~overlapped' PROVE Turns'
  <2>1. Turns
    BY <1>1, <1>7 DEF DbInv
  <2>2. \A q \in DbProcesses : q # p => handle'[q].at = "closed" /\ ~handle'[q].copying
    BY <1>1, <1>2, <2>1, OnlyOne
  <2>3. \A q \in DbProcesses : (InTurn(handle[q]) /\ SmoothIn(handle[q]))' \/ q = p
    BY <2>2 DEF InTurn, SmoothIn
  <2>4. excused' = {}
    <3>1. Others(p) = {}
      BY <1>1, <2>1 DEF Others, Turns
    <3>2. handle[p].unseen = {} /\ ~Mixed(p)
      BY <1>1, <2>1, <3>1 DEF Turns, InTurn, Mixed, Opened, BothWhole
    <3> QED
      BY <1>1, <2>1, <3>1, <3>2 DEF MayOverwrite, Turns
  <2>5. \A q \in DbProcesses : InTurn(handle[q])'
    <3>1. handle'[p] = r /\ InTurn(r)'
      BY <1>2, <2>1
    <3>2. InTurn(handle[p])'
      BY <3>1 DEF InTurn
    <3> QED
      BY <2>3, <3>2
  <2>6. ASSUME mishaps' = {} PROVE Smooth'
    <3>1. handle'[p] = r /\ SmoothIn(r)'
      BY <1>1, <1>2, <2>1, <2>6
    <3>2. SmoothIn(handle[p])'
      BY <3>1 DEF SmoothIn
    <3>3. \A q \in DbProcesses : SmoothIn(handle[q])'
      BY <2>3, <3>2
    <3> QED
      BY <1>1, <1>2, <2>1, <2>6, <3>3 DEF Smooth
  <2>7. \A q, s \in DbProcesses : handle'[q].at # "closed" /\ handle'[s].at # "closed" => q = s
    BY <2>2
  <2> QED
    BY <1>1, <2>1, <2>4, <2>5, <2>6, <2>7 DEF Turns, Opened
<1> QED
  BY <1>5, <1>6, <1>7 DEF DbInv

(* Where a rollback may begin: what must be kept is in the backup, if there *)
(* is one, and on its own the process has not restored it before.           *)
LEMMA RollbackKeeps ==
  ASSUME DbInv, NEW p \in DbProcesses, Rollback(p),
         handle[p].at \in {"loadMeta", "loadData", "saveData", "saveMeta"},
         UNCHANGED <<stored, confirmed, excused, overlapped>>,
         UNCHANGED mishaps \/ MayGoWrong("disk error"),
         Durable => \/ Safe \subseteq handle[p].unseen
                    \/ OldWhole /\ Safe \subseteq stored["old data"] \union handle[p].unseen,
         Turns => /\ stored["old data"] = Absent \/ OldWhole
                  /\ handle[p].restored = 0 /\ mishaps' # {}
  PROVE  DbInv'
<1> PICK h : h = handle[p]
  OBVIOUS
<1>1. /\ h \in Handles /\ HandleTyped(h) /\ ~h.copying /\ h.at # "closed" /\ Opened(p) /\ stuck \in BOOLEAN
      /\ h.restored \in 0..RecursionLimit /\ RecursionLimit \in Nat \ {0}
  BY CopiesAre, AdvisoryDatabaseAssumption DEF DbInv, DbTyped, HandleTyped, Handles, Opened
<1>2. ("damage" \notin mishaps => Durable) /\ (Turns => handle[p].unseen = {})
  BY <1>1 DEF DbInv, Turns, InTurn, Opened
<1>3. CASE stored["old data"] = Absent
  <2> DEFINE r == [h EXCEPT !.at = "bootData"]
  <2>1. r \in Handles /\ r.at = "bootData" /\ r.copying = h.copying /\ r.unseen = h.unseen
    BY <1>1 DEF Handles, Steps
  <2>2. SetHandle(p, r) /\ (stuck' <=> stuck) /\ stuck' \in BOOLEAN
    BY <1>1, <1>3 DEF Rollback, GoTo
  <2> HIDE DEF r
  <2>3. HandleTyped(r) /\ ~r.copying
    BY <1>1, <2>1 DEF HandleTyped
  <2>4. StepOf(p, r)
    BY <1>1, <2>2, <2>3 DEF StepOf
  <2>5. Durable => Respects(r)
    <3>1. ~OldWhole
      BY <1>3 DEF OldWhole, Whole
    <3> QED
      BY <2>1, <2>3, <3>1 DEF Respects
  <2>6. Turns => ~stuck' /\ InTurn(r)
    BY <1>1, <1>2, <1>3, <2>1, <2>2, <2>3 DEF Turns, InTurn
  <2> QED
    BY <1>2, <2>4, <2>5, <2>6, StepKeeps
<1>4. CASE stored["old data"] # Absent /\ h.restored = RecursionLimit
  <2>1. SetHandle(p, ClosedDb) /\ stuck' \in BOOLEAN
    BY <1>1, <1>4 DEF Rollback
  <2>2. StepOf(p, ClosedDb)
    BY <1>1, <2>1, ClosedTyped DEF StepOf
  <2>3. ~Turns
    BY <1>1, <1>4
  <2>4. Respects(ClosedDb)
    BY ClosedFits DEF ClosedDb
  <2> QED
    BY <2>2, <2>3, <2>4, StepKeeps
<1>5. CASE stored["old data"] # Absent /\ h.restored # RecursionLimit
  <2> DEFINE r == [h EXCEPT !.at = "restoreData", !.restored = @ + 1]
  <2>1. r \in Handles /\ r.at = "restoreData" /\ r.copying = h.copying /\ r.unseen = h.unseen
    <3>1. h.restored + 1 \in 0..RecursionLimit
      BY <1>1, <1>5, OneMore
    <3>2. "restoreData" \in Steps
      BY CopiesAre DEF Steps
    <3> QED
      BY <1>1, <3>1, <3>2 DEF Handles
  <2>2. SetHandle(p, r) /\ (stuck' <=> stuck) /\ stuck' \in BOOLEAN
    BY <1>1, <1>5 DEF Rollback
  <2> HIDE DEF r
  <2>3. HandleTyped(r) /\ ~r.copying
    BY <1>1, <2>1 DEF HandleTyped
  <2>4. StepOf(p, r)
    BY <1>1, <2>2, <2>3 DEF StepOf
  <2>5. Durable => Respects(r)
    BY <2>1, <2>3 DEF Respects
  <2>6. Turns => ~stuck' /\ InTurn(r)
    BY <1>1, <1>2, <1>5, <2>1, <2>2, <2>3 DEF Turns, InTurn
  <2> QED
    BY <1>2, <2>4, <2>5, <2>6, StepKeeps
<1> QED
  BY <1>3, <1>4, <1>5

(* What is known of the process that takes a step.                          *)
LEMMA Known ==
  ASSUME DbInv, NEW p \in DbProcesses
  PROVE  /\ handle[p] \in Handles /\ HandleTyped(handle[p]) /\ DbTyped
         /\ handle[p].at \notin DOMAIN Copies => ~handle[p].copying
         /\ "damage" \notin mishaps => Durable /\ Respects(handle[p])
         /\ Turns => InTurn(handle[p]) /\ ~stuck /\ (mishaps = {} => Smooth /\ SmoothIn(handle[p]))
         /\ stuck \in BOOLEAN /\ Safe \subseteq Updates
         /\ \A f \in Files : FileTyped(stored[f])
  BY DEF DbInv, DbTyped, HandleTyped, Durable, Turns, Smooth, Safe

LEMMA SameFiles ==
  ASSUME DbInv, Turns, mishaps = {}, NEW p \in DbProcesses, Opened(p) \/ Others(p) = {},
         handle[p].at \notin {"bootMeta", "saveMeta"}
  PROVE  stored["data"] = stored["meta"]
<1>1. \A q \in DbProcesses : q # p => handle[q].at = "closed"
  BY OnlyOne, Known
<1> QED
  BY <1>1, Known DEF Smooth

LEMMA OpenKeeps ==
  ASSUME DbInv, NEW p \in DbProcesses, OpenDb(p)
  PROVE  DbInv'
<1> PICK next \in {"bootData", "loadMeta"} :
       next = IF stored["data"] = Absent THEN "bootData" ELSE "loadMeta"
  OBVIOUS
<1> DEFINE r == [ClosedDb EXCEPT !.at = next]
<1>1. SetHandle(p, r) /\ UNCHANGED <<stored, confirmed, excused, stuck, mishaps>>
      /\ overlapped' = (overlapped \/ Others(p) # {})
  BY DEF OpenDb
<1>2. r.at = next /\ r.copying = FALSE /\ r.unseen = {} /\ r.restored = 0 /\ r \in Handles
  <2>1. next \in Steps /\ ClosedDb \in Handles
    BY ClosedTyped DEF HandleTyped, Steps
  <2> QED
    BY <2>1 DEF Handles, ClosedDb
<1>3. handle[p].at = "closed"
  BY DEF OpenDb, Opened
<1> HIDE DEF r
<1>4. HandleTyped(r)
  BY <1>2 DEF HandleTyped
<1>5. StepOf(p, r)
  BY <1>1, <1>4, Known DEF StepOf
<1>6. Durable => Respects(r)
  BY <1>2 DEF Durable, Respects
<1>7. Turns => ~stuck' /\ InTurn(r)
  BY <1>1, <1>2 DEF Turns, InTurn
<1>8. ASSUME Turns, mishaps' = {}, Opened(p) \/ Others(p) = {}
      PROVE  SmoothIn(r) /\ r.at \notin {"bootMeta", "saveMeta"} /\ stored["data"] = stored["meta"]
  <2>1. stored["data"] = stored["meta"] /\ mishaps = {}
    BY <1>1, <1>3, <1>8, SameFiles
  <2> QED
    BY <1>2, <2>1 DEF SmoothIn
<1> QED
  BY <1>5, <1>6, <1>7, <1>8, StepKeeps DEF DbInv

LEMMA LoadMetaKeeps ==
  ASSUME DbInv, NEW p \in DbProcesses, LoadMeta(p)
  PROVE  DbInv'
<1> PICK h : h = handle[p]
  OBVIOUS
<1>1. /\ h \in Handles /\ HandleTyped(h) /\ ~h.copying /\ h.at = "loadMeta" /\ Opened(p)
      /\ UNCHANGED <<stored, confirmed, excused, overlapped, mishaps>>
  BY Known, CopiesAre DEF LoadMeta, Opened
<1>2. CASE Whole("meta")
  <2> DEFINE r == [h EXCEPT !.at = "loadData", !.counted = stored["meta"]]
  <2>1. FileTyped(stored["meta"])
    BY Known DEF Files
  <2>2. /\ r \in Handles /\ r.at = "loadData" /\ r.copying = h.copying /\ r.unseen = h.unseen
        /\ r.restored = h.restored /\ r.counted = stored["meta"]
    BY <1>1, <1>2, <2>1 DEF Handles, Steps, FileTyped, Whole
  <2>3. SetHandle(p, r) /\ UNCHANGED stuck
    BY <1>1, <1>2 DEF LoadMeta
  <2> HIDE DEF r
  <2>4. HandleTyped(r) /\ ~r.copying
    BY <1>1, <2>2 DEF HandleTyped
  <2>5. StepOf(p, r)
    BY <1>1, <2>3, <2>4, Known DEF StepOf
  <2>6. Respects(r)
    BY <1>2, <2>2, <2>4 DEF Respects
  <2>7. Turns => ~stuck' /\ InTurn(r)
    <3>1. Turns => InTurn(h)
      BY Known
    <3> QED
      BY <1>1, <1>2, <2>2, <2>3, <2>4, <3>1 DEF Turns, InTurn
  <2>8. ASSUME Turns, mishaps' = {}
        PROVE  SmoothIn(r) /\ r.at \notin {"bootMeta", "saveMeta"} /\ stored["data"] = stored["meta"]
    <3>1. stored["data"] = stored["meta"] /\ SmoothIn(h)
      BY <1>1, <2>8, SameFiles, Known
    <3> QED
      BY <1>1, <2>2, <3>1 DEF SmoothIn
  <2> QED
    BY <2>5, <2>6, <2>7, <2>8, StepKeeps
<1>3. CASE ~Whole("meta")
  <2>1. Rollback(p)
    BY <1>1, <1>3 DEF LoadMeta
  <2>2. Durable => Safe = {} \/ (OldWhole /\ Safe \subseteq stored["old data"])
    BY <1>3, Known, AdvisoryDatabaseAssumption DEF Durable, Recoverable, OldWhole
  <2>3. ASSUME Turns
        PROVE  (stored["old data"] = Absent \/ OldWhole) /\ h.restored = 0 /\ mishaps' # {}
    <3>1. InTurn(h) /\ ~BothWhole
      BY <1>3, <2>3, Known DEF BothWhole
    <3>2. mishaps # {}
      <4> SUFFICES ASSUME mishaps = {} PROVE FALSE
        OBVIOUS
      <4>1. stored["data"] = stored["meta"] /\ stored["data"] # Broken /\ stored["data"] # Absent
        BY <1>1, <2>3, SameFiles, Known DEF Smooth, SmoothIn
      <4> QED
        BY <1>3, <4>1 DEF Whole
    <3> QED
      BY <1>1, <2>3, <3>1, <3>2 DEF Turns, InTurn
  <2> QED
    BY <1>1, <2>1, <2>2, <2>3, RollbackKeeps
<1> QED
  BY <1>2, <1>3

LEMMA LoadDataKeeps ==
  ASSUME DbInv, NEW p \in DbProcesses, LoadData(p)
  PROVE  DbInv'
<1> PICK h : h = handle[p]
  OBVIOUS
<1>1. /\ h \in Handles /\ HandleTyped(h) /\ ~h.copying /\ h.at = "loadData" /\ Opened(p)
      /\ UNCHANGED <<stored, confirmed, excused, overlapped, mishaps>>
  BY Known, CopiesAre DEF LoadData, Opened
<1>2. CASE Whole("data")
  <2> DEFINE g == [h EXCEPT !.advisories = stored["data"], !.unseen = {}]
             r == Settled(g)
  <2>1. stored["data"] \in Contents /\ BuiltIn \in stored["data"]
    BY <1>2, Known DEF FileTyped, Whole, Files
  <2>2. /\ g \in Handles /\ g.copying = h.copying /\ g.unseen = {} /\ g.counted = h.counted
        /\ g.advisories = stored["data"]
    BY <1>1, <2>1 DEF Handles
  <2>3. SetHandle(p, r) /\ UNCHANGED stuck
    BY <1>1, <1>2 DEF LoadData
  <2> HIDE DEF g
  <2>4. /\ r \in Handles /\ r.at = "ready" /\ r.copying = h.copying /\ r.unseen = {}
        /\ r.restored = 0 /\ r.counted = h.counted /\ r.advisories = stored["data"]
    <3>1. NoUpdate \in Updates \cup {NoUpdate} /\ 0 \in 0..RecursionLimit /\ "ready" \in Steps
      BY AdvisoryDatabaseAssumption DEF Steps
    <3> QED
      BY <2>2, <3>1 DEF Handles, Settled
  <2> HIDE DEF r
  <2>5. HandleTyped(r) /\ ~r.copying
    BY <1>1, <2>1, <2>4 DEF HandleTyped
  <2>6. StepOf(p, r)
    BY <1>1, <2>3, <2>5, Known DEF StepOf
  <2>7. "damage" \notin mishaps => Respects(r)
    <3>1. "damage" \notin mishaps => Safe \subseteq stored["data"]
      BY <1>1, <1>2, Known DEF Durable, Respects, Recoverable
    <3> QED
      BY <2>4, <2>5, <3>1 DEF Respects
  <2>8. "damage" \notin mishaps /\ Turns => ~stuck' /\ InTurn(r)
    <3>1. Turns => InTurn(h)
      BY Known
    <3>2. Turns => BothWhole
      BY <1>1, <1>2, <3>1 DEF InTurn, BothWhole
    <3> QED
      BY <1>1, <2>3, <2>4, <2>5, <3>1, <3>2 DEF Turns, InTurn
  <2>9. ASSUME Turns, mishaps' = {}
        PROVE  SmoothIn(r) /\ r.at \notin {"bootMeta", "saveMeta"} /\ stored["data"] = stored["meta"]
    <3>1. stored["data"] = stored["meta"] /\ SmoothIn(h)
      BY <1>1, <2>9, SameFiles, Known
    <3> QED
      BY <1>1, <2>4, <3>1 DEF SmoothIn
  <2> QED
    BY <2>6, <2>7, <2>8, <2>9, StepKeeps
<1>3. CASE ~Whole("data")
  <2>1. Rollback(p)
    BY <1>1, <1>3 DEF LoadData
  <2>2. Durable => Safe = {} \/ (OldWhole /\ Safe \subseteq stored["old data"])
    BY <1>3, Known, AdvisoryDatabaseAssumption DEF Durable, Recoverable, OldWhole
  <2>3. ASSUME Turns
        PROVE  (stored["old data"] = Absent \/ OldWhole) /\ h.restored = 0 /\ mishaps' # {}
    <3>1. InTurn(h) /\ ~BothWhole
      BY <1>3, <2>3, Known DEF BothWhole
    <3>2. mishaps # {}
      BY <1>1, <1>3, <2>3, Known DEF Smooth, SmoothIn, Whole
    <3> QED
      BY <1>1, <2>3, <3>1, <3>2 DEF Turns, InTurn
  <2> QED
    BY <1>1, <2>1, <2>2, <2>3, RollbackKeeps
<1> QED
  BY <1>2, <1>3

LEMMA UpdateKeeps ==
  ASSUME DbInv, NEW p \in DbProcesses, NEW b \in Updates, Update(p, b)
  PROVE  DbInv'
<1> PICK h : h = handle[p]
  OBVIOUS
<1>1. /\ h \in Handles /\ HandleTyped(h) /\ ~h.copying /\ h.at = "ready" /\ Opened(p)
      /\ UNCHANGED <<stored, confirmed, excused, overlapped, mishaps, stuck>>
  BY Known, CopiesAre DEF Update, Opened
<1> DEFINE r == [h EXCEPT !.at = "keepData", !.update = b]
<1>2. /\ r \in Handles /\ r.at = "keepData" /\ r.copying = h.copying /\ r.unseen = h.unseen /\ r.update = b
      /\ r.restored = h.restored /\ r.counted = h.counted /\ r.advisories = h.advisories
  BY <1>1, CopiesAre DEF Handles, Steps
<1>3. SetHandle(p, r)
  BY DEF Update
<1> HIDE DEF r
<1>4. HandleTyped(r) /\ ~r.copying
  BY <1>1, <1>2 DEF HandleTyped
<1>5. StepOf(p, r)
  BY <1>1, <1>3, <1>4, Known DEF StepOf
<1>6. "damage" \notin mishaps => Respects(r)
  <2>1. "damage" \notin mishaps => Respects(h)
    BY Known
  <2> QED
    BY <1>1, <1>2, <1>4, <2>1 DEF Respects
<1>7. Turns => ~stuck' /\ InTurn(r)
  <2>1. Turns => InTurn(h)
    BY Known
  <2> QED
    BY <1>1, <1>2, <1>4, <2>1 DEF Turns, InTurn
<1>8. ASSUME Turns, mishaps' = {}
      PROVE  SmoothIn(r) /\ r.at \notin {"bootMeta", "saveMeta"} /\ stored["data"] = stored["meta"]
  <2>1. stored["data"] = stored["meta"] /\ SmoothIn(h)
    BY <1>1, <1>8, SameFiles, Known
  <2> QED
    BY <1>1, <1>2, <2>1 DEF SmoothIn
<1> QED
  BY <1>5, <1>6, <1>7, <1>8, StepKeeps

LEMMA NothingToKeepKeeps ==
  ASSUME DbInv, NEW p \in DbProcesses, NothingToKeep(p)
  PROVE  DbInv'
<1> PICK h : h = handle[p]
  OBVIOUS
<1>1. /\ h \in Handles /\ HandleTyped(h) /\ ~h.copying /\ h.at \in {"keepData", "keepMeta"} /\ Opened(p)
      /\ h.at = "keepData" => stored["data"] = Absent
      /\ h.at = "keepMeta" => stored["meta"] = Absent
      /\ UNCHANGED <<stored, confirmed, excused, overlapped, mishaps, stuck>>
  BY Known, CopiesAre DEF NothingToKeep, Opened
<1> PICK next \in {"keepMeta", "saveData"} : next = IF h.at = "keepData" THEN "keepMeta" ELSE "saveData"
  OBVIOUS
<1> DEFINE r == [h EXCEPT !.at = next]
<1>2. /\ r \in Handles /\ r.at = next /\ r.copying = h.copying /\ r.unseen = h.unseen /\ r.update = h.update
      /\ r.restored = h.restored /\ r.counted = h.counted /\ r.advisories = h.advisories
  BY <1>1, CopiesAre DEF Handles, Steps
<1>3. SetHandle(p, r)
  <2>1. next = Copies[h.at].next
    BY <1>1, CopiesAre
  <2> QED
    BY <2>1 DEF NothingToKeep, GoTo
<1> HIDE DEF r
<1>4. HandleTyped(r) /\ ~r.copying
  BY <1>1, <1>2 DEF HandleTyped
<1>5. StepOf(p, r)
  BY <1>1, <1>3, <1>4, Known DEF StepOf
<1>6. "damage" \notin mishaps => Respects(r)
  <2> SUFFICES ASSUME "damage" \notin mishaps PROVE Respects(r)
    OBVIOUS
  <2>1. Durable /\ Respects(h)
    BY Known
  <2>2. CASE h.at = "keepData"
    <3>1. Safe = {}
      BY <1>1, <2>1, <2>2 DEF Durable
    <3> QED
      BY <1>2, <1>4, <2>2, <3>1 DEF Respects
  <2>3. CASE h.at = "keepMeta"
    <3>1. Safe = {} \/ (OldWhole /\ Safe \subseteq stored["old data"])
      BY <1>1, <2>1, <2>3, Known, AdvisoryDatabaseAssumption DEF Durable, Recoverable, OldWhole, Whole
    <3> QED
      BY <1>2, <1>4, <2>1, <2>3, <3>1 DEF Respects
  <2> QED
    BY <1>1, <2>2, <2>3
<1>7. ~Turns
  BY <1>1, Known DEF InTurn, BothWhole, Whole
<1> QED
  BY <1>5, <1>6, <1>7, StepKeeps

(* Whoever gives up, is killed or ends holds nothing any more.              *)
LEMMA EndKeeps ==
  ASSUME DbInv, NEW p \in DbProcesses, StepOf(p, ClosedDb), Opened(p),
         "damage" \notin mishaps /\ Turns => ~stuck',
         mishaps' = {} => handle[p].at = "ready"
  PROVE  DbInv'
<1>1. Respects(ClosedDb) /\ InTurn(ClosedDb) /\ SmoothIn(ClosedDb) /\ ClosedDb.at = "closed"
  BY ClosedFits DEF ClosedDb
<1>2. ASSUME Turns, mishaps' = {} PROVE stored["data"] = stored["meta"]
  <2>1. mishaps = {}
    BY <1>2 DEF StepOf, MayGoWrong
  <2> QED
    BY <1>2, <2>1, SameFiles
<1> QED
  BY <1>1, <1>2, StepKeeps

LEMMA NothingToRestoreKeeps ==
  ASSUME DbInv, NEW p \in DbProcesses, NothingToRestore(p)
  PROVE  DbInv'
<1>1. StepOf(p, ClosedDb) /\ Opened(p) /\ handle[p].at = "restoreMeta" /\ ~Whole("old meta")
  BY ClosedTyped DEF NothingToRestore, StepOf, Opened, Whole
<1>2. ~Turns
  BY <1>1, Known DEF InTurn, OldWhole
<1>3. Respects(ClosedDb)
  BY ClosedFits DEF ClosedDb
<1> QED
  BY <1>1, <1>2, <1>3, StepKeeps

LEMMA CloseKeeps ==
  ASSUME DbInv, NEW p \in DbProcesses, CloseDb(p)
  PROVE  DbInv'
<1>1. StepOf(p, ClosedDb) /\ Opened(p) /\ UNCHANGED stuck
  BY ClosedTyped, Known DEF CloseDb, StepOf, Opened
<1>2. handle[p].at = "ready"
  BY DEF CloseDb
<1>3. Turns => ~stuck'
  BY <1>1, Zenon DEF Turns
<1> QED
  BY <1>1, <1>2, <1>3, EndKeeps

LEMMA KillKeeps ==
  ASSUME DbInv, NEW p \in DbProcesses, KillProcess(p)
  PROVE  DbInv'
<1>1. StepOf(p, ClosedDb) /\ Opened(p) /\ UNCHANGED stuck /\ mishaps' # {}
  BY ClosedTyped, Known DEF KillProcess, StepOf, MayGoWrong
<1> QED
  BY <1>1, EndKeeps DEF Turns

LEMMA WriteErrorKeeps ==
  ASSUME DbInv, NEW p \in DbProcesses, WriteError(p)
  PROVE  DbInv'
<1> PICK h : h = handle[p]
  OBVIOUS
<1>1. /\ h \in Handles /\ HandleTyped(h) /\ MayGoWrong("disk error") /\ mishaps' # {}
      /\ UNCHANGED <<stored, confirmed, excused, overlapped>>
  BY Known DEF WriteError, MayGoWrong
<1>2. CASE h.at \in {"saveData", "saveMeta"} /\ Rollback(p)
  <2>1. Durable => \/ Safe \subseteq h.unseen
                   \/ OldWhole /\ Safe \subseteq stored["old data"] \union h.unseen
    BY <1>2 DEF Durable, Respects
  <2>2. Turns => OldWhole /\ h.restored = 0
    BY <1>2 DEF Turns, InTurn
  <2> QED
    BY <1>1, <1>2, <2>1, <2>2, RollbackKeeps
<1>3. CASE /\ h.at \in {"keepData", "keepMeta"} /\ h.copying
           /\ SetHandle(p, Settled([handle[p] EXCEPT !.copying = FALSE]))
           /\ UNCHANGED stuck
  <2> DEFINE g == [h EXCEPT !.copying = FALSE]
             r == Settled(g)
  <2>1. /\ g \in Handles /\ g.copying = FALSE /\ g.unseen = h.unseen /\ g.advisories = h.advisories
    BY <1>1 DEF Handles
  <2> HIDE DEF g
  <2>2. /\ r \in Handles /\ r.at = "ready" /\ r.copying = FALSE /\ r.unseen = h.unseen
        /\ r.restored = 0 /\ r.advisories = h.advisories
    <3>1. NoUpdate \in Updates \cup {NoUpdate} /\ 0 \in 0..RecursionLimit /\ "ready" \in Steps
      BY AdvisoryDatabaseAssumption DEF Steps
    <3> QED
      BY <2>1, <3>1 DEF Handles, Settled
  <2>3. SetHandle(p, r)
    BY <1>3 DEF g
  <2> HIDE DEF r
  <2>4. HandleTyped(r)
    BY <1>1, <1>3, <2>2 DEF HandleTyped
  <2>5. StepOf(p, r)
    BY <1>1, <1>3, <2>3, <2>4, Known DEF StepOf, Opened
  <2>6. "damage" \notin mishaps => Respects(r)
    <3>1. "damage" \notin mishaps => Respects(h)
      BY Known
    <3> QED
      BY <1>3, <2>2, <3>1 DEF Respects
  <2>7. Turns => ~stuck' /\ InTurn(r)
    <3>1. Turns => InTurn(h)
      BY Known
    <3> QED
      BY <1>3, <2>2, <3>1 DEF Turns, InTurn
  <2> QED
    BY <1>1, <2>5, <2>6, <2>7, StepKeeps
<1>4. CASE /\ \/ h.at \in {"bootData", "bootMeta"}
              \/ h.at \in {"restoreData", "restoreMeta"} /\ h.copying
           /\ SetHandle(p, ClosedDb) /\ UNCHANGED stuck
  <2>1. StepOf(p, ClosedDb) /\ Opened(p)
    BY <1>1, <1>4, ClosedTyped, Known DEF StepOf, Opened
  <2> QED
    BY <1>1, <1>4, <2>1, EndKeeps DEF Turns
<1> QED
  BY <1>2, <1>3, <1>4 DEF WriteError

(* What a write tells of its process, and what it excuses.                  *)
LEMMA Writes ==
  ASSUME DbInv, NEW p \in DbProcesses, NEW r, NEW f, NEW c, WriteOf(p, r, f, c)
  PROVE  /\ stored'[f] = c /\ \A g \in Files : g # f => stored'[g] = stored[g]
         /\ Safe' \subseteq Safe \ handle[p].unseen
         /\ excused \subseteq excused' /\ confirmed' = confirmed
         /\ Mixed(p) => Safe' = {}
<1>1. DbTyped
  BY DEF DbInv
<1>2. MayOverwrite(p) /\ confirmed' = confirmed
  BY DEF WriteOf
<1> QED
  BY <1>1, <1>2, FileStepTyped DEF WriteOf, MayOverwrite, Safe

LEMMA BootDataKeeps ==
  ASSUME DbInv, NEW p \in DbProcesses, BootData(p)
  PROVE  DbInv'
<1> PICK h : h = handle[p]
  OBVIOUS
<1>1. /\ h \in Handles /\ HandleTyped(h) /\ ~h.copying /\ h.at = "bootData" /\ Opened(p)
      /\ {BuiltIn} \in Contents /\ FileTyped({BuiltIn}) /\ {BuiltIn} \notin {Absent, Broken} /\ BuiltIn \notin Updates
  BY Known, CopiesAre, AdvisoryDatabaseAssumption DEF BootData, Opened, FileTyped, Contents, Absent, Broken
<1> DEFINE r == [h EXCEPT !.at = "bootMeta", !.advisories = {BuiltIn}, !.counted = {BuiltIn}]
<1>2. /\ r \in Handles /\ r.at = "bootMeta" /\ r.copying = h.copying /\ r.unseen = h.unseen
      /\ r.counted = {BuiltIn} /\ r.advisories = {BuiltIn}
  BY <1>1 DEF Handles, Steps
<1>3. SetHandle(p, r)
  BY DEF BootData
<1> HIDE DEF r
<1>4. HandleTyped(r) /\ ~r.copying
  BY <1>1, <1>2 DEF HandleTyped
<1>5. WriteOf(p, r, "data", {BuiltIn})
  BY <1>1, <1>3, <1>4 DEF WriteOf, BootData, Files
<1>6. /\ stored'["data"] = {BuiltIn} /\ \A g \in Files : g # "data" => stored'[g] = stored[g]
      /\ Safe' \subseteq Safe \ h.unseen
  BY <1>5, Writes
<1>7. Durable => Safe' \subseteq Recoverable' /\ (stored'["data"] = Absent => Safe' = {}) /\ Respects(r)'
  <2>1. Durable => Safe' = {}
    BY <1>1, <1>6 DEF Durable, Respects
  <2> QED
    BY <1>2, <1>4, <2>1 DEF Respects
<1>8. Turns => /\ BothWhole' \/ stored'["old data"] = Absent \/ OldWhole'
               /\ stored'["data"] = Absent => stored'["old data"] = Absent
               /\ InTurn(r)'
  <2>1. Turns => InTurn(h) /\ stored'["old data"] = Absent
    BY <1>1, <1>6, Known DEF InTurn, Files
  <2> QED
    BY <1>1, <1>2, <1>4, <1>6, <2>1 DEF InTurn, Whole
<1>9. stored'["data"] # Broken /\ SmoothIn(r)'
  BY <1>1, <1>2, <1>6 DEF SmoothIn
<1> QED
  BY <1>2, <1>5, <1>7, <1>8, <1>9, WriteKeeps

LEMMA SaveDataKeeps ==
  ASSUME DbInv, NEW p \in DbProcesses, SaveData(p)
  PROVE  DbInv'
<1> PICK h : h = handle[p]
  OBVIOUS
<1> PICK all : all = h.advisories \cup {h.update}
  OBVIOUS
<1>1. /\ h \in Handles /\ HandleTyped(h) /\ ~h.copying /\ h.at = "saveData" /\ Opened(p)
  BY Known, CopiesAre DEF SaveData, Opened
<1>2. all \in Contents /\ BuiltIn \in all /\ h.update \in all /\ FileTyped(all) /\ all \notin {Absent, Broken}
  <2>1. h.update \in Updates /\ h.advisories \in Contents /\ BuiltIn \in h.advisories
    BY <1>1 DEF HandleTyped, Handles
  <2> QED
    BY <2>1, AdvisoryDatabaseAssumption DEF FileTyped, Contents, Absent, Broken
<1> DEFINE r == [h EXCEPT !.at = "saveMeta", !.advisories = all, !.counted = all]
<1>3. /\ r \in Handles /\ r.at = "saveMeta" /\ r.copying = h.copying /\ r.unseen = h.unseen /\ r.update = h.update
      /\ r.counted = all /\ r.advisories = all /\ r.restored = h.restored
  BY <1>1, <1>2 DEF Handles, Steps
<1>4. SetHandle(p, r) /\ stored' = [stored EXCEPT !["data"] = all]
  BY DEF SaveData
<1> HIDE DEF r
<1>5. HandleTyped(r) /\ ~r.copying
  BY <1>1, <1>2, <1>3 DEF HandleTyped
<1>6. WriteOf(p, r, "data", all)
  BY <1>1, <1>2, <1>4, <1>5 DEF WriteOf, SaveData, Files
<1>7. /\ stored'["data"] = all /\ \A g \in Files : g # "data" => stored'[g] = stored[g]
      /\ Safe' \subseteq Safe \ h.unseen
  BY <1>6, Writes
<1>8. /\ stored'["old data"] = stored["old data"] /\ stored'["old meta"] = stored["old meta"]
      /\ Whole("old data")' <=> Whole("old data")
      /\ OldWhole' <=> OldWhole
      /\ Whole("data")'
  BY <1>2, <1>7 DEF Files, Whole, OldWhole
<1>9. ASSUME Durable
      PROVE  Safe' \subseteq Recoverable' /\ (stored'["data"] = Absent => Safe' = {}) /\ Respects(r)'
  <2>1. Respects(h)
    BY <1>9 DEF Durable
  <2>2. /\ Safe' \subseteq all
        /\ Safe' = {} \/ (OldWhole' /\ Safe' \subseteq stored'["old data"])
    BY <1>1, <1>7, <1>8, <2>1 DEF Respects
  <2>3. Safe' \subseteq Recoverable'
    BY <1>7, <1>8, <2>2 DEF Recoverable, OldWhole, Whole
  <2> QED
    BY <1>2, <1>3, <1>5, <1>7, <2>2, <2>3 DEF Respects
<1>10. ASSUME Turns
       PROVE  /\ BothWhole' \/ stored'["old data"] = Absent \/ OldWhole'
              /\ stored'["data"] = Absent => stored'["old data"] = Absent
              /\ InTurn(r)'
  <2>1. InTurn(h)
    BY <1>10, Known
  <2>2. OldWhole'
    BY <1>1, <1>8, <2>1 DEF InTurn
  <2> QED
    BY <1>1, <1>3, <1>5, <1>8, <2>1, <2>2 DEF InTurn, Whole
<1>11. stored'["data"] # Broken /\ SmoothIn(r)'
  BY <1>2, <1>3, <1>7 DEF SmoothIn
<1> QED
  BY <1>3, <1>6, <1>9, <1>10, <1>11, WriteKeeps

LEMMA BrokenTyped == FileTyped(Broken) /\ Broken # Absent
  BY DEF FileTyped, Broken, Absent

LEMMA BeginCopyKeeps ==
  ASSUME DbInv, NEW p \in DbProcesses, BeginCopy(p)
  PROVE  DbInv'
<1> PICK h : h = handle[p]
  OBVIOUS
<1> PICK to : to = Copies[h.at].to
  OBVIOUS
<1> DEFINE r == [h EXCEPT !.copying = TRUE]
<1>1. /\ h \in Handles /\ HandleTyped(h) /\ ~h.copying /\ Opened(p)
      /\ h.at \in {"keepData", "keepMeta", "restoreData", "restoreMeta"}
      /\ stored' = [stored EXCEPT ![to] = Broken] /\ SetHandle(p, r)
  BY Known, CopiesAre DEF BeginCopy, Opened
<1>2. /\ h.at = "keepData" => to = "old data"
      /\ h.at = "keepMeta" => to = "old meta"
      /\ h.at = "restoreData" => to = "data"
      /\ h.at = "restoreMeta" => to = "meta"
  BY CopiesAre
<1>3. /\ r \in Handles /\ r.at = h.at /\ r.copying = TRUE /\ r.unseen = h.unseen /\ r.update = h.update
      /\ r.counted = h.counted /\ r.advisories = h.advisories /\ r.restored = h.restored
  BY <1>1 DEF Handles
<1> HIDE DEF r
<1>4. HandleTyped(r) /\ Copies[r.at].to = to
  BY <1>1, <1>3, CopiesAre DEF HandleTyped
<1>5. WriteOf(p, r, to, Broken)
  BY <1>1, <1>2, <1>4, BrokenTyped DEF WriteOf, BeginCopy, Files
<1>6. /\ stored'[to] = Broken /\ \A g \in Files : g # to => stored'[g] = stored[g]
      /\ Safe' \subseteq Safe \ h.unseen
      /\ Mixed(p) => Safe' = {}
  BY <1>5, Writes
<1>7. CASE h.at \in {"keepData", "keepMeta"}
  <2>1. /\ stored'["data"] = stored["data"] /\ stored'["meta"] = stored["meta"]
        /\ BothWhole' <=> BothWhole
        /\ h.at = "keepMeta" => stored'["old data"] = stored["old data"]
        /\ Safe' = {} \/ BothWhole
    BY <1>2, <1>6, <1>7 DEF Files, BothWhole, Whole, Mixed
  <2>2. ASSUME Durable
        PROVE  Safe' \subseteq Recoverable' /\ (stored'["data"] = Absent => Safe' = {}) /\ Respects(r)'
    <3>1. Respects(h)
      BY <2>2 DEF Durable
    <3>2. BothWhole => Safe' \subseteq stored'["data"]
      BY <1>6, <2>1, <2>2 DEF Durable, Recoverable, BothWhole
    <3>3. Safe' \subseteq Recoverable' /\ (stored'["data"] = Absent => Safe' = {})
      BY <1>6, <2>1, <3>2, <2>2 DEF Recoverable, BothWhole, Durable
    <3>4. h.at = "keepMeta" => \/ Safe' = {}
                               \/ Whole("old data")' /\ Safe' \subseteq stored'["old data"]
      BY <1>6, <2>1, <3>1 DEF Respects, Whole
    <3> QED
      BY <1>3, <1>4, <1>6, <1>7, <3>1, <3>3, <3>4 DEF Respects
  <2>3. ASSUME Turns
        PROVE  /\ BothWhole'
               /\ stored'["data"] = Absent => stored'["old data"] = Absent
               /\ InTurn(r)'
    <3>1. InTurn(h)
      BY <2>3, Known
    <3>2. BothWhole' /\ (h.at = "keepMeta" => Whole("old data")')
      BY <1>7, <2>1, <3>1 DEF InTurn, Whole
    <3> QED
      BY <1>3, <1>4, <1>6, <1>7, <3>1, <3>2 DEF InTurn, BothWhole, Whole
  <2>4. ASSUME Turns, mishaps = {}
        PROVE  stored'["data"] # Broken /\ SmoothIn(r)' /\ stored'["data"] = stored'["meta"]
    <3>1. stored["data"] = stored["meta"] /\ Smooth /\ SmoothIn(h)
      BY <1>1, <1>7, <2>4, SameFiles, Known
    <3> QED
      BY <1>3, <1>7, <2>1, <3>1 DEF Smooth, SmoothIn
  <2> QED
    BY <1>5, <2>2, <2>3, <2>4, WriteKeeps
<1>8. CASE h.at \in {"restoreData", "restoreMeta"}
  <2>1. /\ stored'["old data"] = stored["old data"] /\ stored'["old meta"] = stored["old meta"]
        /\ OldWhole' <=> OldWhole
        /\ ~BothWhole'
        /\ stored'["data"] = stored["data"] \/ stored'["data"] = Broken
        /\ h.at = "restoreMeta" => stored'["data"] = stored["data"]
    BY <1>2, <1>6, <1>8 DEF Files, BothWhole, OldWhole, Whole
  <2>2. ASSUME Durable
        PROVE  Safe' \subseteq Recoverable' /\ (stored'["data"] = Absent => Safe' = {}) /\ Respects(r)'
    <3>1. Respects(h)
      BY <2>2 DEF Durable
    <3>2. Safe' = {} \/ (OldWhole' /\ Safe' \subseteq stored'["old data"])
      BY <1>6, <1>8, <2>1, <3>1 DEF Respects
    <3>3. Safe' \subseteq Recoverable'
      BY <2>1, <3>2 DEF Recoverable, BothWhole, OldWhole, Whole
    <3>4. stored'["data"] = Absent => Safe' = {}
      BY <1>6, <2>1, <2>2, BrokenTyped DEF Durable
    <3> QED
      BY <1>3, <1>4, <1>6, <1>8, <2>1, <3>1, <3>2, <3>3, <3>4 DEF Respects
  <2>3. ASSUME Turns
        PROVE  /\ OldWhole'
               /\ stored'["data"] = Absent => stored'["old data"] = Absent
               /\ InTurn(r)'
    <3>1. InTurn(h)
      BY <2>3, Known
    <3>2. OldWhole' /\ (h.at = "restoreMeta" => Whole("data")')
      BY <1>8, <2>1, <3>1 DEF InTurn, Whole
    <3> QED
      BY <1>3, <1>4, <1>6, <1>8, <2>1, <2>3, <3>1, <3>2, BrokenTyped DEF InTurn, Turns
  <2>4. ~(Turns /\ mishaps = {})
    BY <1>8, Known DEF SmoothIn
  <2> QED
    BY <1>5, <2>2, <2>3, <2>4, WriteKeeps
<1> QED
  BY <1>1, <1>7, <1>8

LEMMA EndCopyKeeps ==
  ASSUME DbInv, NEW p \in DbProcesses, EndCopy(p)
  PROVE  DbInv'
<1> PICK h : h = handle[p]
  OBVIOUS
<1> PICK to, next : to = Copies[h.at].to /\ next = Copies[h.at].next
  OBVIOUS
<1> PICK c : c = IF stored[to] = Broken THEN stored[Copies[h.at].from] ELSE stored[to]
  OBVIOUS
<1> DEFINE r == [h EXCEPT !.at = next, !.copying = FALSE]
<1>1. /\ h \in Handles /\ HandleTyped(h) /\ h.copying /\ Opened(p)
      /\ h.at \in {"keepData", "keepMeta", "restoreData", "restoreMeta"}
      /\ SetHandle(p, r)
  BY Known, CopiesAre DEF EndCopy, Opened
<1>2. /\ h.at = "keepData" => to = "old data" /\ next = "keepMeta" /\ c = IF stored[to] = Broken THEN stored["data"] ELSE stored[to]
      /\ h.at = "keepMeta" => to = "old meta" /\ next = "saveData" /\ c = IF stored[to] = Broken THEN stored["meta"] ELSE stored[to]
      /\ h.at = "restoreData" => to = "data" /\ next = "restoreMeta" /\ c = IF stored[to] = Broken THEN stored["old data"] ELSE stored[to]
      /\ h.at = "restoreMeta" => to = "meta" /\ next = "loadMeta" /\ c = IF stored[to] = Broken THEN stored["old meta"] ELSE stored[to]
  BY CopiesAre
<1>3. /\ r \in Handles /\ r.at = next /\ r.copying = FALSE /\ r.unseen = h.unseen /\ r.update = h.update
      /\ r.counted = h.counted /\ r.advisories = h.advisories /\ r.restored = h.restored
  <2>1. next \in Steps
    BY <1>1, <1>2, CopiesAre DEF Steps
  <2> QED
    BY <1>1, <2>1 DEF Handles
<1> HIDE DEF r
<1>4. HandleTyped(r)
  BY <1>1, <1>2, <1>3 DEF HandleTyped
<1>5. stored' = [stored EXCEPT ![to] = c] /\ FileTyped(c) /\ to \in Files
  <2>1. to \in Files /\ FileTyped(c)
    BY <1>1, <1>2, Known DEF Files
  <2>2. stored' = [stored EXCEPT ![to] = c]
    <3>1. stored' = [stored EXCEPT ![to] = IF stored[to] = Broken THEN stored[Copies[h.at].from] ELSE stored[to]]
      BY <2>1, Known DEF EndCopy, DbTyped
    <3> QED
      BY <3>1
  <2> QED
    BY <2>1, <2>2
<1>6. WriteOf(p, r, to, c)
  BY <1>1, <1>4, <1>5 DEF WriteOf, EndCopy
<1>7. /\ stored'[to] = c /\ \A g \in Files : g # to => stored'[g] = stored[g]
      /\ Safe' \subseteq Safe \ h.unseen
      /\ Mixed(p) => Safe' = {}
  BY <1>6, Writes
<1>8. /\ Durable => Respects(h) /\ (Safe' = {} \/ stored[to] = Broken \/ h.at = "restoreMeta")
      /\ Turns => InTurn(h) /\ stored[to] = Broken
  BY <1>1, <1>7, Known DEF Respects, InTurn, Durable
<1>9. CASE h.at \in {"keepData", "keepMeta"}
  <2>1. /\ stored'["data"] = stored["data"] /\ stored'["meta"] = stored["meta"]
        /\ BothWhole' <=> BothWhole
        /\ h.at = "keepMeta" => stored'["old data"] = stored["old data"] /\ stored'["old meta"] = c
        /\ h.at = "keepData" => stored'["old data"] = c
        /\ Safe' = {} \/ BothWhole
    BY <1>2, <1>7, <1>9 DEF Files, BothWhole, Whole, Mixed
  <2>2. ASSUME Durable
        PROVE  Safe' \subseteq Recoverable' /\ (stored'["data"] = Absent => Safe' = {}) /\ Respects(r)'
    <3>1. BothWhole => Safe' \subseteq stored'["data"]
      BY <1>7, <2>1, <2>2 DEF Durable, Recoverable, BothWhole
    <3>2. Safe' \subseteq Recoverable' /\ (stored'["data"] = Absent => Safe' = {})
      BY <1>7, <2>1, <3>1, <2>2 DEF Recoverable, BothWhole, Durable
    <3>3. Safe' \subseteq h.advisories
      BY <1>7, <1>8, <1>9, <2>2 DEF Respects
    <3>4. CASE h.at = "keepData"
      <4>1. Safe' = {} \/ (Whole("old data")' /\ Safe' \subseteq stored'["old data"])
        BY <1>2, <1>8, <2>1, <2>2, <3>1, <3>4 DEF BothWhole, Whole
      <4> QED
        BY <1>2, <1>3, <3>2, <3>3, <3>4, <4>1 DEF Respects
    <3>5. CASE h.at = "keepMeta"
      <4>1. Safe' = {} \/ (Whole("old data")' /\ Safe' \subseteq stored'["old data"])
        BY <1>7, <1>8, <2>1, <2>2, <3>5 DEF Respects, Whole
      <4>2. Safe' = {} \/ Whole("old meta")'
        BY <1>2, <1>8, <2>1, <2>2, <3>5 DEF BothWhole, Whole
      <4> QED
        BY <1>2, <1>3, <3>2, <3>3, <3>5, <4>1, <4>2 DEF Respects, OldWhole
    <3> QED
      BY <1>9, <3>4, <3>5
  <2>3. ASSUME Turns
        PROVE  /\ BothWhole'
               /\ stored'["data"] = Absent => stored'["old data"] = Absent
               /\ InTurn(r)'
    <3>1. BothWhole /\ BothWhole'
      BY <1>8, <1>9, <2>1, <2>3 DEF InTurn
    <3>2. Whole("old data")' /\ (h.at = "keepMeta" => Whole("old meta")')
      BY <1>2, <1>8, <1>9, <2>1, <2>3, <3>1 DEF InTurn, Whole, BothWhole
    <3> QED
      BY <1>2, <1>3, <1>8, <1>9, <2>3, <3>1, <3>2 DEF InTurn, BothWhole, OldWhole, Whole
  <2>4. ASSUME Turns, mishaps = {}
        PROVE  stored'["data"] # Broken /\ SmoothIn(r)' /\ stored'["data"] = stored'["meta"]
    <3>1. stored["data"] = stored["meta"] /\ Smooth /\ SmoothIn(h)
      BY <1>1, <1>9, <2>4, SameFiles, Known
    <3> QED
      BY <1>2, <1>3, <1>9, <2>1, <3>1 DEF Smooth, SmoothIn
  <2> QED
    BY <1>6, <2>2, <2>3, <2>4, WriteKeeps
<1>10. CASE h.at \in {"restoreData", "restoreMeta"}
  <2>1. /\ stored'["old data"] = stored["old data"] /\ stored'["old meta"] = stored["old meta"]
        /\ OldWhole' <=> OldWhole
        /\ h.at = "restoreData" => stored'["meta"] = stored["meta"] /\ stored'["data"] = c
        /\ h.at = "restoreMeta" => stored'["data"] = stored["data"] /\ stored'["meta"] = c
    BY <1>2, <1>7, <1>10 DEF Files, OldWhole, Whole
  <2>2. ASSUME Durable
        PROVE  Safe' \subseteq Recoverable' /\ (stored'["data"] = Absent => Safe' = {}) /\ Respects(r)'
    <3>1. Safe' = {} \/ (OldWhole' /\ Safe' \subseteq stored'["old data"])
      BY <1>7, <1>8, <1>10, <2>1, <2>2 DEF Respects
    <3>2. Safe' = {} \/ Safe' \subseteq stored'["data"]
      <4>1. CASE h.at = "restoreData"
        BY <1>2, <1>8, <2>1, <2>2, <3>1, <4>1
      <4>2. CASE h.at = "restoreMeta"
        BY <1>7, <1>8, <2>1, <2>2, <4>2 DEF Respects
      <4> QED
        BY <1>10, <4>1, <4>2
    <3>3. Safe' \subseteq Recoverable'
      BY <3>1, <3>2 DEF Recoverable, OldWhole, Whole
    <3>4. stored'["data"] = Absent => Safe' = {}
      BY <3>2 DEF Absent
    <3> QED
      BY <1>2, <1>3, <1>10, <3>1, <3>2, <3>3, <3>4 DEF Respects
  <2>3. ASSUME Turns
        PROVE  /\ OldWhole'
               /\ stored'["data"] = Absent => stored'["old data"] = Absent
               /\ InTurn(r)'
    <3>1. OldWhole /\ OldWhole'
      BY <1>8, <1>10, <2>1, <2>3 DEF InTurn
    <3>2. Whole("data")' /\ (h.at = "restoreMeta" => BothWhole')
      BY <1>2, <1>8, <1>10, <2>1, <2>3, <3>1 DEF InTurn, Whole, BothWhole, OldWhole
    <3> QED
      BY <1>2, <1>3, <1>8, <1>10, <2>3, <3>1, <3>2 DEF InTurn, Whole
  <2>4. ~(Turns /\ mishaps = {})
    BY <1>10, Known DEF SmoothIn
  <2> QED
    BY <1>6, <2>2, <2>3, <2>4, WriteKeeps
<1> QED
  BY <1>1, <1>9, <1>10

(* The end of an update or of a bootstrap: its metadata are written, and    *)
(* what is then confirmed, n, the others have not seen.                     *)
Unseeing(g, h, n) ==
    /\ g \in Handles /\ g.unseen = h.unseen \union n
    /\ g.at = h.at /\ g.copying = h.copying /\ g.advisories = h.advisories /\ g.counted = h.counted
    /\ g.update = h.update /\ g.restored = h.restored

MetaOf(p, r, n) ==
    LET h == handle[p]
    IN  /\ Opened(p) /\ h.at \in {"bootMeta", "saveMeta"}
        /\ n \subseteq Updates /\ (h.at = "bootMeta" => n = {}) /\ (h.at = "saveMeta" => n = {h.update})
        /\ HandleTyped(r) /\ r.at = "ready" /\ r.copying = FALSE /\ r.unseen = h.unseen /\ r.restored = 0
        /\ r.counted = h.counted /\ r.advisories = h.advisories
        /\ stored' = [stored EXCEPT !["meta"] = h.counted]
        /\ handle' \in [DbProcesses -> Handles] /\ handle'[p] = r
        /\ \A q \in DbProcesses \ {p} : Unseeing(handle'[q], handle[q], n)
        /\ confirmed' = confirmed \union n
        /\ UNCHANGED <<excused, overlapped, stuck, mishaps>>

LEMMA MetaKeeps ==
  ASSUME DbInv, NEW p \in DbProcesses, NEW r, NEW n, MetaOf(p, r, n)
  PROVE  DbInv'
<1> PICK h : h = handle[p]
  OBVIOUS
<1>1. /\ DbTyped /\ h \in Handles /\ HandleTyped(h) /\ Opened(p) /\ h.at \in {"bootMeta", "saveMeta"}
      /\ HandleTyped(r) /\ handle'[p] = r
      /\ \A q \in DbProcesses \ {p} : Unseeing(handle'[q], handle[q], n)
      /\ confirmed' = confirmed \union n /\ n \subseteq Updates
      /\ UNCHANGED <<excused, overlapped, stuck, mishaps>>
  BY Known DEF MetaOf
<1>2. /\ r.at = "ready" /\ r.copying = FALSE /\ r.unseen = h.unseen /\ r.restored = 0
      /\ r.counted = h.counted /\ r.advisories = h.advisories
      /\ (h.at = "bootMeta" => n = {}) /\ (h.at = "saveMeta" => n = {h.update})
  BY DEF MetaOf
<1>3. /\ FileTyped(h.counted) /\ h.counted \notin {Absent, Broken}
  <2>1. BuiltIn \in h.counted /\ h.counted \in Contents
    BY <1>1 DEF HandleTyped, Handles
  <2> QED
    BY <2>1, AdvisoryDatabaseAssumption DEF FileTyped, Absent, Broken
<1>4. /\ stored' \in [Files -> Contents \cup {Broken}] /\ \A g \in Files : FileTyped(stored'[g])
      /\ stored'["meta"] = h.counted /\ \A g \in Files : g # "meta" => stored'[g] = stored[g]
  BY <1>1, <1>3, FileStepTyped DEF MetaOf, Files
<1>5. /\ stored'["data"] = stored["data"]
      /\ stored'["old data"] = stored["old data"] /\ stored'["old meta"] = stored["old meta"]
      /\ (OldWhole' <=> OldWhole) /\ (Whole("old data")' <=> Whole("old data"))
      /\ Whole("meta")' /\ (Whole("data")' <=> Whole("data"))
  BY <1>3, <1>4 DEF Files, Whole, OldWhole
<1>6. DbTyped'
  <2>1. handle' \in [DbProcesses -> Handles]
    BY DEF MetaOf
  <2>2. \A q \in DbProcesses : HandleTyped(handle'[q])
    BY <1>1 DEF DbTyped, HandleTyped, Unseeing
  <2> QED
    BY <1>1, <1>4, <2>1, <2>2 DEF DbTyped
<1>7. ASSUME "damage" \notin mishaps' PROVE Durable'
  <2>1. Durable /\ Respects(h)
    BY <1>1, <1>7, Known
  <2>2. Safe' \subseteq Safe \union n /\ Safe' \subseteq stored["data"]
    BY <1>1, <1>2, <2>1 DEF Safe, Respects
  <2>3. Safe' = {} \/ Whole("data")
    BY <1>1, <2>2, AdvisoryDatabaseAssumption DEF Whole, Absent, Broken, Safe, DbTyped
  <2>4. Safe' \subseteq Recoverable' /\ (stored'["data"] = Absent => Safe' = {})
    BY <1>5, <2>2, <2>3 DEF Recoverable, Absent
  <2>5. ASSUME NEW q \in DbProcesses PROVE Respects(handle[q])'
    <3>1. CASE q = p
      BY <1>1, <1>2, <2>1, <2>2, <3>1 DEF Respects
    <3>2. CASE q # p
      <4> PICK g : g = handle[q]
        OBVIOUS
      <4> PICK k : k = handle'[q]
        OBVIOUS
      <4>1. Respects(g) /\ HandleTyped(g)
        BY <1>1, <2>1 DEF Durable, DbTyped
      <4>2. /\ k.unseen = g.unseen \union n /\ k.at = g.at /\ k.copying = g.copying
            /\ k.advisories = g.advisories /\ k.update = g.update
        BY <1>1, <3>2 DEF Unseeing
      <4>3. Copies[g.at].to \in Files \ {"meta"} \/ ~g.copying \/ g.at = "restoreMeta"
        BY <4>1, CopiesAre DEF HandleTyped, Files
      <4>4. g.copying /\ g.at # "restoreMeta" =>
               Safe' \subseteq g.unseen \union n \/ stored'[Copies[g.at].to] = Broken
        BY <1>4, <2>2, <4>1, <4>3 DEF Respects
      <4>5. g.at = "saveMeta" => g.update \in stored'["data"] \union excused'
        BY <1>1, <1>5, <4>1 DEF Respects
      <4>6. g.at = "keepMeta" =>
               \/ Safe' \subseteq g.unseen \union n
               \/ Whole("old data")' /\ Safe' \subseteq stored'["old data"] \union g.unseen \union n
        BY <1>5, <2>2, <4>1 DEF Respects
      <4>7. g.at \in {"saveData", "saveMeta", "restoreData", "restoreMeta"} =>
               \/ Safe' \subseteq g.unseen \union n
               \/ OldWhole' /\ Safe' \subseteq stored'["old data"] \union g.unseen \union n
        BY <1>5, <2>2, <4>1 DEF Respects
      <4>8. g.at \in {"ready", "keepData", "keepMeta", "saveData", "saveMeta", "bootMeta"} =>
               Safe' \subseteq g.advisories \union g.unseen \union n
        BY <2>2, <4>1 DEF Respects
      <4>9. g.at = "bootData" => Safe' \subseteq g.unseen \union n
        BY <2>2, <4>1 DEF Respects
      <4>10. g.at = "saveMeta" => g.update \in g.advisories
        BY <4>1 DEF Respects
      <4> QED
        BY <1>5, <2>2, <4>2, <4>4, <4>5, <4>6, <4>7, <4>8, <4>9, <4>10 DEF Respects
    <3> QED
      BY <3>1, <3>2
  <2> QED
    BY <2>4, <2>5 DEF Durable
<1>8. ASSUME "damage" \notin mishaps', ~overlapped' PROVE Turns'
  <2>1. Turns /\ InTurn(h)
    BY <1>1, <1>8, Known DEF DbInv
  <2>2. \A q \in DbProcesses : q # p => handle'[q].at = "closed" /\ ~handle'[q].copying
    BY <1>1, <2>1, OnlyOne DEF Unseeing
  <2>3. BothWhole' /\ stored'["data"] # Absent
    BY <1>1, <1>5, <2>1 DEF InTurn, BothWhole, Whole
  <2>4. \A q \in DbProcesses : InTurn(handle[q])'
    <3>1. InTurn(handle[p])'
      BY <1>1, <1>2, <2>1, <2>3 DEF InTurn
    <3>2. \A q \in DbProcesses : q # p => InTurn(handle[q])'
      BY <2>2 DEF InTurn
    <3> QED
      BY <3>1, <3>2
  <2>5. ASSUME mishaps' = {} PROVE Smooth'
    <3>1. Smooth /\ SmoothIn(h)
      BY <1>1, <2>1, <2>5, Known
    <3>2. stored'["data"] = h.counted /\ h.counted = h.advisories /\ stored'["meta"] = h.counted
      BY <1>1, <1>4, <1>5, <3>1 DEF SmoothIn
    <3>3. SmoothIn(handle[p])'
      BY <1>1, <1>2, <3>2 DEF SmoothIn
    <3>4. \A q \in DbProcesses : q # p => SmoothIn(handle[q])'
      BY <2>2 DEF SmoothIn
    <3> QED
      BY <1>3, <3>2, <3>3, <3>4 DEF Smooth
  <2>6. \A q, s \in DbProcesses : handle'[q].at # "closed" /\ handle'[s].at # "closed" => q = s
    BY <2>2
  <2> QED
    BY <1>1, <2>1, <2>3, <2>4, <2>5, <2>6 DEF Turns, Opened
<1> QED
  BY <1>6, <1>7, <1>8 DEF DbInv

LEMMA BootMetaKeeps ==
  ASSUME DbInv, NEW p \in DbProcesses, BootMeta(p)
  PROVE  DbInv'
<1> PICK h : h = handle[p]
  OBVIOUS
<1> DEFINE r == Settled(h)
<1>1. /\ h \in Handles /\ HandleTyped(h) /\ h.copying = FALSE /\ h.at = "bootMeta" /\ Opened(p)
      /\ SetHandle(p, r) /\ handle \in [DbProcesses -> Handles]
  BY Known, CopiesAre DEF BootMeta, Opened, DbTyped, Handles
<1>2. /\ r \in Handles /\ r.at = "ready" /\ r.copying = FALSE /\ r.unseen = h.unseen /\ r.restored = 0
      /\ r.counted = h.counted /\ r.advisories = h.advisories
  <2>1. NoUpdate \in Updates \cup {NoUpdate} /\ 0 \in 0..RecursionLimit /\ "ready" \in Steps
    BY AdvisoryDatabaseAssumption DEF Steps
  <2> QED
    BY <1>1, <2>1 DEF Handles, Settled
<1> HIDE DEF r
<1>3. HandleTyped(r)
  BY <1>1, <1>2 DEF HandleTyped
<1>4. /\ handle' \in [DbProcesses -> Handles] /\ handle'[p] = r
      /\ \A q \in DbProcesses \ {p} : handle'[q] = handle[q] /\ handle[q] \in Handles
  BY <1>1, <1>2 DEF SetHandle
<1>5. \A q \in DbProcesses \ {p} : Unseeing(handle'[q], handle[q], {})
  BY <1>4 DEF Unseeing
<1>6. MetaOf(p, r, {})
  BY <1>1, <1>2, <1>3, <1>4, <1>5 DEF MetaOf, BootMeta
<1> QED
  BY <1>6, MetaKeeps

LEMMA SaveMetaKeeps ==
  ASSUME DbInv, NEW p \in DbProcesses, SaveMeta(p)
  PROVE  DbInv'
<1> PICK h : h = handle[p]
  OBVIOUS
<1> DEFINE r == Settled(h)
<1>1. /\ h \in Handles /\ HandleTyped(h) /\ h.copying = FALSE /\ h.at = "saveMeta" /\ Opened(p)
      /\ handle \in [DbProcesses -> Handles] /\ h.update \in Updates
      /\ handle' = [q \in DbProcesses |->
                      IF q = p THEN r ELSE [handle[q] EXCEPT !.unseen = @ \cup {h.update}]]
  BY Known, CopiesAre DEF SaveMeta, Opened, DbTyped, Handles, HandleTyped
<1>2. /\ r \in Handles /\ r.at = "ready" /\ r.copying = FALSE /\ r.unseen = h.unseen /\ r.restored = 0
      /\ r.counted = h.counted /\ r.advisories = h.advisories
  <2>1. NoUpdate \in Updates \cup {NoUpdate} /\ 0 \in 0..RecursionLimit /\ "ready" \in Steps
    BY AdvisoryDatabaseAssumption DEF Steps
  <2> QED
    BY <1>1, <2>1 DEF Handles, Settled
<1> HIDE DEF r
<1>3. HandleTyped(r)
  BY <1>1, <1>2 DEF HandleTyped
<1>4. ASSUME NEW q \in DbProcesses \ {p} PROVE Unseeing(handle'[q], handle[q], {h.update})
  <2> PICK g : g = handle[q] /\ g \in Handles
    BY <1>1
  <2>1. handle'[q] = [g EXCEPT !.unseen = g.unseen \cup {h.update}]
    BY <1>1
  <2> QED
    BY <1>1, <2>1 DEF Unseeing, Handles
<1>5. handle' \in [DbProcesses -> Handles] /\ handle'[p] = r
  BY <1>1, <1>2, <1>4 DEF Unseeing
<1>6. MetaOf(p, r, {h.update})
  BY <1>1, <1>2, <1>3, <1>4, <1>5 DEF MetaOf, SaveMeta
<1> QED
  BY <1>6, MetaKeeps

LEMMA DamageKeeps ==
  ASSUME DbInv, NEW f \in {"data", "meta"}, DamageFile(f)
  PROVE  DbInv'
<1>1. MayGoWrong("damage") /\ "damage" \in mishaps' /\ UNCHANGED <<handle, confirmed, excused, overlapped, stuck>>
  BY DEF DamageFile, MayGoWrong
<1>2. DbTyped
  BY DEF DbInv
<1>3. PICK c \in {Broken, Absent} : stored' = [stored EXCEPT ![f] = c]
  BY DEF DamageFile
<1>4. stored' \in [Files -> Contents \cup {Broken}] /\ \A g \in Files : FileTyped(stored'[g])
  BY <1>2, <1>3, FileStepTyped DEF FileTyped, Files
<1>5. mishaps' \subseteq {"crash", "disk error", "damage"} /\ Cardinality(mishaps') <= MaxMishaps
  BY <1>1, <1>2, MishapCounted
<1>6. DbTyped'
  BY <1>1, <1>2, <1>4, <1>5 DEF DbTyped
<1> QED
  BY <1>1, <1>6 DEF DbInv

LEMMA DbInvHolds == DbSpec => []DbInv
<1>1. DbInit => DbInv
  <2> SUFFICES ASSUME DbInit PROVE DbInv
    OBVIOUS
  <2>1. /\ stored = [f \in Files |-> Absent] /\ handle = [p \in DbProcesses |-> ClosedDb]
        /\ confirmed = {} /\ excused = {} /\ overlapped = FALSE /\ stuck = FALSE /\ mishaps = {}
    BY DEF DbInit
  <2>2. ClosedDb.at = "closed" /\ ~ClosedDb.copying /\ HandleTyped(ClosedDb) /\ ClosedDb \in Handles
    BY ClosedTyped DEF ClosedDb, HandleTyped
  <2>3. DbTyped
    <3>1. Cardinality(mishaps) <= MaxMishaps
      BY <2>1, FS_EmptySet, AdvisoryDatabaseAssumption
    <3>2. Absent \in Contents \cup {Broken} /\ FileTyped(Absent)
      BY DEF Absent, Contents, FileTyped
    <3> QED
      BY <2>1, <2>2, <3>1, <3>2 DEF DbTyped
  <2>4. Durable
    BY <2>1, <2>2, ClosedFits DEF Durable, Safe
  <2>5. Smooth
    BY <2>1, <2>2, ClosedFits, BrokenTyped DEF Smooth, Files
  <2>6. \A p \in DbProcesses : ~Opened(p) /\ InTurn(handle[p])
    BY <2>1, <2>2, ClosedFits DEF Opened
  <2>7. stored["old data"] = Absent
    BY <2>1 DEF Files
  <2> QED
    BY <2>1, <2>3, <2>4, <2>5, <2>6, <2>7 DEF DbInv, Turns
<1>2. DbInv /\ [DbNext]_dbVars => DbInv'
  <2> SUFFICES ASSUME DbInv, [DbNext]_dbVars PROVE DbInv'
    OBVIOUS
  <2>1. ASSUME NEW p \in DbProcesses,
               \/ OpenDb(p) \/ LoadMeta(p) \/ LoadData(p) \/ BootData(p) \/ BootMeta(p)
               \/ \E b \in Updates : Update(p, b)
               \/ NothingToKeep(p) \/ BeginCopy(p) \/ EndCopy(p) \/ NothingToRestore(p)
               \/ SaveData(p) \/ SaveMeta(p) \/ WriteError(p)
               \/ CloseDb(p) \/ KillProcess(p)
        PROVE  DbInv'
    BY <2>1, OpenKeeps, LoadMetaKeeps, LoadDataKeeps, BootDataKeeps, BootMetaKeeps, UpdateKeeps, NothingToKeepKeeps,
       BeginCopyKeeps, EndCopyKeeps, NothingToRestoreKeeps, SaveDataKeeps, SaveMetaKeeps, WriteErrorKeeps,
       CloseKeeps, KillKeeps
  <2>2. CASE UNCHANGED dbVars
    BY <2>2 DEF dbVars, DbInv, DbTyped, Durable, Safe, Recoverable, Respects, Whole, OldWhole, BothWhole,
                Turns, Opened, InTurn, Smooth, SmoothIn
  <2> QED
    BY <2>1, <2>2, DamageKeeps DEF DbNext
<1> QED
  BY <1>1, <1>2, PTL DEF DbSpec

(* The files of the advisory database, whatever processes use it and       *)
(* however they interleave, through crashes and failed writes (advisory_db  *)
(* .py): a confirmed update is found by the next scan unless another        *)
(* process wrote over it unseen; used by one process at a time the database *)
(* can always be opened; and a scan always works on the built-in advisories. *)
THEOREM DatabaseAlwaysKept == DbSpec => []DatabaseKept
<1>1. DbInv => DatabaseKept
  <2> SUFFICES ASSUME DbInv PROVE DatabaseKept
    OBVIOUS
  <2>1. UpdatesDurable
    BY DEF DbInv, UpdatesDurable, Durable, Safe, Turns
  <2>2. AlwaysOpens
    BY DEF DbInv, AlwaysOpens, Turns
  <2>3. WorksOnWhole
    <3> SUFFICES ASSUME NEW p \in DbProcesses, handle[p].at = "ready"
                 PROVE  /\ BuiltIn \in handle[p].advisories
                        /\ handle[p].counted = handle[p].advisories \/ mishaps # {} \/ overlapped
      BY DEF WorksOnWhole
    <3>1. BuiltIn \in handle[p].advisories
      BY DEF DbInv, DbTyped, HandleTyped
    <3>2. ASSUME mishaps = {}, ~overlapped PROVE handle[p].counted = handle[p].advisories
      BY <3>2, Known DEF DbInv, SmoothIn
    <3> QED
      BY <3>1, <3>2
  <2> QED
    BY <2>1, <2>2, <2>3 DEF DatabaseKept
<1> QED
  BY <1>1, DbInvHolds, PTL

-----------------------------------------------------------------------------
(* All services beside each other.                                          *)

(* A step of the whole is one of a single part, or none, for every part.    *)
LEMMA EachPartSteps ==
  [ServicesNext]_serviceVars =>
     /\ [Next]_vars /\ [WebhookNext]_webhookVars
     /\ [PriorityNext]_priorityVars /\ [OpsNext]_opsVars
     /\ [CapacityNext]_capacityVars /\ [AlertNext]_alertVars
     /\ [IntegrationNext]_integrationVars /\ [LspNext]_lspVars
     /\ [DbNext]_dbVars /\ [ComplianceNext]_complianceVars /\ part' = part
<1>1. UNCHANGED serviceVars =>
         /\ UNCHANGED vars /\ UNCHANGED webhookVars /\ UNCHANGED priorityVars /\ UNCHANGED opsVars
         /\ UNCHANGED capacityVars /\ UNCHANGED alertVars /\ UNCHANGED integrationVars
         /\ UNCHANGED lspVars /\ UNCHANGED dbVars /\ UNCHANGED complianceVars /\ UNCHANGED part
  BY DEF serviceVars
<1> QED
  BY <1>1 DEF ServicesNext, OnlyIn

(* So a behaviour of the whole is one of each part.                         *)
LEMMA EachPartBehaves ==
  ServicesSpec => /\ Spec /\ WebhookSpec /\ PrioritySpec /\ OpsSpec /\ CapacitySpec
                  /\ AlertSpec /\ IntegrationSpec /\ LspSpec /\ DbSpec /\ ComplianceSpec
                  /\ [](part \in Parts)
<1>1. ServicesInit => /\ Init /\ WebhookInit /\ PriorityInit /\ OpsInit /\ CapacityInit
                      /\ AlertInit /\ IntegrationInit /\ LspInit /\ DbInit /\ ComplianceInit
                      /\ part \in Parts
  BY DEF ServicesInit
<1>2. part \in Parts /\ part' = part => (part \in Parts)'
  OBVIOUS
<1> QED
  BY <1>1, <1>2, EachPartSteps, PTL DEF ServicesSpec, Spec, WebhookSpec, PrioritySpec, OpsSpec, CapacitySpec,
     AlertSpec, IntegrationSpec, LspSpec, DbSpec, ComplianceSpec

(* A power of two is the number of subsets of a set.                        *)
LEMMA PowerIsNat == \A n \in Nat : 2 ^ n \in Nat
<1> SUFFICES ASSUME NEW n \in Nat PROVE 2 ^ n \in Nat
  OBVIOUS
<1>1. IsFiniteSet(1..n) /\ Cardinality(1..n) = n
  BY FS_Interval
<1>2. IsFiniteSet(SUBSET (1..n)) /\ Cardinality(SUBSET (1..n)) = 2 ^ n
  BY <1>1, FS_SUBSET
<1> QED
  BY <1>2, FS_CardinalityType

LEMMA PriorityTypeStep == PriorityTypeOK /\ [PriorityNext]_priorityVars => PriorityTypeOK'
<1> SUFFICES ASSUME PriorityTypeOK, [PriorityNext]_priorityVars PROVE PriorityTypeOK'
  OBVIOUS
<1> USE PriorityJobQueueAssumption DEF PriorityTypeOK, JobStates, SetState, Release
<1>1. ASSUME NEW j \in QueueJobs, EnqueueJob(j) \/ CancelJob(j) \/ PopDead(j) PROVE PriorityTypeOK'
  <2>1. CASE EnqueueJob(j)
    BY <2>1 DEF EnqueueJob
  <2>2. CASE CancelJob(j)
    BY <2>2 DEF CancelJob
  <2>3. CASE PopDead(j)
    BY <2>3 DEF PopDead
  <2> QED
    BY <1>1, <2>1, <2>2, <2>3
<1>2. ASSUME NEW w \in QueueWorkers, DequeueJob(w) \/ JobSucceeds(w) \/ HandleFailure(w) PROVE PriorityTypeOK'
  <2>1. CASE DequeueJob(w)
    BY <2>1 DEF DequeueJob, First
  <2>2. CASE JobSucceeds(w)
    BY <2>2 DEF JobSucceeds
  <2>3. CASE HandleFailure(w)
    <3>1. held[w] \in QueueJobs /\ job[held[w]].attempts + 1 \in Nat
      BY <2>3 DEF HandleFailure
    <3>2. clock + Delay(job[held[w]].attempts + 1) \in Nat
      BY <3>1, PowerIsNat DEF Delay
    <3> QED
      BY <2>3, <3>1, <3>2 DEF HandleFailure
  <2> QED
    BY <1>2, <2>1, <2>2, <2>3
<1>3. CASE QueueTick \/ UNCHANGED priorityVars
  BY <1>3 DEF QueueTick, priorityVars
<1> QED
  BY <1>1, <1>2, <1>3 DEF PriorityNext

LEMMA PriorityTyped == PrioritySpec => []PriorityTypeOK
<1>1. PriorityInit => PriorityTypeOK
  BY DEF PriorityInit, PriorityTypeOK, JobStates
<1> QED
  BY <1>1, PriorityTypeStep, PTL DEF PrioritySpec

LEMMA OpsTyped == OpsSpec => []OpsTypeOK
<1>1. OpsInv => OpsTypeOK
  BY DEF OpsInv
<1>2. OpsInit => OpsInv
  BY OpsStarts
<1>3. OpsInv /\ [OpsNext]_opsVars => OpsInv'
  BY OpsStep
<1> QED
  BY <1>1, <1>2, <1>3, PTL DEF OpsSpec

(* The types of the language server and of the reviews, from what the       *)
(* proofs above know of them.                                               *)
LEMMA LspIsTyped == LspTyped => LspTypeOK
<1> SUFFICES ASSUME LspTyped PROVE LspTypeOK
  OBVIOUS
<1>1. ASSUME NEW c \in Editors, NEW k \in 1..Len(pipe[c])
      PROVE  pipe[c][k] \in [kind : Kinds, uri : Uris, text : Texts \union {Gone}]
  <2>1. pipe[c] \in Seq(Messages)
    BY DEF LspTyped
  <2>2. pipe[c][k] \in Messages
    BY <2>1
  <2> QED
    BY <2>2 DEF Messages
<1>2. client \in [Editors -> {Waiting, [at |-> "over"]} \union Publication]
  BY DEF LspTyped, Threads
<1> QED
  BY <1>1, <1>2 DEF LspTyped, LspTypeOK, Publication

LEMMA ComplianceIsTyped == ReviewTyped => ComplianceTypeOK
<1> SUFFICES ASSUME ReviewTyped PROVE ComplianceTypeOK
  OBVIOUS
<1>1. ASSUME NEW a \in Made
      PROVE  /\ assessments[a].organisation \in Organisations /\ assessments[a].assessor \in People
             /\ assessments[a].reviewer \in People \cup {Nobody}
             /\ assessments[a].status \in {"DRAFT", "IN_PROGRESS", "REVIEW", "APPROVED"}
             /\ assessments[a].score \in 0..Cardinality(Controls)
  <2>1. assessments[a] \in AssessmentRecord
    BY DEF Made, ReviewTyped
  <2> QED
    BY <2>1 DEF AssessmentRecord, AssessmentStatus
<1>2. \A a \in Assessments : evaluations[a].said \in [Controls -> ControlStates]
  BY DEF ReviewTyped, EvaluationRecord
<1> QED
  BY <1>1, <1>2 DEF ReviewTyped, ComplianceTypeOK

(* Whichever service is at work, its variables have their types.            *)
LEMMA SomePartTyped ==
  part \in Parts /\ WebhookTypeOK /\ PriorityTypeOK /\ OpsTypeOK /\ CapacityTypeOK /\ AlertTypeOK
     /\ IntegrationTypeOK /\ LspTypeOK /\ DbTypeOK /\ ComplianceTypeOK
  => ServicesTypeOK
BY DEF Parts, ServicesTypeOK

(* Every variable of every service keeps its type, whatever the service is  *)
(* asked to do and whatever fails.                                          *)
THEOREM ServicesTyped == ServicesSpec => []ServicesTypeOK
<1>1. CapacityInv => CapacityTypeOK
  BY DEF CapacityInv
<1>2. AlertInv => AlertTypeOK
  BY DEF AlertInv
<1>3. BreakerInv => IntegrationTypeOK
  BY DEF BreakerInv
<1>4. LspInv => LspTypeOK
  BY LspIsTyped DEF LspInv
<1>5. DbInv => DbTypeOK
  BY DbTypedTypes DEF DbInv
<1>6. ComplianceInv => ComplianceTypeOK
  BY ComplianceIsTyped DEF ComplianceInv
<1> QED
  BY <1>1, <1>2, <1>3, <1>4, <1>5, <1>6, EachPartBehaves, SomePartTyped, WebhookTypeCorrect, PriorityTyped,
     OpsTyped, CapacityInvariant, AlertInvariant, BreakerInvariant, LspInvariant, DbInvHolds,
     ComplianceInvariant, PTL

(* All that MCServices checks holds of the whole, for every value of the    *)
(* constants: of scans one at a time, of a webhook with events in order     *)
(* where only analyses fail, and of all the other services as they are.     *)
THEOREM ServicesKeepTheirPromises ==
  ASSUME MaxConcurrent = 1, Orderly, WebhookFaults \subseteq {"analysis"}
  PROVE  ServicesSpec =>
            /\ [](TypeOK /\ Isolated /\ NoSilentLoss /\ Tidy /\ RetriesHarmless)
            /\ [](CapacityKept /\ OthersTold /\ ShowsItsText /\ DatabaseKept /\ ComplianceKept)
            /\ QueuesKeepJobs
<1>1. Spec => [](TypeOK /\ Isolated /\ NoSilentLoss /\ Tidy)
  BY TypeCorrect, AloneIsolated, AloneComplete, AloneTidy, MaxConcurrent = 1, PTL
<1>2. WebhookSpec => []RetriesHarmless
  BY RetriesDoNoHarm
<1> QED
  BY <1>1, <1>2, EachPartBehaves, CapacityAlwaysKept, OthersAlwaysTold, EditorsSeeTheirText, DatabaseAlwaysKept,
     ComplianceAlwaysKept, QueuesAlwaysKeepJobs, PTL
=============================================================================
