---------------------------- MODULE ScanCapacity ----------------------------
(***************************************************************************)
(* What a scan takes before it runs (infrastructure/scaling): the lease on  *)
(* its repository (LockManager), a slot of its organisation (QuotaManager), *)
(* a slot of its worker pool (BulkheadManager) and a sandbox directory.     *)
(* Every method runs under its manager's lock and is one step.  The workers *)
(* are not in the code: here each takes the four in this order, gives them  *)
(* back in the reverse one, may ask for its lease again while it works, and *)
(* may die with all it has.                                                 *)
(***************************************************************************)
EXTENDS Naturals, FiniteSets

CONSTANTS Scanners, NoScanner,
          LeaseTTL,       \* ttl_seconds
          MaxRunning,     \* bound: the largest max_concurrent_scans
          MaxDaily,       \* max_daily_scans
          PoolCapacity,   \* DEFAULT_CAPACITIES of the pool
          LeaseHorizon    \* bound: how far the clock goes

ASSUME ScanCapacityAssumption ==
    /\ NoScanner \notin Scanners /\ IsFiniteSet(Scanners)
    /\ LeaseTTL \in Nat /\ MaxRunning \in Nat /\ MaxDaily \in Nat
    /\ PoolCapacity \in Nat /\ LeaseHorizon \in Nat

VARIABLES lease,      \* _locks of the repository: owner_id and acquired_at
          quota,      \* max_concurrent_scans of the organisation
          activeScans, dailyScans, activeWorkers,
          sandboxes,  \* temporary directories there are
          scanner,    \* how far each worker is: idle, leased, reserved, pooled, scanning, or dead
          grant,      \* acquired_at of the lease each worker was given last
          now

capacityVars == <<lease, quota, activeScans, dailyScans, activeWorkers, sandboxes, scanner, grant, now>>

ScannerStages == {"idle", "leased", "reserved", "pooled", "scanning"}
NoLease == [owner |-> NoScanner, at |-> 0]

CapacityInit ==
    /\ lease = NoLease /\ quota = MaxRunning
    /\ activeScans = 0 /\ dailyScans = 0 /\ activeWorkers = 0 /\ sandboxes = 0
    /\ scanner = [w \in Scanners |-> [stage |-> "idle", leaving |-> FALSE, dead |-> FALSE]]
    /\ grant = [w \in Scanners |-> 0]
    /\ now = 0

IsAt(w, stage) == scanner[w].stage = stage /\ ~scanner[w].dead
Entering(w, stage) == IsAt(w, stage) /\ ~scanner[w].leaving
Leaving(w, stage) == IsAt(w, stage) /\ scanner[w].leaving
Enter(w, stage) == scanner' = [scanner EXCEPT ![w].stage = stage]
TurnBack(w) == scanner' = [scanner EXCEPT ![w].leaving = TRUE]
Expired == now >= lease.at + LeaseTTL

(* acquire_lock: an expired lease goes to whoever asks, a live one stays as *)
(* it is, and its owner is told True.                                       *)
MayHave(w) == lease.owner \in {NoScanner, w} \/ Expired
Granted(w) ==
    IF lease.owner = w /\ ~Expired
    THEN UNCHANGED <<lease, grant>>
    ELSE lease' = [owner |-> w, at |-> now] /\ grant' = [grant EXCEPT ![w] = now]

AcquireLease(w) ==
    /\ Entering(w, "idle") /\ MayHave(w)
    /\ Granted(w) /\ Enter(w, "leased")
    /\ UNCHANGED <<quota, activeScans, dailyScans, activeWorkers, sandboxes, now>>

AskAgain(w) ==
    /\ Entering(w, "scanning")
    /\ \/ MayHave(w) /\ Granted(w) /\ UNCHANGED scanner
       \/ ~MayHave(w) /\ TurnBack(w) /\ UNCHANGED <<lease, grant>>
    /\ UNCHANGED <<quota, activeScans, dailyScans, activeWorkers, sandboxes, now>>

(* Mutant: the slot is counted before the daily limit is looked at.         *)
ReserveEarly(w) ==
    /\ Entering(w, "leased")
    /\ \/ /\ activeScans < quota
          /\ activeScans' = activeScans + 1
          /\ \/ dailyScans < MaxDaily /\ dailyScans' = dailyScans + 1 /\ Enter(w, "reserved")
             \/ dailyScans >= MaxDaily /\ TurnBack(w) /\ UNCHANGED dailyScans
       \/ activeScans >= quota /\ TurnBack(w) /\ UNCHANGED <<activeScans, dailyScans>>
    /\ UNCHANGED <<lease, quota, activeWorkers, sandboxes, grant, now>>

(* reserve_scan_slot, or QuotaExceededError.                                *)
ReserveScanSlot(w) ==
    /\ Entering(w, "leased")
    /\ \/ /\ activeScans < quota /\ dailyScans < MaxDaily
          /\ activeScans' = activeScans + 1 /\ dailyScans' = dailyScans + 1
          /\ Enter(w, "reserved")
       \/ /\ activeScans >= quota \/ dailyScans >= MaxDaily
          /\ TurnBack(w) /\ UNCHANGED <<activeScans, dailyScans>>
    /\ UNCHANGED <<lease, quota, activeWorkers, sandboxes, grant, now>>

AcquireSlot(w) ==
    /\ Entering(w, "reserved")
    /\ \/ /\ activeWorkers < PoolCapacity
          /\ activeWorkers' = activeWorkers + 1 /\ Enter(w, "pooled")
       \/ activeWorkers >= PoolCapacity /\ TurnBack(w) /\ UNCHANGED activeWorkers
    /\ UNCHANGED <<lease, quota, activeScans, dailyScans, sandboxes, grant, now>>

EnterSandbox(w) == /\ Entering(w, "pooled")
                   /\ sandboxes' = sandboxes + 1 /\ Enter(w, "scanning")
                   /\ UNCHANGED <<lease, quota, activeScans, dailyScans, activeWorkers, grant, now>>

ScanEnds(w) == /\ Entering(w, "scanning") /\ TurnBack(w)
               /\ UNCHANGED <<lease, quota, activeScans, dailyScans, activeWorkers, sandboxes, grant, now>>

(* The directory may stay: rmtree's exception is swallowed.                 *)
ExitSandbox(w) == /\ Leaving(w, "scanning") /\ Enter(w, "pooled")
                  /\ sandboxes' \in {sandboxes - 1, sandboxes}
                  /\ UNCHANGED <<lease, quota, activeScans, dailyScans, activeWorkers, grant, now>>

Floored(n) == IF n > 0 THEN n - 1 ELSE n

ReleaseSlot(w) == /\ Leaving(w, "pooled") /\ Enter(w, "reserved")
                  /\ activeWorkers' = Floored(activeWorkers)
                  /\ UNCHANGED <<lease, quota, activeScans, dailyScans, sandboxes, grant, now>>

ReleaseScanSlot(w) == /\ Leaving(w, "reserved") /\ Enter(w, "leased")
                      /\ activeScans' = Floored(activeScans)
                      /\ UNCHANGED <<lease, quota, dailyScans, activeWorkers, sandboxes, grant, now>>

(* Mutant: the lease goes whoever's it is by now.                           *)
ReleaseAnyLease(w) ==
    /\ Leaving(w, "leased")
    /\ lease' = NoLease
    /\ scanner' = [scanner EXCEPT ![w].stage = "idle", ![w].leaving = FALSE]
    /\ UNCHANGED <<quota, activeScans, dailyScans, activeWorkers, sandboxes, grant, now>>

(* release_lock: only the owner the lease names.                            *)
ReleaseLease(w) ==
    /\ Leaving(w, "leased")
    /\ lease' = IF lease.owner = w THEN NoLease ELSE lease
    /\ scanner' = [scanner EXCEPT ![w].stage = "idle", ![w].leaving = FALSE]
    /\ UNCHANGED <<quota, activeScans, dailyScans, activeWorkers, sandboxes, grant, now>>

Die(w) == /\ scanner[w].stage # "idle" /\ ~scanner[w].dead
          /\ scanner' = [scanner EXCEPT ![w].dead = TRUE]
          /\ UNCHANGED <<lease, quota, activeScans, dailyScans, activeWorkers, sandboxes, grant, now>>

SetQuota(n) == /\ quota # n /\ quota' = n
               /\ UNCHANGED <<lease, activeScans, dailyScans, activeWorkers, sandboxes, scanner, grant, now>>

LeaseTick == /\ now < LeaseHorizon /\ now' = now + 1
             /\ UNCHANGED <<lease, quota, activeScans, dailyScans, activeWorkers, sandboxes, scanner, grant>>

CapacityNext ==
    \/ \E w \in Scanners : \/ AcquireLease(w) \/ AskAgain(w) \/ ReserveScanSlot(w) \/ AcquireSlot(w)
                           \/ EnterSandbox(w) \/ ScanEnds(w) \/ ExitSandbox(w) \/ ReleaseSlot(w)
                           \/ ReleaseScanSlot(w) \/ ReleaseLease(w) \/ Die(w)
    \/ \E n \in 1..MaxRunning : SetQuota(n)
    \/ LeaseTick
CapacitySpec == CapacityInit /\ [][CapacityNext]_capacityVars

-----------------------------------------------------------------------------
CapacityTypeOK ==
    /\ lease \in [owner : Scanners \union {NoScanner}, at : Nat]
    /\ quota \in Nat /\ activeScans \in Nat /\ dailyScans \in Nat
    /\ activeWorkers \in Nat /\ sandboxes \in Nat /\ now \in Nat
    /\ scanner \in [Scanners -> [stage : ScannerStages, leaving : BOOLEAN, dead : BOOLEAN]]
    /\ grant \in [Scanners -> Nat]

(* A worker whose lease has not run out is the one the table names, and so  *)
(* alone on the repository, whoever died, came late or asked again before.  *)
LeaseHolds == \A w \in Scanners :
    (scanner[w].stage # "idle" /\ now < grant[w] + LeaseTTL) => lease = [owner |-> w, at |-> grant[w]]

(* The counters are what the workers hold, those who died included: a call  *)
(* that was refused counts nothing, a slot is given back once, and nobody's *)
(* release is lost at the floor or takes the slot of somebody else.         *)
Beyond(stages) == Cardinality({w \in Scanners : scanner[w].stage \in stages})
SlotsAccounted == /\ activeScans = Beyond(ScannerStages \ {"idle", "leased"})
                  /\ activeWorkers = Beyond({"pooled", "scanning"})
                  /\ sandboxes >= Beyond({"scanning"})
=============================================================================
