------------------------- MODULE IntegrationEngine -------------------------
(***************************************************************************)
(* One integration of IntegrationEngine (domain/integrations/engine.py):    *)
(* dispatch_event asks the circuit breaker, sends through the sync engine   *)
(* and tells the breaker what became of it.  Calls come one after another.  *)
(* What another organisation asks for raises PermissionError before any of  *)
(* this and changes nothing; the provider is outside, it answers True or    *)
(* False or raises, and time goes by meanwhile.                             *)
(***************************************************************************)
EXTENDS Naturals

CONSTANTS FailureThreshold,  \* failure_threshold
          RecoveryTime,      \* recovery_time_seconds
          DispatchHorizon,   \* bound: how far the clock goes
          MaxFailures        \* bound: failures counted

ASSUME IntegrationAssumption ==
    /\ FailureThreshold \in Nat \ {0} /\ RecoveryTime \in Nat
    /\ DispatchHorizon \in Nat /\ MaxFailures \in Nat

VARIABLES breaker,     \* state, failure_count and last_failure_time
          integration, \* enabled and status
          checkpoint,  \* sync_states: status, or none while there is no entry
          sending,     \* whether the provider is being called
          sentAt,      \* history: when it was called last
          inARow,      \* history: how often it raised since it last answered
          wallClock

integrationVars == <<breaker, integration, checkpoint, sending, sentAt, inARow, wallClock>>

NewBreaker == [state |-> "CLOSED", failures |-> 0, last |-> 0]

IntegrationInit ==
    /\ breaker = NewBreaker
    /\ integration = [enabled |-> TRUE, status |-> "HEALTHY"]
    /\ checkpoint = "none"
    /\ sending = FALSE /\ sentAt = 0 /\ inARow = 0 /\ wallClock = 0

(* Mutant: >= where the code says >.                                        *)
CanExecuteSoon == breaker.state # "OPEN" \/ wallClock - breaker.last >= RecoveryTime
CanExecute == breaker.state # "OPEN" \/ wallClock - breaker.last > RecoveryTime

Dispatch ==
    /\ ~sending /\ integration.enabled
    /\ \/ /\ CanExecute
          /\ breaker' = [breaker EXCEPT !.state = IF @ = "OPEN" THEN "HALF-OPEN" ELSE @]
          /\ sending' = TRUE /\ sentAt' = wallClock
          /\ checkpoint' = IF checkpoint = "none" THEN "none" ELSE "SYNCING"
          /\ UNCHANGED integration
       \/ /\ ~CanExecute
          /\ integration' = [integration EXCEPT !.status = "DEGRADED"]
          /\ UNCHANGED <<breaker, sending, sentAt, checkpoint>>
    /\ UNCHANGED <<inARow, wallClock>>

SendSucceeds == /\ sending /\ sending' = FALSE
                /\ checkpoint' = "COMPLETED"
                /\ breaker' = [breaker EXCEPT !.failures = 0, !.state = "CLOSED"]
                /\ integration' = [integration EXCEPT !.status = "HEALTHY"]
                /\ inARow' = 0
                /\ UNCHANGED <<sentAt, wallClock>>

(* Neither a success nor a failure to the breaker, and a checkpoint there   *)
(* was stays SYNCING.                                                       *)
SendRefused == /\ sending /\ sending' = FALSE
               /\ inARow' = 0
               /\ UNCHANGED <<breaker, integration, checkpoint, sentAt, wallClock>>

SendRaises == /\ sending /\ sending' = FALSE
              /\ breaker.failures < MaxFailures
              /\ checkpoint' = "FAILED"
              /\ breaker' = [state |-> IF breaker.failures + 1 >= FailureThreshold THEN "OPEN" ELSE breaker.state,
                             failures |-> breaker.failures + 1, last |-> wallClock]
              /\ integration' = [integration EXCEPT !.status = "FAILED"]
              /\ inARow' = inARow + 1
              /\ UNCHANGED <<sentAt, wallClock>>

SetEnabled(on) == /\ ~sending /\ integration.enabled # on
                  /\ integration' = [integration EXCEPT !.enabled = on]
                  /\ UNCHANGED <<breaker, checkpoint, sending, sentAt, inARow, wallClock>>

(* register_integration once more: a new breaker, the old checkpoint.       *)
RegisterIntegration == /\ ~sending
            /\ breaker' = NewBreaker
            /\ integration' = [enabled |-> TRUE, status |-> "HEALTHY"]
            /\ inARow' = 0
            /\ UNCHANGED <<checkpoint, sending, sentAt, wallClock>>

DispatchTick == /\ wallClock < DispatchHorizon /\ wallClock' = wallClock + 1
                /\ UNCHANGED <<breaker, integration, checkpoint, sending, sentAt, inARow>>

IntegrationNext == \/ Dispatch \/ SendSucceeds \/ SendRefused \/ SendRaises
                   \/ (\E on \in BOOLEAN : SetEnabled(on)) \/ RegisterIntegration \/ DispatchTick
IntegrationSpec == IntegrationInit /\ [][IntegrationNext]_integrationVars

-----------------------------------------------------------------------------
IntegrationTypeOK ==
    /\ breaker \in [state : {"CLOSED", "OPEN", "HALF-OPEN"}, failures : Nat, last : Nat]
    /\ integration \in [enabled : BOOLEAN, status : {"HEALTHY", "DEGRADED", "FAILED"}]
    /\ checkpoint \in {"none", "SYNCING", "COMPLETED", "FAILED"}
    /\ sending \in BOOLEAN /\ sentAt \in Nat /\ inARow \in Nat /\ wallClock \in Nat

(* A provider that raised failure_threshold times in a row is left alone    *)
(* for the recovery time after the last of them, and an integration that    *)
(* says HEALTHY has neither failures counted nor an open breaker.           *)
BreakerProtects ==
    /\ sending /\ inARow >= FailureThreshold => sentAt > breaker.last + RecoveryTime
    /\ integration.status = "HEALTHY" /\ ~sending => breaker.state = "CLOSED" /\ breaker.failures = 0
=============================================================================
