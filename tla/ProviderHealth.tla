--------------------------- MODULE ProviderHealth ---------------------------
(***************************************************************************)
(* The circuit of one provider (internal/gateway/circuit.go) as a value,   *)
(* and the methods of healthTracker and healthAttempt as operators on it.  *)
(* Each operator is what one method does between locking and unlocking     *)
(* providerHealth.mu; the modules that use them decide who calls them and  *)
(* when.                                                                   *)
(*                                                                         *)
(* Time: the code compares now() with openUntil.  The difference of the    *)
(* two, cut off at zero, is all it ever looks at, so the value kept here   *)
(* is that difference: cooldown = openUntil - now, in clock ticks.         *)
(* lastSuccess and lastFailure are only reported, never read, and are left *)
(* out.                                                                    *)
(***************************************************************************)
EXTENDS Naturals

CONSTANTS
  FailureThreshold,  \* CircuitConfig.FailureThreshold
  OpenDuration       \* CircuitConfig.OpenDuration, in clock ticks

ASSUME CircuitConfigAssumption ==
  /\ FailureThreshold \in Nat \ {0}
  /\ OpenDuration \in Nat

CircuitStates == {"closed", "open", "half_open"}

\* providerHealth
Health == [state               : CircuitStates,
           generation          : Nat,
           consecutiveFailures : Nat,
           cooldown            : Nat,
           halfOpenInFlight    : BOOLEAN]

\* healthAttempt
Attempt == [halfOpen : BOOLEAN, generation : Nat]

NoAttempt == [halfOpen |-> FALSE, generation |-> 0]

\* newHealthTracker: every provider starts closed.
NewHealth == [state               |-> "closed",
              generation          |-> 0,
              consecutiveFailures |-> 0,
              cooldown            |-> 0,
              halfOpenInFlight    |-> FALSE]

-----------------------------------------------------------------------------
\* healthTracker.eligible: could a request be admitted now?
Eligible(h) ==
  /\ h.state = "open" => h.cooldown = 0
  /\ h.state = "half_open" => ~h.halfOpenInFlight

\* begin without the check of halfOpenInFlight.
AdmitsSecondTrial(h) ==
  h.state = "open" => h.cooldown = 0

\* healthTracker.begin: the conditions under which it admits the caller.
Admits(h) ==
  \/ h.state = "closed"
  \/ h.state = "open" /\ h.cooldown = 0
  \/ h.state = "half_open" /\ ~h.halfOpenInFlight

\* healthTracker.begin: the circuit after it has admitted a caller.
Begin(h) ==
  IF h.state = "closed" THEN h
  ELSE [state               |-> "half_open",
        generation          |-> IF h.state = "open" THEN h.generation + 1 ELSE h.generation,
        consecutiveFailures |-> h.consecutiveFailures,
        cooldown            |-> h.cooldown,
        halfOpenInFlight    |-> TRUE]

\* healthTracker.begin: the healthAttempt it returns.
BeginAttempt(h) ==
  [halfOpen |-> h.state # "closed", generation |-> Begin(h).generation]

\* success without the generation check.
SuccessOfAnyGeneration(h, a) ==
  [state               |-> "closed",
   generation          |-> IF h.state = "closed" THEN h.generation ELSE h.generation + 1,
   consecutiveFailures |-> 0,
   cooldown            |-> 0,
   halfOpenInFlight    |-> FALSE]

\* healthAttempt.success
Success(h, a) ==
  IF a.generation # h.generation THEN h
  ELSE [state               |-> "closed",
        generation          |-> IF h.state = "closed" THEN h.generation ELSE h.generation + 1,
        consecutiveFailures |-> 0,
        cooldown            |-> 0,
        halfOpenInFlight    |-> FALSE]

\* The threshold compared with the failures before this one.
TripsLate(h, a) == a.halfOpen \/ h.consecutiveFailures >= FailureThreshold

\* healthAttempt.failure: does this failure open the circuit?
Trips(h, a) == a.halfOpen \/ h.consecutiveFailures + 1 >= FailureThreshold

\* healthAttempt.failure
Failure(h, a) ==
  IF a.generation # h.generation THEN h
  ELSE IF Trips(h, a)
       THEN [state               |-> "open",
             generation          |-> h.generation + 1,
             consecutiveFailures |-> h.consecutiveFailures + 1,
             cooldown            |-> OpenDuration,
             halfOpenInFlight    |-> FALSE]
       ELSE [h EXCEPT !.consecutiveFailures = h.consecutiveFailures + 1]

\* ignore that forgets to give the trial back.
IgnoreKeepsTrial(h, a) ==
  IF a.halfOpen /\ a.generation = h.generation
  THEN [h EXCEPT !.generation = h.generation + 1]
  ELSE h

\* healthAttempt.ignore: release the trial and retire its generation.
Ignore(h, a) ==
  IF ~a.halfOpen \/ a.generation # h.generation THEN h
  ELSE [state               |-> h.state,
        generation          |-> h.generation + 1,
        consecutiveFailures |-> h.consecutiveFailures,
        cooldown            |-> h.cooldown,
        halfOpenInFlight    |-> FALSE]

\* One tick of the clock read by healthTracker.now, while it matters.
Elapse(h) == [h EXCEPT !.cooldown = h.cooldown - 1]
=============================================================================
