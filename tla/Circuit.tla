------------------------------ MODULE Circuit -------------------------------
(***************************************************************************)
(* One provider's circuit shared by concurrent callers                     *)
(* (internal/gateway/circuit.go).                                          *)
(*                                                                         *)
(* A caller is a goroutine serving a request: it calls begin, runs its     *)
(* provider call, and reports exactly one of success, failure or ignore.   *)
(* The critical section of each method is one action.  Every method that   *)
(* changes the state calls notifyTransition after it has unlocked the      *)
(* mutex, so the notification is a step of its own and those of two        *)
(* callers may arrive in either order.                                     *)
(***************************************************************************)
EXTENDS ProviderHealth, FiniteSets

CONSTANTS
  Callers,        \* concurrent requests to the provider
  None,           \* no caller
  MaxGeneration   \* bound: no caller begins once the generation has got here

ASSUME CallersAssumption ==
  IsFiniteSet(Callers) /\ None \notin Callers /\ MaxGeneration \in Nat

VARIABLES
  health,    \* the providerHealth
  call,      \* what each caller is doing
  notified   \* transitions the observer has counted, by edge

vars == <<health, call, notified>>

Edges == CircuitStates \X CircuitStates

NoEdge == <<"none", "none">>

\* "announcing": begin changed the state and has not yet called the observer;
\* "running": the provider is being called; "reporting": the outcome changed
\* the state and the observer has not been called yet.
Call == [pc      : {"idle", "announcing", "running", "reporting"},
         attempt : Attempt,
         edge    : Edges \cup {NoEdge}]

Idle == [pc |-> "idle", attempt |-> NoAttempt, edge |-> NoEdge]

TypeOK ==
  /\ health \in Health
  /\ call \in [Callers -> Call]
  /\ notified \in [Edges -> Nat]

Init ==
  /\ health = NewHealth
  /\ call = [c \in Callers |-> Idle]
  /\ notified = [e \in Edges |-> 0]

-----------------------------------------------------------------------------
\* healthTracker.begin; a refused caller changes nothing.
BeginCall(c) ==
  /\ call[c].pc = "idle"
  /\ health.generation < MaxGeneration
  /\ Admits(health)
  /\ health' = Begin(health)
  /\ LET opened == health.state = "open" IN
     call' = [call EXCEPT ![c] =
       [pc      |-> IF opened THEN "announcing" ELSE "running",
        attempt |-> BeginAttempt(health),
        edge    |-> IF opened THEN <<"open", "half_open">> ELSE NoEdge]]
  /\ UNCHANGED notified

\* The end of an outcome method that leaves the circuit as next.
Report(c, next) ==
  /\ call[c].pc = "running"
  /\ health' = next
  /\ call' = [call EXCEPT ![c] =
       IF next.state = health.state THEN Idle
       ELSE [Idle EXCEPT !.pc = "reporting", !.edge = <<health.state, next.state>>]]
  /\ UNCHANGED notified

SuccessCall(c) == Report(c, Success(health, call[c].attempt))

FailureCall(c) == Report(c, Failure(health, call[c].attempt))

IgnoreCall(c) == Report(c, Ignore(health, call[c].attempt))

\* A notification lost when two are pending at once.
NotifyOverwritten(c) ==
  /\ call[c].pc \in {"announcing", "reporting"}
  /\ notified' = [notified EXCEPT ![call[c].edge] =
       IF \E d \in Callers \ {c} : call[d].edge # NoEdge THEN @ ELSE @ + 1]
  /\ call' = [call EXCEPT ![c] =
       IF call[c].pc = "announcing" THEN [call[c] EXCEPT !.pc = "running", !.edge = NoEdge]
                                    ELSE Idle]
  /\ UNCHANGED health

\* healthTracker.notifyTransition, and the return of the method that calls it.
Notify(c) ==
  /\ call[c].pc \in {"announcing", "reporting"}
  /\ notified' = [notified EXCEPT ![call[c].edge] = @ + 1]
  /\ call' = [call EXCEPT ![c] =
       IF call[c].pc = "announcing" THEN [call[c] EXCEPT !.pc = "running", !.edge = NoEdge]
                                    ELSE Idle]
  /\ UNCHANGED health

\* The clock; a circuit that has cooled down stays so.
Tick ==
  /\ health.cooldown > 0
  /\ health' = Elapse(health)
  /\ UNCHANGED <<call, notified>>

Next ==
  \/ \E c \in Callers :
       \/ BeginCall(c)
       \/ SuccessCall(c)
       \/ FailureCall(c)
       \/ IgnoreCall(c)
       \/ Notify(c)
  \/ Tick

Spec == Init /\ [][Next]_vars

\* Provider calls end (the HTTP client has a timeout and streams have an idle
\* watchdog), a method that has unlocked the mutex runs to its end, and the
\* clock advances.  Nothing obliges a caller to begin.
Fairness ==
  /\ \A c \in Callers : WF_vars(SuccessCall(c) \/ FailureCall(c) \/ IgnoreCall(c))
  /\ \A c \in Callers : WF_vars(Notify(c))
  /\ WF_vars(Tick)

FairSpec == Spec /\ Fairness
-----------------------------------------------------------------------------
\* The caller was admitted and has not reported its outcome.
Outstanding(c) == call[c].pc \in {"announcing", "running"}

\* The caller holds the half-open trial of the current generation.
HoldsTrial(c) ==
  /\ Outstanding(c)
  /\ call[c].attempt.halfOpen
  /\ call[c].attempt.generation = health.generation

\* At most one half-open trial runs against a provider, whatever generation
\* it was admitted in: begin, success, failure and ignore together never let
\* a second trial start while a first one is still at the provider.
OneTrial ==
  \A c, d \in Callers :
    /\ Outstanding(c) /\ call[c].attempt.halfOpen
    /\ Outstanding(d) /\ call[d].attempt.halfOpen
    => c = d

\* halfOpenInFlight is set exactly while somebody holds the trial: it is never
\* left behind by a trial that has ended, which would lock the provider out
\* for ever, and never cleared under a trial that is still running.
TrialAccounted ==
  health.halfOpenInFlight <=>
    health.state = "half_open" /\ \E c \in Callers : HoldsTrial(c)

\* The half-open trial is exclusive and accounted for: at most one request is
\* at the provider with it, and the circuit says so exactly while it is there.
TrialExclusive == OneTrial /\ TrialAccounted

\* An outstanding attempt of the current generation was admitted by the state
\* the circuit is in; so nothing admitted before the circuit opened can close
\* it, and no ordinary attempt can end a trial.
OutcomeMatchesState ==
  \A c \in Callers :
    Outstanding(c) /\ call[c].attempt.generation = health.generation =>
      \/ health.state = "closed" /\ ~call[c].attempt.halfOpen
      \/ health.state = "half_open" /\ call[c].attempt.halfOpen

\* A closed circuit has seen fewer consecutive failures than the threshold,
\* however the outcomes of concurrent attempts were interleaved.
ClosedBelowThreshold ==
  health.state = "closed" => health.consecutiveFailures < FailureThreshold

\* Transitions of an edge that the observer has counted or is about to count.
Counted(e) == notified[e] + Cardinality({c \in Callers : call[c].edge = e})

\* Every change of state is counted once by the observer, in spite of the
\* notifications being sent after the unlock: what it has counted, together
\* with what is about to be counted, is a walk from closed to the current
\* state along the four legal edges.
TransitionsBalance ==
  LET legal == {<<"closed", "open">>, <<"open", "half_open">>,
                <<"half_open", "open">>, <<"half_open", "closed">>}
  IN /\ \A e \in Edges \ legal : Counted(e) = 0
     /\ Counted(<<"closed", "open">>) =
          Counted(<<"half_open", "closed">>) + IF health.state = "closed" THEN 0 ELSE 1
     /\ Counted(<<"open", "half_open">>) =
          Counted(<<"half_open", "closed">>) + Counted(<<"half_open", "open">>)
            + IF health.state = "half_open" THEN 1 ELSE 0

\* An open circuit is left only by the admission of a trial after its cooldown.
OpenLeftByTrial ==
  [][health.state = "open" /\ health'.state # "open" =>
       /\ health.cooldown = 0
       /\ health'.state = "half_open"
       /\ \E c \in Callers : ~Outstanding(c) /\ HoldsTrial(c)']_vars

\* A circuit that is not closed is closed only by the caller that holds the
\* trial, in the step that ends its attempt.
ClosedByTrial ==
  [][health.state # "closed" /\ health'.state = "closed" =>
       \E c \in Callers : HoldsTrial(c) /\ ~Outstanding(c)']_vars

\* No provider is locked out for ever: whatever its callers report, the
\* circuit would admit a request again and again.
NeverLockedOut == []<>Eligible(health)

\* The refinement mapping: the caller that holds the trial.
prober ==
  IF \E c \in Callers : HoldsTrial(c)
  THEN CHOOSE c \in Callers : HoldsTrial(c)
  ELSE None

Abstract == INSTANCE Breaker WITH mode <- health.state, prober <- prober

\* The circuit, with its generations and its clock, implements the abstract
\* breaker: begin, success, failure and ignore are its only moves.
ImplementsBreaker == Abstract!Spec
=============================================================================
