--------------------------- MODULE CircuitProofs ----------------------------
(***************************************************************************)
(* The safety properties of Circuit for every number of callers, every     *)
(* threshold and every open duration.                                      *)
(*                                                                         *)
(* The invariants of Circuit are not inductive one by one: that a second   *)
(* trial is never admitted rests on halfOpenInFlight being accurate, which *)
(* rests on outcomes of old generations being ignored, which rests on no   *)
(* outstanding attempt being ahead of the circuit's generation.  IInv      *)
(* joins them and adds the last two facts.                                 *)
(***************************************************************************)
EXTENDS Circuit, FiniteSetTheorems, TLAPS

\* No outstanding attempt is ahead of the circuit.
GenerationsInPast ==
  \A c \in Callers :
    Outstanding(c) => call[c].attempt.generation <= health.generation

\* A trial at the provider is never stale: only its own outcome retires the
\* generation it was admitted in.
TrialIsCurrent ==
  \A c \in Callers :
    Outstanding(c) /\ call[c].attempt.halfOpen => HoldsTrial(c)

IInv ==
  /\ TypeOK
  /\ GenerationsInPast
  /\ TrialIsCurrent
  /\ OneTrial
  /\ TrialAccounted
  /\ OutcomeMatchesState
  /\ ClosedBelowThreshold

-----------------------------------------------------------------------------
\* begin, success, failure and ignore return well-formed circuits and attempts.
LEMMA CircuitTypes ==
  ASSUME NEW h \in Health
  PROVE  /\ Begin(h) \in Health /\ BeginAttempt(h) \in Attempt
         /\ \A a \in Attempt : {Success(h, a), Failure(h, a), Ignore(h, a)} \subseteq Health
<1>1. Begin(h) \in Health
  BY DEF Begin, Health, CircuitStates
<1>2. BeginAttempt(h) \in Attempt
  BY <1>1 DEF BeginAttempt, Attempt, Health
<1>3. ASSUME NEW a \in Attempt PROVE Success(h, a) \in Health
  BY DEF Success, Health, CircuitStates
<1>4. ASSUME NEW a \in Attempt PROVE Failure(h, a) \in Health
  BY CircuitConfigAssumption DEF Failure, Health, CircuitStates
<1>5. ASSUME NEW a \in Attempt PROVE Ignore(h, a) \in Health
  BY DEF Ignore, Health, CircuitStates
<1>. QED
  BY <1>1, <1>2, <1>3, <1>4, <1>5

\* Every step keeps the state well formed (the inductive part of TypeOK).
LEMMA TypeStep == TypeOK /\ [Next]_vars => TypeOK'
<1>. SUFFICES ASSUME TypeOK, [Next]_vars PROVE TypeOK'
  OBVIOUS
<1>1. Idle \in Call
  BY DEF Idle, Call, Attempt, NoAttempt
<1>2. ASSUME NEW c \in Callers, BeginCall(c) PROVE TypeOK'
  <2>1. health' \in Health /\ BeginAttempt(health) \in Attempt
    BY <1>2, CircuitTypes DEF BeginCall, TypeOK
  <2>. QED
    BY <1>2, <2>1 DEF BeginCall, TypeOK, Call, Edges, CircuitStates
<1>3. ASSUME NEW c \in Callers, NEW next \in Health, Report(c, next) PROVE TypeOK'
  <2>1. <<health.state, next.state>> \in Edges
    BY DEF TypeOK, Health, Edges
  <2>. QED
    BY <1>1, <1>3, <2>1 DEF Report, TypeOK, Call, Idle
<1>4. ASSUME NEW c \in Callers, SuccessCall(c) \/ FailureCall(c) \/ IgnoreCall(c)
      PROVE  TypeOK'
  <2>1. call[c].attempt \in Attempt
    BY DEF TypeOK, Call
  <2>. QED
    BY <1>3, <1>4, <2>1, CircuitTypes DEF SuccessCall, FailureCall, IgnoreCall, TypeOK
<1>5. ASSUME NEW c \in Callers, Notify(c) PROVE TypeOK'
  <2>1. call' \in [Callers -> Call]
    BY <1>1, <1>5 DEF Notify, TypeOK, Call
  <2>2. notified' \in [Edges -> Nat]
    <3>1. CASE call[c].edge \in Edges
      BY <1>5, <3>1 DEF Notify, TypeOK
    <3>2. CASE call[c].edge \notin Edges
      BY <1>5, <3>2 DEF Notify, TypeOK
    <3>. QED
      BY <3>1, <3>2
  <2>. QED
    BY <1>5, <2>1, <2>2 DEF Notify, TypeOK
<1>6. CASE Tick
  BY <1>6 DEF Tick, TypeOK, Health, Elapse
<1>7. CASE UNCHANGED vars
  BY <1>7 DEF vars, TypeOK
<1>. QED
  BY <1>2, <1>4, <1>5, <1>6, <1>7 DEF Next

-----------------------------------------------------------------------------
\* What an outcome may do to the circuit: leave what admission looks at
\* alone, which a trial's outcome never does, or retire the generation the
\* attempt belongs to: the outcome of a trial, or a failure that trips.
Keeps(a, next) ==
  /\ ~a.halfOpen
  /\ next.state = health.state
  /\ next.generation = health.generation
  /\ next.halfOpenInFlight = health.halfOpenInFlight

Retires(a, next) ==
  /\ a.generation = health.generation
  /\ next.generation = health.generation + 1
  /\ next.halfOpenInFlight = FALSE
  /\ a.halfOpen \/ next.state = "open"

\* success, failure and ignore each do one of the two, and none of them leaves
\* a closed circuit at or above the threshold.
LEMMA OutcomeShape ==
  ASSUME IInv, NEW c \in Callers, call[c].pc = "running",
         NEW next,
         next \in {Success(health, call[c].attempt), Failure(health, call[c].attempt),
                   Ignore(health, call[c].attempt)}
  PROVE  /\ next \in Health
         /\ Keeps(call[c].attempt, next) \/ Retires(call[c].attempt, next)
         /\ next.state = "closed" => next.consecutiveFailures < FailureThreshold
<1>. DEFINE a == call[c].attempt
<1>. health \in Health /\ a \in Attempt
  BY DEF IInv, TypeOK, Call
<1>1. Outstanding(c)
  BY DEF Outstanding
<1>2. a.halfOpen => a.generation = health.generation /\ health.state = "half_open"
  BY <1>1 DEF IInv, TrialIsCurrent, HoldsTrial, OutcomeMatchesState
<1>3. a.generation = health.generation =>
        \/ health.state = "closed" /\ ~a.halfOpen /\ health.halfOpenInFlight = FALSE
        \/ health.state = "half_open" /\ a.halfOpen
  BY <1>1 DEF IInv, OutcomeMatchesState, TrialAccounted, TypeOK, Health
<1>4. health.state = "closed" => health.consecutiveFailures < FailureThreshold
  BY DEF IInv, ClosedBelowThreshold
<1>5. next \in Health
  BY CircuitTypes
<1>6. CASE a.generation # health.generation
  BY <1>2, <1>4, <1>5, <1>6 DEF Success, Failure, Ignore, Keeps
<1>7. CASE a.generation = health.generation /\ health.state = "closed" /\ ~a.halfOpen
  BY <1>3, <1>4, <1>5, <1>7, CircuitConfigAssumption
     DEF Success, Failure, Ignore, Trips, Keeps, Retires, Health
<1>8. CASE a.generation = health.generation /\ health.state = "half_open" /\ a.halfOpen
  BY <1>5, <1>8, CircuitConfigAssumption
     DEF Success, Failure, Ignore, Trips, Keeps, Retires, Health
<1>. QED
  BY <1>3, <1>5, <1>6, <1>7, <1>8

\* Reporting an outcome preserves the inductive invariant.
LEMMA ReportStep ==
  ASSUME IInv, TypeOK', NEW c \in Callers, NEW next \in Health, Report(c, next),
         Keeps(call[c].attempt, next) \/ Retires(call[c].attempt, next),
         next.state = "closed" => next.consecutiveFailures < FailureThreshold
  PROVE  IInv'
<1>. DEFINE a == call[c].attempt
<1>. health \in Health /\ a \in Attempt /\ health' = next
  BY DEF IInv, TypeOK, Call, Report
<1>1. Outstanding(c) /\ ~Outstanding(c)'
  BY DEF Report, Outstanding, Idle, IInv, TypeOK
<1>2. \A d \in Callers \ {c} : call'[d] = call[d]
  BY DEF Report, IInv, TypeOK
<1>3. \A d \in Callers : Outstanding(d)' => d # c /\ Outstanding(d)
  BY <1>1, <1>2 DEF Outstanding
<1>4. \A d \in Callers : call[d].attempt \in Attempt
  BY DEF IInv, TypeOK, Call
<1>5. CASE Keeps(a, next)
  <2>1. \A d \in Callers : HoldsTrial(d)' <=> HoldsTrial(d)
    BY <1>1, <1>2, <1>3, <1>5 DEF HoldsTrial, Keeps, Outstanding
  <2>2. TrialIsCurrent' /\ OneTrial'
    BY <1>2, <1>3, <2>1 DEF IInv, TrialIsCurrent, OneTrial
  <2>3. TrialAccounted'
    BY <1>5, <2>1 DEF IInv, TrialAccounted, Keeps
  <2>4. GenerationsInPast' /\ OutcomeMatchesState' /\ ClosedBelowThreshold'
    BY <1>2, <1>3, <1>5
       DEF IInv, GenerationsInPast, OutcomeMatchesState, ClosedBelowThreshold, Keeps
  <2>. QED
    BY <2>2, <2>3, <2>4 DEF IInv
<1>6. CASE Retires(a, next)
  <2>1. \A d \in Callers : Outstanding(d)' =>
          /\ call'[d].attempt.generation < health'.generation
          /\ ~call'[d].attempt.halfOpen
    <3>. SUFFICES ASSUME NEW d \in Callers, Outstanding(d)'
                  PROVE  /\ call[d].attempt.generation < health'.generation
                         /\ ~call[d].attempt.halfOpen
      BY <1>2, <1>3
    <3>1. call[d].attempt.generation <= health.generation
      BY <1>3 DEF IInv, GenerationsInPast
    <3>2. call[d].attempt.halfOpen => call[d].attempt.generation = health.generation
      BY <1>3 DEF IInv, TrialIsCurrent, HoldsTrial
    <3>3. a.halfOpen \/ ~call[d].attempt.halfOpen
      BY <1>1, <1>3, <1>6, <3>2 DEF IInv, OutcomeMatchesState, Retires
    <3>4. ~call[d].attempt.halfOpen
      BY <1>1, <1>3, <3>3 DEF IInv, OneTrial
    <3>. QED
      BY <1>4, <1>6, <3>1, <3>4 DEF Retires, Health, Attempt
  <2>2. GenerationsInPast' /\ TrialIsCurrent' /\ OneTrial' /\ ClosedBelowThreshold'
    BY <2>1, <1>4, <1>2, <1>3
       DEF GenerationsInPast, TrialIsCurrent, OneTrial, ClosedBelowThreshold, Health, Attempt
  <2>3. TrialAccounted' /\ OutcomeMatchesState'
    BY <1>6, <2>1, <1>4, <1>2, <1>3
       DEF TrialAccounted, OutcomeMatchesState, HoldsTrial, Retires, Health, Attempt
  <2>. QED
    BY <2>2, <2>3 DEF IInv
<1>. QED
  BY <1>5, <1>6

\* An admission by a circuit that is not closed finds no trial at the provider.
LEMMA AdmittedAlone ==
  ASSUME IInv, Admits(health), health.state # "closed", NEW d \in Callers, Outstanding(d)
  PROVE  ~call[d].attempt.halfOpen
<1>. SUFFICES ASSUME call[d].attempt.halfOpen PROVE FALSE
  OBVIOUS
<1>1. HoldsTrial(d)
  BY DEF IInv, TrialIsCurrent
<1>2. health.state = "half_open"
  BY <1>1 DEF IInv, OutcomeMatchesState, HoldsTrial
<1>3. health.halfOpenInFlight
  BY <1>1, <1>2 DEF IInv, TrialAccounted
<1>. QED
  BY <1>2, <1>3 DEF Admits

\* Admitting a caller preserves the inductive invariant.
LEMMA BeginStep ==
  ASSUME IInv, TypeOK', NEW c \in Callers, BeginCall(c)
  PROVE  IInv'
<1>. DEFINE a == BeginAttempt(health)
<1>. /\ health \in Health /\ health' = Begin(health) /\ health' \in Health
     /\ \A d \in Callers : call[d].attempt \in Attempt
  BY DEF IInv, TypeOK, Call, BeginCall
<1>1. Outstanding(c)' /\ call'[c].attempt = a /\ ~Outstanding(c)
  BY DEF BeginCall, Outstanding, IInv, TypeOK
<1>2. \A d \in Callers \ {c} : call'[d] = call[d] /\ (Outstanding(d)' <=> Outstanding(d))
  BY DEF BeginCall, IInv, TypeOK, Outstanding
<1>3. CASE health.state = "closed"
  <2>1. health' = health /\ ~a.halfOpen /\ a.generation = health.generation
    BY <1>3 DEF Begin, BeginAttempt
  <2>2. \A d \in Callers : HoldsTrial(d)' <=> HoldsTrial(d)
    BY <1>1, <1>2, <2>1 DEF HoldsTrial
  <2>3. GenerationsInPast' /\ TrialIsCurrent' /\ OneTrial'
    BY <1>1, <1>2, <2>1, <2>2 DEF IInv, GenerationsInPast, TrialIsCurrent, OneTrial, Health
  <2>4. TrialAccounted'
    BY <2>1, <2>2 DEF IInv, TrialAccounted
  <2>5. OutcomeMatchesState' /\ ClosedBelowThreshold'
    BY <1>1, <1>2, <1>3, <2>1 DEF IInv, OutcomeMatchesState, ClosedBelowThreshold
  <2>. QED
    BY <2>3, <2>4, <2>5 DEF IInv
<1>4. CASE health.state # "closed"
  <2>1. /\ health'.state = "half_open" /\ health'.halfOpenInFlight
        /\ a.halfOpen /\ a.generation = health'.generation
        /\ health.generation <= health'.generation
    <3>1. health'.state = "half_open" /\ health'.halfOpenInFlight = TRUE
      BY <1>4 DEF Begin
    <3>2. a.halfOpen = TRUE /\ a.generation = health'.generation
      BY <1>4 DEF BeginAttempt
    <3>3. health.generation <= health'.generation
      BY <1>4 DEF Begin, Health
    <3>. QED
      BY <3>1, <3>2, <3>3
  <2>2. \A d \in Callers \ {c} : Outstanding(d)' =>
          /\ ~call'[d].attempt.halfOpen
          /\ call'[d].attempt.generation < health'.generation
    <3>. SUFFICES ASSUME NEW d \in Callers \ {c}, Outstanding(d)
                  PROVE  /\ ~call[d].attempt.halfOpen
                         /\ call[d].attempt.generation < health'.generation
      BY <1>2
    <3>1. ~call[d].attempt.halfOpen
      BY <1>4, AdmittedAlone DEF BeginCall
    <3>2. call[d].attempt.generation <= health.generation
      BY DEF IInv, GenerationsInPast
    <3>3. call[d].attempt.generation # health.generation
      BY <1>4, <3>1 DEF IInv, OutcomeMatchesState
    <3>. QED
      BY <2>1, <3>1, <3>2, <3>3 DEF Health, Attempt
  <2>3. HoldsTrial(c)'
    BY <1>1, <2>1 DEF HoldsTrial
  <2>4. GenerationsInPast' /\ TrialIsCurrent' /\ OneTrial' /\ ClosedBelowThreshold'
    BY <1>1, <1>2, <2>1, <2>2, <2>3
       DEF GenerationsInPast, TrialIsCurrent, OneTrial, ClosedBelowThreshold, Health, Attempt
  <2>5. TrialAccounted' /\ OutcomeMatchesState'
    BY <1>1, <1>2, <2>1, <2>2, <2>3
       DEF TrialAccounted, OutcomeMatchesState, Health, Attempt
  <2>. QED
    BY <2>4, <2>5 DEF IInv
<1>. QED
  BY <1>3, <1>4

\* Notifications and the clock do not touch what the invariant speaks of.
LEMMA QuietStep ==
  ASSUME IInv, TypeOK',
         (\E c \in Callers : Notify(c)) \/ Tick \/ UNCHANGED vars
  PROVE  IInv'
<1>1. /\ health'.state = health.state
      /\ health'.generation = health.generation
      /\ health'.halfOpenInFlight = health.halfOpenInFlight
      /\ health'.consecutiveFailures = health.consecutiveFailures
  BY DEF Notify, Tick, Elapse, vars, IInv, TypeOK, Health
<1>2. \A d \in Callers :
        /\ Outstanding(d)' <=> Outstanding(d)
        /\ Outstanding(d) => call'[d].attempt = call[d].attempt
  <2>1. ASSUME NEW c \in Callers, Notify(c), NEW d \in Callers
        PROVE  /\ Outstanding(d)' <=> Outstanding(d)
               /\ Outstanding(d) => call'[d].attempt = call[d].attempt
    <3>1. CASE d = c
      BY <2>1, <3>1 DEF Notify, Outstanding, Idle, IInv, TypeOK, Call
    <3>2. CASE d # c
      BY <2>1, <3>2 DEF Notify, Outstanding, IInv, TypeOK
    <3>. QED
      BY <3>1, <3>2
  <2>2. ASSUME Tick \/ UNCHANGED vars, NEW d \in Callers
        PROVE  /\ Outstanding(d)' <=> Outstanding(d)
               /\ Outstanding(d) => call'[d].attempt = call[d].attempt
    BY <2>2 DEF Tick, vars, Outstanding
  <2>. QED
    BY <2>1, <2>2
<1>3. \A d \in Callers : HoldsTrial(d)' <=> HoldsTrial(d)
  BY <1>1, <1>2 DEF HoldsTrial
<1>4. GenerationsInPast' /\ TrialIsCurrent' /\ OneTrial'
  BY <1>1, <1>2, <1>3 DEF IInv, GenerationsInPast, TrialIsCurrent, OneTrial
<1>5. TrialAccounted'
  BY <1>1, <1>3 DEF IInv, TrialAccounted
<1>6. OutcomeMatchesState' /\ ClosedBelowThreshold'
  BY <1>1, <1>2 DEF IInv, OutcomeMatchesState, ClosedBelowThreshold
<1>. QED
  BY <1>4, <1>5, <1>6 DEF IInv

-----------------------------------------------------------------------------
\* Whatever callers do, the inductive invariant holds.
THEOREM Invariance == Spec => []IInv
<1>1. Init => IInv
  <2>. SUFFICES ASSUME Init PROVE IInv
    OBVIOUS
  <2>1. TypeOK
    BY DEF Init, TypeOK, NewHealth, Health, CircuitStates, Idle, Call, Attempt, NoAttempt
  <2>2. \A c \in Callers : ~Outstanding(c)
    BY DEF Init, Outstanding, Idle
  <2>3. health.halfOpenInFlight = FALSE /\ health.consecutiveFailures = 0
    BY DEF Init, NewHealth
  <2>. QED
    BY <2>1, <2>2, <2>3, CircuitConfigAssumption
       DEF IInv, GenerationsInPast, TrialIsCurrent, OneTrial, TrialAccounted, HoldsTrial,
           OutcomeMatchesState, ClosedBelowThreshold
<1>2. IInv /\ [Next]_vars => IInv'
  <2>. SUFFICES ASSUME IInv, [Next]_vars PROVE IInv'
    OBVIOUS
  <2>1. TypeOK'
    BY TypeStep DEF IInv
  <2>2. ASSUME NEW c \in Callers, BeginCall(c) PROVE IInv'
    BY <2>1, <2>2, BeginStep
  <2>3. ASSUME NEW c \in Callers, NEW next, Report(c, next),
               next \in {Success(health, call[c].attempt), Failure(health, call[c].attempt),
                         Ignore(health, call[c].attempt)}
        PROVE  IInv'
    <3>1. call[c].pc = "running"
      BY <2>3 DEF Report
    <3>. QED
      BY <2>1, <2>3, <3>1, OutcomeShape, ReportStep
  <2>4. ASSUME NEW c \in Callers, SuccessCall(c) \/ FailureCall(c) \/ IgnoreCall(c)
        PROVE  IInv'
    BY <2>3, <2>4 DEF SuccessCall, FailureCall, IgnoreCall
  <2>. QED
    BY <2>1, <2>2, <2>4, QuietStep DEF Next
<1>. QED
  BY <1>1, <1>2, PTL DEF Spec

\* At most one half-open trial is ever at a provider (begin, circuit.go), and
\* halfOpenInFlight is set exactly while it is running: no outcome or
\* cancellation leaves it behind.
THEOREM TrialExclusiveTheorem == Spec => []TrialExclusive
<1>1. IInv => TrialExclusive
  BY DEF IInv, TrialExclusive
<1>. QED
  BY <1>1, Invariance, PTL

\* A closed circuit is below its failure threshold.
THEOREM ClosedBelowThresholdTheorem == Spec => []ClosedBelowThreshold
<1>1. IInv => ClosedBelowThreshold
  BY DEF IInv
<1>. QED
  BY <1>1, Invariance, PTL

-----------------------------------------------------------------------------
\* The flag and the holder of the trial agree, and the holder is unique.
LEMMA Holder ==
  ASSUME IInv
  PROVE  /\ health.halfOpenInFlight <=> \E c \in Callers : HoldsTrial(c)
         /\ \A c \in Callers : HoldsTrial(c) => prober = c /\ health.state = "half_open"
         /\ (\A c \in Callers : ~HoldsTrial(c)) => prober = None
<1>1. \A c \in Callers : HoldsTrial(c) => health.state = "half_open"
  BY DEF IInv, OutcomeMatchesState, HoldsTrial
<1>2. health.halfOpenInFlight <=> \E c \in Callers : HoldsTrial(c)
  BY <1>1 DEF IInv, TrialAccounted
<1>3. \A c, d \in Callers : HoldsTrial(c) /\ HoldsTrial(d) => c = d
  BY DEF IInv, OneTrial, HoldsTrial
<1>4. \A c \in Callers : HoldsTrial(c) => prober = c
  BY <1>3 DEF prober
<1>5. (\A c \in Callers : ~HoldsTrial(c)) => prober = None
  BY DEF prober
<1>. QED
  BY <1>1, <1>2, <1>4, <1>5

\* A step that keeps the holders keeps the abstract prober.
LEMMA SameProber ==
  ASSUME IInv, IInv', \A c \in Callers : HoldsTrial(c)' <=> HoldsTrial(c)
  PROVE  prober' = prober
<1>1. CASE \E c \in Callers : HoldsTrial(c)
  <2>1. PICK c \in Callers : HoldsTrial(c)
    BY <1>1
  <2>2. prober = c
    BY <2>1, Holder
  <2>3. \A d \in Callers : HoldsTrial(d)' => d = c
    BY <2>1 DEF IInv, OneTrial, HoldsTrial
  <2>. QED
    BY <2>1, <2>2, <2>3 DEF prober
<1>2. CASE \A c \in Callers : ~HoldsTrial(c)
  BY <1>2 DEF prober
<1>. QED
  BY <1>1, <1>2

\* What each kind of step does to the state, the holders and the callers.
LEMMA StepEffect ==
  ASSUME IInv, IInv', [Next]_vars
  PROVE  \/ /\ health'.state = health.state
            /\ \A d \in Callers : HoldsTrial(d)' <=> HoldsTrial(d)
         \/ /\ health.state # "closed" /\ Admits(health) /\ health'.state = "half_open"
            /\ \A d \in Callers : ~HoldsTrial(d)
            /\ \E c \in Callers : ~Outstanding(c) /\ HoldsTrial(c)'
         \/ /\ \A d \in Callers : ~HoldsTrial(d)'
            /\ \E c \in Callers :
                 \/ HoldsTrial(c) /\ ~Outstanding(c)'
                 \/ /\ health.state = "closed" /\ health'.state = "open"
                    /\ \A d \in Callers : ~HoldsTrial(d)
<1>1. CASE (\E c \in Callers : Notify(c)) \/ Tick \/ UNCHANGED vars
  <2>1. health'.state = health.state /\ health'.generation = health.generation
    BY <1>1 DEF Notify, Tick, Elapse, vars, IInv, TypeOK, Health
  <2>2. ASSUME NEW c \in Callers, Notify(c), NEW d \in Callers
        PROVE  HoldsTrial(d)' <=> HoldsTrial(d)
    <3>1. CASE d = c
      BY <2>1, <2>2, <3>1 DEF Notify, HoldsTrial, Outstanding, Idle, IInv, TypeOK, Call
    <3>2. CASE d # c
      BY <2>1, <2>2, <3>2 DEF Notify, HoldsTrial, Outstanding, IInv, TypeOK
    <3>. QED
      BY <3>1, <3>2
  <2>3. ASSUME Tick \/ UNCHANGED vars, NEW d \in Callers
        PROVE  HoldsTrial(d)' <=> HoldsTrial(d)
    BY <2>1, <2>3 DEF Tick, vars, HoldsTrial, Outstanding
  <2>. QED
    BY <1>1, <2>1, <2>2, <2>3
<1>2. ASSUME NEW c \in Callers, BeginCall(c)
      PROVE  \/ /\ health'.state = health.state
                /\ \A d \in Callers : HoldsTrial(d)' <=> HoldsTrial(d)
             \/ /\ health.state # "closed" /\ Admits(health) /\ health'.state = "half_open"
                /\ \A d \in Callers : ~HoldsTrial(d)
                /\ ~Outstanding(c) /\ HoldsTrial(c)'
  <2>1. /\ ~Outstanding(c) /\ Outstanding(c)' /\ call'[c].attempt = BeginAttempt(health)
        /\ health' = Begin(health) /\ health \in Health
    BY <1>2 DEF BeginCall, Outstanding, IInv, TypeOK
  <2>2. \A d \in Callers \ {c} : call'[d] = call[d]
    BY <1>2 DEF BeginCall, IInv, TypeOK
  <2>3. CASE health.state = "closed"
    <3>1. health' = health /\ ~BeginAttempt(health).halfOpen
      BY <2>1, <2>3 DEF Begin, BeginAttempt
    <3>. QED
      BY <2>1, <2>2, <3>1 DEF HoldsTrial, Outstanding
  <2>4. CASE health.state # "closed"
    <3>1. health'.state = "half_open"
      BY <2>1, <2>4 DEF Begin
    <3>2. BeginAttempt(health).halfOpen = TRUE
          /\ BeginAttempt(health).generation = health'.generation
      BY <2>1, <2>4 DEF BeginAttempt
    <3>3. HoldsTrial(c)'
      BY <2>1, <3>2 DEF HoldsTrial
    <3>4. \A d \in Callers : ~HoldsTrial(d)
      BY <1>2, <2>4, AdmittedAlone DEF HoldsTrial, BeginCall
    <3>. QED
      BY <1>2, <2>1, <2>4, <3>1, <3>3, <3>4 DEF BeginCall
  <2>. QED
    BY <2>3, <2>4
<1>3. ASSUME NEW c \in Callers, NEW next, Report(c, next),
             next \in {Success(health, call[c].attempt), Failure(health, call[c].attempt),
                       Ignore(health, call[c].attempt)}
      PROVE  \/ /\ health'.state = health.state
                /\ \A d \in Callers : HoldsTrial(d)' <=> HoldsTrial(d)
             \/ /\ \A d \in Callers : ~HoldsTrial(d)'
                /\ \/ HoldsTrial(c) /\ ~Outstanding(c)'
                   \/ /\ health.state = "closed" /\ health'.state = "open"
                      /\ \A d \in Callers : ~HoldsTrial(d)
  <2>1. /\ health' = next /\ call[c].pc = "running" /\ Outstanding(c) /\ ~Outstanding(c)'
        /\ \A d \in Callers \ {c} : call'[d] = call[d]
    BY <1>3 DEF Report, Outstanding, Idle, IInv, TypeOK
  <2>2. Keeps(call[c].attempt, next) \/ Retires(call[c].attempt, next)
    BY <1>3, <2>1, OutcomeShape
  <2>3. CASE Keeps(call[c].attempt, next)
    BY <2>1, <2>3 DEF Keeps, HoldsTrial, Outstanding
  <2>4. CASE Retires(call[c].attempt, next)
    <3>1. health'.halfOpenInFlight = FALSE
      BY <2>1, <2>4 DEF Retires
    <3>2. \A d \in Callers : ~HoldsTrial(d)'
      BY <3>1 DEF IInv, TrialAccounted, OutcomeMatchesState, HoldsTrial
    <3>3. CASE call[c].attempt.halfOpen
      BY <2>1, <2>4, <3>2, <3>3 DEF Retires, HoldsTrial
    <3>4. CASE ~call[c].attempt.halfOpen
      <4>1. health.state = "closed" /\ health'.state = "open"
        BY <2>1, <2>4, <3>4 DEF Retires, IInv, OutcomeMatchesState
      <4>2. \A d \in Callers : ~HoldsTrial(d)
        BY <4>1 DEF IInv, OutcomeMatchesState, HoldsTrial
      <4>. QED
        BY <3>2, <4>1, <4>2
    <3>. QED
      BY <3>3, <3>4
  <2>. QED
    BY <2>2, <2>3, <2>4
<1>4. CASE \E c \in Callers : SuccessCall(c) \/ FailureCall(c) \/ IgnoreCall(c)
  BY <1>3, <1>4 DEF SuccessCall, FailureCall, IgnoreCall
<1>. QED
  BY <1>1, <1>2, <1>4 DEF Next

\* An open circuit is left only by admitting a trial after its cooldown.
THEOREM OpenLeftByTrialTheorem == Spec => OpenLeftByTrial
<1>1. ASSUME IInv, IInv', [Next]_vars, health.state = "open", health'.state # "open"
      PROVE  /\ health.cooldown = 0
             /\ health'.state = "half_open"
             /\ \E c \in Callers : ~Outstanding(c) /\ HoldsTrial(c)'
  <2>1. \A c \in Callers : ~HoldsTrial(c)
    BY <1>1, Holder
  <2>. QED
    BY <1>1, <2>1, StepEffect DEF Admits
<1>. QED
  BY <1>1, Invariance, PTL DEF Spec, OpenLeftByTrial

\* Only the caller that holds the trial closes a circuit that is not closed.
THEOREM ClosedByTrialTheorem == Spec => ClosedByTrial
<1>1. ASSUME IInv, IInv', [Next]_vars, health.state # "closed", health'.state = "closed"
      PROVE  \E c \in Callers : HoldsTrial(c) /\ ~Outstanding(c)'
  BY <1>1, StepEffect
<1>. QED
  BY <1>1, Invariance, PTL DEF Spec, ClosedByTrial

\* The circuit with its generations, counters and clock implements the
\* abstract breaker.
THEOREM Refinement == Spec => ImplementsBreaker
<1>1. Init => Abstract!Init
  <2>. SUFFICES ASSUME Init PROVE Abstract!Init
    OBVIOUS
  <2>1. \A c \in Callers : ~HoldsTrial(c)
    BY DEF Init, HoldsTrial, Outstanding, Idle
  <2>. QED
    BY <2>1 DEF Init, NewHealth, Abstract!Init, prober
<1>2. ASSUME IInv, IInv', [Next]_vars PROVE [Abstract!Next]_(Abstract!bvars)
  <2>1. CASE /\ health'.state = health.state
             /\ \A d \in Callers : HoldsTrial(d)' <=> HoldsTrial(d)
    BY <1>2, <2>1, SameProber DEF Abstract!bvars
  <2>2. ASSUME health.state # "closed", health'.state = "half_open",
               \A d \in Callers : ~HoldsTrial(d),
               NEW c \in Callers, HoldsTrial(c)'
        PROVE  Abstract!Next
    <3>1. prober = None
      BY <1>2, <2>2, Holder
    <3>2. \A d \in Callers : HoldsTrial(d)' => d = c
      BY <1>2, <2>2 DEF IInv, OneTrial, HoldsTrial
    <3>3. prober' = c
      BY <2>2, <3>2 DEF prober
    <3>. QED
      BY <2>2, <3>1, <3>3 DEF Abstract!Next, Abstract!Probe
  <2>3. ASSUME \A d \in Callers : ~HoldsTrial(d)', NEW c \in Callers, HoldsTrial(c)
        PROVE  Abstract!Next
    <3>1. prober = c /\ prober # None /\ health.state = "half_open"
      BY <1>2, <2>3, Holder, CallersAssumption
    <3>2. prober' = None
      BY <2>3 DEF prober
    <3>3. health'.state \in {"closed", "open", "half_open"}
      BY <1>2 DEF IInv, TypeOK, Health, CircuitStates
    <3>. QED
      BY <3>1, <3>2, <3>3 DEF Abstract!Next, Abstract!Resolve
  <2>4. ASSUME health.state = "closed", health'.state = "open",
               \A d \in Callers : ~HoldsTrial(d), \A d \in Callers : ~HoldsTrial(d)'
        PROVE  Abstract!Next
    BY <1>2, <2>4, SameProber DEF Abstract!Next, Abstract!Trip
  <2>. QED
    BY <1>2, <2>1, <2>2, <2>3, <2>4, StepEffect
<1>. QED
  BY <1>1, <1>2, Invariance, PTL DEF Spec, ImplementsBreaker, Abstract!Spec
-----------------------------------------------------------------------------
\* The edges along which a circuit moves.
Legal == {<<"closed", "open">>, <<"open", "half_open">>,
          <<"half_open", "open">>, <<"half_open", "closed">>}

\* A caller has an edge to announce exactly while its notification is due.
EdgesDue ==
  \A c \in Callers :
    /\ call[c].pc \in {"announcing", "reporting"} => call[c].edge \in Legal
    /\ call[c].pc \in {"idle", "running"} => call[c].edge = NoEdge

\* The callers that are about to announce an edge.
Due(e) == {c \in Callers : call[c].edge = e}

LEMMA LegalEdges == Legal \subseteq Edges /\ NoEdge \notin Edges
  BY DEF Legal, Edges, NoEdge, CircuitStates

\* The callers that are about to announce an edge can be counted.
LEMMA DueFinite ==
  ASSUME NEW e
  PROVE  IsFiniteSet(Due(e)) /\ Cardinality(Due(e)) \in Nat
<1>1. Due(e) \in SUBSET Callers
  BY DEF Due
<1>2. IsFiniteSet(Due(e))
  BY <1>1, CallersAssumption, FS_Subset
<1>. QED
  BY <1>2, FS_CardinalityType

\* A caller that gets an edge to announce adds one to the count of that edge.
LEMMA EdgeAdded ==
  ASSUME IInv, NEW c \in Callers, NEW r, call' = [call EXCEPT ![c] = r],
         call[c].edge = NoEdge, UNCHANGED notified, NEW e \in Edges
  PROVE  Counted(e)' = IF r.edge = e THEN Counted(e) + 1 ELSE Counted(e)
<1>1. call \in [Callers -> Call] /\ notified[e] \in Nat /\ e # NoEdge
  BY LegalEdges DEF IInv, TypeOK
<1>2. c \notin Due(e)
  BY <1>1 DEF Due
<1>3. Due(e)' = IF r.edge = e THEN Due(e) \cup {c} ELSE Due(e)
  BY <1>1 DEF Due
<1>4. Cardinality(Due(e)') = IF r.edge = e THEN Cardinality(Due(e)) + 1 ELSE Cardinality(Due(e))
  BY <1>2, <1>3, DueFinite, FS_AddElement
<1>5. Counted(e) = notified[e] + Cardinality(Due(e)) /\ Counted(e)' = notified[e] + Cardinality(Due(e)')
  BY DEF Counted, Due
<1>. QED
  BY <1>1, <1>4, <1>5, DueFinite

\* A notification moves an edge from those that are due to those announced.
LEMMA EdgeAnnounced ==
  ASSUME IInv, EdgesDue, NEW c \in Callers, Notify(c), NEW e \in Edges
  PROVE  Counted(e)' = Counted(e)
<1> DEFINE m == call[c].edge
<1>1. call \in [Callers -> Call] /\ notified \in [Edges -> Nat] /\ e # NoEdge
  BY LegalEdges DEF IInv, TypeOK
<1>2. m \in Edges
  BY LegalEdges DEF Notify, EdgesDue
<1>3. notified'[e] = IF m = e THEN notified[e] + 1 ELSE notified[e]
  BY <1>1, <1>2 DEF Notify
<1>4. call'[c].edge = NoEdge /\ \A d \in Callers \ {c} : call'[d] = call[d]
  BY <1>1 DEF Notify, Idle, Call
<1>5. Due(e)' = IF m = e THEN Due(e) \ {c} ELSE Due(e)
  BY <1>1, <1>4 DEF Due
<1>6. m = e <=> c \in Due(e)
  BY DEF Due
<1>7. Cardinality(Due(e)') = IF m = e THEN Cardinality(Due(e)) - 1 ELSE Cardinality(Due(e))
  BY <1>5, <1>6, DueFinite, FS_RemoveElement
<1>8. Counted(e) = notified[e] + Cardinality(Due(e)) /\ Counted(e)' = notified'[e] + Cardinality(Due(e)')
  BY DEF Counted, Due
<1>9. notified[e] \in Nat
  BY <1>1
<1>. QED
  BY <1>3, <1>7, <1>8, <1>9, DueFinite

\* Every step leaves the state and the counts alone, or takes the circuit along a
\* legal edge and counts that edge.
Stays == health'.state = health.state /\ \A e \in Edges : Counted(e)' = Counted(e)

Moves(m) ==
  /\ m = <<health.state, health'.state>>
  /\ \A e \in Edges : Counted(e)' = IF e = m THEN Counted(e) + 1 ELSE Counted(e)

LEMMA MoveStep ==
  ASSUME IInv, EdgesDue, [Next]_vars
  PROVE  EdgesDue' /\ (Stays \/ \E m \in Legal : Moves(m))
<1>1. call \in [Callers -> Call] /\ health \in Health
  BY DEF IInv, TypeOK
\* A caller without an edge moves on with record r, which has an edge or none.
<1>2. ASSUME NEW c \in Callers, NEW r, call' = [call EXCEPT ![c] = r], UNCHANGED notified,
             call[c].edge = NoEdge,
             \/ /\ r.pc \in {"idle", "running"} /\ r.edge = NoEdge
                /\ health'.state = health.state
             \/ /\ r.pc \in {"announcing", "reporting"} /\ r.edge \in Legal
                /\ r.edge = <<health.state, health'.state>>
      PROVE  EdgesDue' /\ (Stays \/ \E m \in Legal : Moves(m))
  <2>1. EdgesDue'
    BY <1>1, <1>2 DEF EdgesDue
  <2>2. \A e \in Edges : Counted(e)' = IF r.edge = e THEN Counted(e) + 1 ELSE Counted(e)
    BY <1>2, EdgeAdded
  <2>3. CASE r.edge = NoEdge
    BY <1>2, <2>1, <2>2, <2>3, LegalEdges DEF Stays
  <2>4. CASE r.edge \in Legal
    <3>1. r.edge = <<health.state, health'.state>>
      BY <1>2, <2>4, LegalEdges
    <3>2. Moves(r.edge)
      BY <2>2, <3>1 DEF Moves
    <3>. QED
      BY <2>1, <2>4, <3>2
  <2>. QED
    BY <1>2, <2>3, <2>4
<1>3. ASSUME NEW c \in Callers, BeginCall(c)
      PROVE  EdgesDue' /\ (Stays \/ \E m \in Legal : Moves(m))
  <2> DEFINE opened == health.state = "open"
             r == [pc      |-> IF opened THEN "announcing" ELSE "running",
                   attempt |-> BeginAttempt(health),
                   edge    |-> IF opened THEN <<"open", "half_open">> ELSE NoEdge]
  <2>1. call' = [call EXCEPT ![c] = r] /\ UNCHANGED notified
    BY <1>3 DEF BeginCall
  <2>2. call[c].edge = NoEdge
    BY <1>3 DEF BeginCall, EdgesDue
  <2>3. CASE opened
    <3>1. r.pc = "announcing" /\ r.edge = <<"open", "half_open">>
      BY <2>3
    <3>2. health'.state = "half_open"
      BY <1>3, <2>3 DEF BeginCall, Begin
    <3>3. r.edge \in Legal /\ r.edge = <<health.state, health'.state>>
      BY <2>3, <3>1, <3>2 DEF Legal
    <3> HIDE DEF r
    <3>. QED
      BY <1>2, <2>1, <2>2, <3>1, <3>3
  <2>4. CASE ~opened
    <3>1. r.pc = "running" /\ r.edge = NoEdge
      BY <2>4
    <3>2. health'.state = health.state
      BY <1>1, <1>3, <2>4 DEF BeginCall, Begin, Health, CircuitStates
    <3> HIDE DEF r
    <3>. QED
      BY <1>2, <2>1, <2>2, <3>1, <3>2
  <2>. QED
    BY <2>3, <2>4
<1>4. ASSUME NEW c \in Callers, NEW next, Report(c, next),
             next \in {Success(health, call[c].attempt), Failure(health, call[c].attempt),
                       Ignore(health, call[c].attempt)}
      PROVE  EdgesDue' /\ (Stays \/ \E m \in Legal : Moves(m))
  <2> DEFINE r == IF next.state = health.state THEN Idle
                  ELSE [Idle EXCEPT !.pc = "reporting", !.edge = <<health.state, next.state>>]
  <2>1. call' = [call EXCEPT ![c] = r] /\ UNCHANGED notified /\ health' = next
    BY <1>4 DEF Report
  <2>2. call[c].edge = NoEdge /\ call[c].pc = "running" /\ Outstanding(c)
    BY <1>4 DEF Report, EdgesDue, Outstanding
  <2>3. CASE next.state = health.state
    <3>1. r.pc = "idle" /\ r.edge = NoEdge
      BY <2>3 DEF Idle
    <3> HIDE DEF r
    <3>. QED
      BY <1>2, <2>1, <2>2, <2>3, <3>1
  <2>4. CASE next.state # health.state
    <3>1. r.pc = "reporting" /\ r.edge = <<health.state, next.state>>
      BY <2>4 DEF Idle
    <3>2. next \in Health /\ Retires(call[c].attempt, next)
      BY <1>4, <2>2, <2>4, OutcomeShape DEF Keeps
    <3>3. (health.state = "closed" /\ next.state = "open") \/ health.state = "half_open"
      BY <2>2, <3>2 DEF IInv, OutcomeMatchesState, Retires
    <3>4. next.state \in {"closed", "open", "half_open"}
      BY <3>2 DEF Health, CircuitStates
    <3>5. <<health.state, next.state>> \in Legal
      BY <2>4, <3>3, <3>4 DEF Legal
    <3> HIDE DEF r
    <3>. QED
      BY <1>2, <2>1, <2>2, <3>1, <3>5
  <2>. QED
    BY <2>3, <2>4
<1>5. ASSUME NEW c \in Callers, Notify(c) PROVE EdgesDue' /\ Stays
  <2>1. /\ call'[c].edge = NoEdge /\ call'[c].pc \in {"idle", "running"}
        /\ \A d \in Callers \ {c} : call'[d] = call[d]
    BY <1>1, <1>5 DEF Notify, Idle, Call
  <2>2. EdgesDue'
    BY <2>1 DEF EdgesDue
  <2>3. Stays
    BY <1>5, EdgeAnnounced DEF Stays, Notify
  <2>. QED
    BY <2>2, <2>3
<1>6. CASE Tick \/ UNCHANGED vars
  <2>1. UNCHANGED <<call, notified>> /\ health'.state = health.state
    BY <1>1, <1>6 DEF Tick, Elapse, vars, Health
  <2>. QED
    BY <2>1 DEF EdgesDue, Stays, Counted
<1>7. CASE \E c \in Callers : SuccessCall(c) \/ FailureCall(c) \/ IgnoreCall(c)
  BY <1>4, <1>7 DEF SuccessCall, FailureCall, IgnoreCall
<1>. QED
  BY <1>3, <1>5, <1>6, <1>7 DEF Next

\* The counts stay those of a walk when the circuit moves.
LEMMA WalkStep ==
  ASSUME IInv, IInv', TransitionsBalance, Stays \/ \E m \in Legal : Moves(m)
  PROVE  TransitionsBalance'
<1> DEFINE co == <<"closed", "open">>
           oh == <<"open", "half_open">>
           ho == <<"half_open", "open">>
           hc == <<"half_open", "closed">>
<1>1. \A e \in Edges : Counted(e) \in Nat
  <2>1. ASSUME NEW e \in Edges PROVE notified[e] \in Nat /\ Counted(e) = notified[e] + Cardinality(Due(e))
    BY DEF IInv, TypeOK, Counted, Due
  <2>. QED
    BY <2>1, DueFinite
<1>2. co \in Edges /\ oh \in Edges /\ ho \in Edges /\ hc \in Edges
  BY DEF Edges, CircuitStates
<1>3. CASE Stays
  BY <1>2, <1>3 DEF Stays, TransitionsBalance, Legal
<1>4. ASSUME NEW m \in Legal, Moves(m) PROVE TransitionsBalance'
  <2>1. \A e \in Edges \ Legal : Counted(e)' = 0
    BY <1>4 DEF Moves, TransitionsBalance, Legal
  <2>2. /\ Counted(co)' = IF co = m THEN Counted(co) + 1 ELSE Counted(co)
        /\ Counted(oh)' = IF oh = m THEN Counted(oh) + 1 ELSE Counted(oh)
        /\ Counted(ho)' = IF ho = m THEN Counted(ho) + 1 ELSE Counted(ho)
        /\ Counted(hc)' = IF hc = m THEN Counted(hc) + 1 ELSE Counted(hc)
    BY <1>2, <1>4 DEF Moves
  <2>3. /\ Counted(co) = Counted(hc) + IF health.state = "closed" THEN 0 ELSE 1
        /\ Counted(oh) = Counted(hc) + Counted(ho) + IF health.state = "half_open" THEN 1 ELSE 0
    BY DEF TransitionsBalance
  <2>4. /\ Counted(co)' = Counted(hc)' + IF health'.state = "closed" THEN 0 ELSE 1
        /\ Counted(oh)' = Counted(hc)' + Counted(ho)' + IF health'.state = "half_open" THEN 1 ELSE 0
    <3>0. Counted(co) \in Nat /\ Counted(oh) \in Nat /\ Counted(ho) \in Nat /\ Counted(hc) \in Nat
      BY <1>1, <1>2
    <3>1. CASE m = co
      <4>1. health.state = "closed" /\ health'.state = "open" /\ oh # m /\ ho # m /\ hc # m
        BY <1>4, <3>1 DEF Moves
      <4>. QED
        BY <2>2, <2>3, <3>0, <3>1, <4>1
    <3>2. CASE m = oh
      <4>1. health.state = "open" /\ health'.state = "half_open" /\ co # m /\ ho # m /\ hc # m
        BY <1>4, <3>2 DEF Moves
      <4>. QED
        BY <2>2, <2>3, <3>0, <3>2, <4>1
    <3>3. CASE m = ho
      <4>1. health.state = "half_open" /\ health'.state = "open" /\ co # m /\ oh # m /\ hc # m
        BY <1>4, <3>3 DEF Moves
      <4>. QED
        BY <2>2, <2>3, <3>0, <3>3, <4>1
    <3>4. CASE m = hc
      <4>1. health.state = "half_open" /\ health'.state = "closed" /\ co # m /\ oh # m /\ ho # m
        BY <1>4, <3>4 DEF Moves
      <4>. QED
        BY <2>2, <2>3, <3>0, <3>4, <4>1
    <3>. QED
      BY <3>1, <3>2, <3>3, <3>4 DEF Legal
  <2>. QED
    BY <2>1, <2>4 DEF TransitionsBalance, Legal
<1>. QED
  BY <1>3, <1>4

\* Every change of the circuit's state is counted once by the observer, for any
\* number of callers: what notifyTransition has reported and is about to report is
\* a walk from closed to the current state.
THEOREM TransitionsBalanceTheorem == Spec => []TransitionsBalance
<1>1. Init => EdgesDue /\ TransitionsBalance
  <2> SUFFICES ASSUME Init PROVE EdgesDue /\ TransitionsBalance
    OBVIOUS
  <2>1. \A e \in Edges : Counted(e) = 0
    <3> SUFFICES ASSUME NEW e \in Edges PROVE Counted(e) = 0
      OBVIOUS
    <3>1. Due(e) = {} /\ notified[e] = 0
      BY LegalEdges DEF Init, Idle, Due
    <3>2. Cardinality(Due(e)) = 0
      BY <3>1, FS_EmptySet
    <3>. QED
      BY <3>1, <3>2 DEF Counted, Due
  <2>2. EdgesDue
    BY DEF Init, Idle, EdgesDue
  <2>3. health.state = "closed" /\ Legal \subseteq Edges
    BY LegalEdges DEF Init, NewHealth
  <2>4. TransitionsBalance
    BY <2>1, <2>3 DEF TransitionsBalance, Legal
  <2>. QED
    BY <2>2, <2>4
<1>2. IInv /\ IInv' /\ EdgesDue /\ TransitionsBalance /\ [Next]_vars
        => EdgesDue' /\ TransitionsBalance'
  BY MoveStep, WalkStep
<1>. QED
  BY <1>1, <1>2, Invariance, PTL DEF Spec

=============================================================================
