----------------------------- MODULE Telemetry ------------------------------
(***************************************************************************)
(* What the gateway measures of one provider                               *)
(* (internal/gateway/telemetry.go) as a value: counters of outcomes and    *)
(* three bounded rings of durations.  The operators are what the methods   *)
(* of telemetryAttempt do under the provider's lock, given the time they   *)
(* have read before.                                                       *)
(***************************************************************************)
EXTENDS Naturals, Sequences

CONSTANTS
  Capacity,         \* length of a ring: defaultTelemetrySampleCapacity
  FailureOutcomes   \* the kinds of failure that are told apart

ASSUME TelemetryAssumption == Capacity \in Nat

Rings == {"completion", "ttfc", "duration"}
Counters == {"attempts", "successes", "failures", "cancellations"} \cup FailureOutcomes

\* LatencySample.  (durationRing keeps no instants; nothing reads them here.)
Sample(duration, now) == [duration |-> duration, at |-> now]

\* latencyRing and durationRing; indices count from 0.
EmptyRing == [values |-> [i \in 0..(Capacity - 1) |-> Sample(0, 0)], next |-> 0, count |-> 0]

\* add with the position not wrapped around.
RingAddUnwrapped(r, x) ==
  IF Capacity = 0 THEN r
  ELSE [values |-> [r.values EXCEPT ![r.next] = x],
        next |-> IF r.next + 1 < Capacity THEN r.next + 1 ELSE r.next,
        count |-> IF r.count < Capacity THEN r.count + 1 ELSE r.count]

\* latencyRing.add, durationRing.add
RingAdd(r, x) ==
  IF Capacity = 0 THEN r
  ELSE [values |-> [r.values EXCEPT ![r.next] = x],
        next |-> (r.next + 1) % Capacity,
        count |-> IF r.count < Capacity THEN r.count + 1 ELSE r.count]

\* latencyRing.snapshot, durationRing.snapshot: the oldest sample first
RingSnapshot(r) ==
  LET start == IF r.count = Capacity THEN r.next ELSE 0
  IN [i \in 1..r.count |-> r.values[(start + i - 1) % Capacity]]

\* newTelemetryTracker, for one provider
NewTelemetry == [counter |-> [c \in Counters |-> 0], ring |-> [k \in Rings |-> EmptyRing]]

Count(t, S) == [t EXCEPT !.counter = [c \in Counters |-> IF c \in S THEN @[c] + 1 ELSE @[c]]]

-----------------------------------------------------------------------------
\* begin
TelemetryBegin(t) == Count(t, {"attempts"})

\* firstContent
FirstContent(t, duration, now) ==
  [t EXCEPT !.ring["ttfc"] = RingAdd(@, Sample(duration, now))]

\* recordOutcome
RecordOutcome(t, outcome) ==
  Count(t, CASE outcome = "success"      -> {"successes"}
             [] outcome = "cancellation" -> {"cancellations"}
             [] OTHER                    -> {"failures", outcome})

\* finishNonStreaming and finishStreaming; a failure is a sample like any other.
FinishNonStreaming(t, outcome, duration, now) ==
  [RecordOutcome(t, outcome) EXCEPT !.ring["completion"] = RingAdd(@, Sample(duration, now))]
FinishStreaming(t, outcome, duration, now) ==
  [RecordOutcome(t, outcome) EXCEPT !.ring["duration"] = RingAdd(@, Sample(duration, now))]
=============================================================================
