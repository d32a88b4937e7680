----------------------------- MODULE Benchmark ------------------------------
(***************************************************************************)
(* The offline benchmark (internal/benchmark): runPolicy builds a whole    *)
(* Service over simulated providers and a virtual clock, sends it one      *)
(* request after the other and writes a Result.  It composes what the      *)
(* other modules describe one by one: the circuits, the routing policies   *)
(* with the telemetry they read, and the accounting.                       *)
(*                                                                         *)
(* Providers are numbered 1, 2, ... in configured order; provider p has    *)
(* one model, so that p also stands for the accounting key.  The condition *)
(* a scenario prescribes for a provider and a request is drawn when the    *)
(* provider is asked; nothing reads it before.                             *)
(***************************************************************************)
EXTENDS Integers, ProviderHealth, Accounting, Telemetry, SequencesExt

CONSTANTS
  Scenarios,             \* what is run, see below
  MinSamples, SampleMaxAge, ExplorationInterval, Percent,  \* RoutingConfig
  Width,                 \* bits of a machine word
  Gap,                   \* Scenario.InterRequestGap
  Millisecond            \* time units in a millisecond: 1000000 in the code

(***************************************************************************)
(* A scenario and a policy.  providers: their number; streaming: its Mode; *)
(* policy; rates: the price of each provider; conditions: the values of    *)
(* ProviderCondition that occur; warmup and requests: numbers of requests; *)
(* maxModels: the capacity of the accounting.  A condition has a ttfc and  *)
(* a duration, an error ("" for none), committed: content is sent before   *)
(* the error, and the usage reported.                                      *)
(***************************************************************************)
ASSUME BenchmarkAssumption ==
  /\ ExplorationInterval \in Nat \ {0} /\ Gap \in Nat /\ Percent \in Nat
  /\ Millisecond \in Nat \ {0}
  /\ \A s \in Scenarios : \A c \in s.conditions : c.ttfc <= c.duration

Routing == INSTANCE RoutingPolicies

VARIABLES
  scenario,
  clock,       \* virtualClock
  health,      \* the circuit of each provider
  telemetry,   \* the telemetry of each provider
  explored,    \* explorationCounts of the scenario's mode
  tracker,     \* accounting.Tracker
  pc,          \* "next", "serving", "answered", "failed", "reported"
  request,     \* the request being served
  trace,       \* every attempt since the start, as attemptRecorder sees it, and its end
  result       \* Result and metricAccumulator, of the measured requests

vars == <<scenario, clock, health, telemetry, explored, tracker, pc, request, trace, result>>

Providers == 1..scenario.providers
Zero == [p \in Providers |-> 0]

NoRequest == [number |-> 0, order |-> <<>>, started |-> 0, target |-> 0, explores |-> FALSE]

NoTotal == [input |-> 0, output |-> 0, cost |-> 0]
NewResult ==
  [requests |-> 0, successes |-> 0, failures |-> 0, fallbacks |-> 0, skips |-> 0,
   exploration |-> 0, switches |-> 0, lastSelection |-> 0, postCommit |-> 0,
   initial |-> Zero, attempts |-> Zero, later |-> Zero, durations |-> <<>>, ttfcs |-> <<>>,
   fallback |-> NoTotal, unpriced |-> 0, before |-> NoTotal, total |-> NoTotal,
   p50 |-> Nil, p95 |-> Nil, ttfc50 |-> Nil, ttfc95 |-> Nil, perSuccess |-> Nil]

Init ==
  /\ scenario \in Scenarios
  /\ clock = 0
  /\ health = [p \in Providers |-> NewHealth]
  /\ telemetry = [p \in Providers |-> NewTelemetry]
  /\ explored = 0
  /\ tracker = NewTracker(scenario.maxModels, scenario.rates)
  /\ pc = "next" /\ request = NoRequest /\ trace = <<>> /\ result = NewResult

\* The virtual clock advances by d, for a circuit.
After(h, d) == [h EXCEPT !.cooldown = IF @ > d THEN @ - d ELSE 0]

-----------------------------------------------------------------------------
Configured == [p \in Providers |-> p]
EligibleProviders == SelectSeq(Configured, LAMBDA p : Eligible(health[p]))

\* relevantLatency, with the age of each sample now.
Samples(p) ==
  LET kept == RingSnapshot(telemetry[p].ring[IF scenario.streaming THEN "ttfc" ELSE "completion"])
  IN [k \in DOMAIN kept |-> [duration |-> kept[k].duration, age |-> clock - kept[k].at]]

UsesLatency == scenario.policy \in {"latency", "cost_latency"}

\* preRequestState with every sample counted, whatever its age.
ExplorationTargetOfAnyAge(eligible) ==
  LET kept(p) == Len(Samples(p))
      short == {k \in DOMAIN eligible : kept(eligible[k]) < MinSamples}
      most == {k \in short : \A l \in short : kept(eligible[k]) <= kept(eligible[l])}
  IN IF ~UsesLatency \/ most = {} \/ Min(most) = 1 THEN 0 ELSE eligible[Min(most)]

\* preRequestState: the provider that an exploring request should go to, if it
\* is not the first one anyway.  The benchmark counts samples by itself
\* (freshSampleCount) and does not ask the policy.
ExplorationTarget(eligible) ==
  LET fresh(p) == Len(SelectSeq(Samples(p), LAMBDA x : x.age <= SampleMaxAge))
      short == {k \in DOMAIN eligible : fresh(eligible[k]) < MinSamples}
      most == {k \in short : \A l \in short : fresh(eligible[k]) <= fresh(eligible[l])}
  IN IF ~UsesLatency \/ most = {} \/ Min(most) = 1 THEN 0 ELSE eligible[Min(most)]

\* Service.orderedProviders; the deterministic policy does not rank.
BeginRequest ==
  LET eligible == EligibleProviders
      rest == SelectSeq(Configured, LAMBDA p : ~Eligible(health[p]))
      samples == [k \in DOMAIN eligible |-> Samples(eligible[k])]
      rates == [k \in DOMAIN eligible |-> scenario.rates[eligible[k]]]
      exploring == /\ UsesLatency /\ Len(eligible) > 1
                   /\ Routing!ExplorationCandidate(samples) # 0
      due == exploring /\ explored + 1 >= ExplorationInterval
      ranks == Routing!PolicyOrder(scenario.policy, samples, rates, Percent, due)
      ranked == [k \in DOMAIN ranks |-> eligible[ranks[k]]] IN
  /\ pc = "next" /\ request.number < scenario.warmup + scenario.requests
  /\ pc' = "serving"
  /\ explored' = IF due THEN 0 ELSE IF exploring THEN explored + 1 ELSE explored
  /\ request' = [number |-> request.number + 1,
                 order |-> IF scenario.policy = "deterministic" THEN Configured ELSE ranked \o rest,
                 started |-> clock, target |-> ExplorationTarget(eligible),
                 explores |-> due /\ ranked[1] # eligible[1]]
  /\ result' = IF request.number < scenario.warmup THEN result
               ELSE [result EXCEPT !.skips = @ + Len(rest)]
  /\ UNCHANGED <<scenario, clock, health, telemetry, tracker, trace>>

-----------------------------------------------------------------------------
\* classifyProviderOutcome, of a request whose client stays.
Outcome(error) ==
  CASE error = ""         -> "success"
    [] error = "canceled" -> "cancellation"
    [] OTHER              -> error

RetryableKinds == {"timeout", "unavailable", "rate_limited"}

RecordHealthOutcome(h, a, outcome) ==
  CASE outcome = "success"         -> Success(h, a)
    [] outcome \in RetryableKinds  -> Failure(h, a)
    [] OTHER                       -> Ignore(h, a)

\* A stream has content unless it fails before.
HasContent(c) == c.error = "" \/ c.committed

\* What the gateway measures of an attempt under the condition c: firstContent
\* when there is content, and the end.
Measure(t, c) ==
  LET end == clock + c.duration
      begun == TelemetryBegin(t) IN
  IF ~scenario.streaming THEN FinishNonStreaming(begun, Outcome(c.error), c.duration, end)
  ELSE FinishStreaming(IF HasContent(c) THEN FirstContent(begun, c.ttfc, clock + c.ttfc)
                       ELSE begun,
                       Outcome(c.error), c.duration, end)

\* The next provider is admitted and asked: the recorder notes it, the clock
\* advances while it works, and accounting, circuit and telemetry learn the end.
\* A retryable error before anything was sent leads on to the next provider.
Ask ==
  LET p == Head(request.order) IN
  /\ pc = "serving" /\ request.order # <<>> /\ Admits(health[p])
  /\ \E c \in scenario.conditions :
       LET outcome == Outcome(c.error)
           again == outcome \in RetryableKinds /\ ~(scenario.streaming /\ c.committed)
       IN /\ clock' = clock + c.duration
          /\ health' = [q \in Providers |->
               IF q # p THEN After(health[q], c.duration)
               ELSE RecordHealthOutcome(After(Begin(health[p]), c.duration),
                                        BeginAttempt(health[p]), outcome)]
          /\ telemetry' = [telemetry EXCEPT ![p] = Measure(@, c)]
          /\ tracker' = Record(tracker, p, c.usage)
          /\ trace' = Append(trace,
               [number |-> request.number, provider |-> p, condition |-> c, outcome |-> outcome,
                start |-> clock, cost |-> Cost(tracker, p, c.usage),
                explores |-> request.explores])
          /\ pc' = IF outcome = "success" THEN "answered" ELSE IF again THEN pc ELSE "failed"
          /\ request' = [request EXCEPT !.order = Tail(@)]
  /\ UNCHANGED <<scenario, explored, result>>

\* The circuit refuses, or there is no provider left.
Skip ==
  /\ pc = "serving"
  /\ IF request.order = <<>> THEN pc' = "failed" /\ UNCHANGED request
     ELSE /\ ~Admits(health[Head(request.order)])
          /\ request' = [request EXCEPT !.order = Tail(@)] /\ UNCHANGED pc
  /\ UNCHANGED <<scenario, clock, health, telemetry, explored, tracker, trace, result>>

-----------------------------------------------------------------------------
\* The attempts of the request that has just been served.
Records == SelectSeq(trace, LAMBDA r : r.number = request.number)

\* A sum or a difference of uint64.
Word(n) == n % (MaxUint64 + 1)

\* totalAccounting
Total ==
  LET sum(f) == Word(FoldSet(LAMBDA k, n : tracker.models[k].figure[f] + n, 0, DOMAIN tracker.models))
  IN [input |-> sum("input"), output |-> sum("output"), cost |-> sum("cost")]

\* addFallbackEconomics, from the condition; the provider is priced again.
FallbackOf(r) ==
  LET u == r.condition.usage IN
  [input |-> IF u = NoUsage THEN 0 ELSE Reported(u.input),
   output |-> IF u = NoUsage THEN 0 ELSE Reported(u.output),
   cost |-> Reported(EstimateMicroUSD(u, scenario.rates[r.provider]))]

Plus(a, b) ==
  [input |-> Word(a.input + b.input), output |-> Word(a.output + b.output),
   cost |-> Word(a.cost + b.cost)]

\* What runPolicy adds to the metrics after a measured request.
Tally(res, records, success) ==
  LET n == Len(records)
      first == IF n = 0 THEN 0 ELSE records[1].provider
      later == IF n = 0 THEN <<>> ELSE Tail(records)
      count(seq, p) == Len(SelectSeq(seq, LAMBDA r : r.provider = p))
      begun == scenario.streaming /\ n > 0 /\ HasContent(records[n].condition) IN
  [res EXCEPT
     !.requests = @ + 1,
     !.successes = IF success THEN @ + 1 ELSE @,
     !.failures = IF success THEN @ ELSE @ + 1,
     !.fallbacks = IF n > 1 THEN @ + 1 ELSE @,
     !.durations = Append(@, clock - request.started),
     !.ttfcs = IF begun
               THEN Append(@, records[n].start + records[n].condition.ttfc - request.started) ELSE @,
     !.postCommit = IF begun /\ ~success THEN @ + 1 ELSE @,
     !.attempts = [p \in Providers |-> @[p] + count(records, p)],
     !.initial = [p \in Providers |-> IF p = first THEN @[p] + 1 ELSE @[p]],
     !.later = [p \in Providers |-> @[p] + count(later, p)],
     !.switches = IF first # 0 /\ res.lastSelection \notin {0, first} THEN @ + 1 ELSE @,
     !.lastSelection = IF first # 0 THEN first ELSE @,
     !.exploration = IF first # 0 /\ first = request.target THEN @ + 1 ELSE @,
     !.fallback = FoldSeq(LAMBDA r, sum : Plus(sum, FallbackOf(r)), @, later),
     !.unpriced = @ + Len(SelectSeq(later, LAMBDA r :
                    EstimateMicroUSD(r.condition.usage, scenario.rates[r.provider]) = Nil))]

\* The request is over; the metrics of a measured one are taken, the ones of a
\* warm-up request are not; the accounting is read before the first measured one.
FinishRequest ==
  /\ pc \in {"answered", "failed"}
  /\ pc' = "next"
  /\ result' = CASE request.number < scenario.warmup -> result
                 [] request.number = scenario.warmup -> [result EXCEPT !.before = Total]
                 [] OTHER -> Tally(result, Records, pc = "answered")
  /\ clock' = clock + Gap
  /\ health' = [p \in Providers |-> After(health[p], Gap)]
  /\ request' = [NoRequest EXCEPT !.number = request.number]
  /\ UNCHANGED <<scenario, telemetry, explored, tracker, trace>>

\* percentileMilliseconds that rounds the rank down.
PercentileRoundedDown(values, percentile) ==
  LET n == Len(values)
      rank == Max({1, (percentile * n) \div 100})
  IN IF n = 0 THEN Nil ELSE SortSeq(values, <)[rank] \div Millisecond

\* percentileMilliseconds: whole milliseconds, the rest is cut off.
Percentile(values, percentile) ==
  LET n == Len(values)
      rank == (percentile * n + 99) \div 100
  IN IF n = 0 THEN Nil ELSE SortSeq(values, <)[rank] \div Millisecond

\* roundedQuotient
RoundedQuotient(n, d) == n \div d + (IF n % d >= (d + 1) \div 2 THEN 1 ELSE 0)

\* finish; the percentiles of durations are those of latencies or of
\* streamDurations, after the Mode.
Report ==
  LET after == Total
      total == [f \in DOMAIN after |-> Word(after[f] - result.before[f])] IN
  /\ pc = "next" /\ request.number = scenario.warmup + scenario.requests
  /\ pc' = "reported"
  /\ result' = [result EXCEPT
       !.total = total,
       !.p50 = Percentile(result.durations, 50), !.p95 = Percentile(result.durations, 95),
       !.ttfc50 = Percentile(result.ttfcs, 50), !.ttfc95 = Percentile(result.ttfcs, 95),
       !.perSuccess = IF result.successes = 0 THEN Nil
                      ELSE RoundedQuotient(total.cost, result.successes)]
  /\ UNCHANGED <<scenario, clock, health, telemetry, explored, tracker, request, trace>>

Next == BeginRequest \/ Ask \/ Skip \/ FinishRequest \/ Report

Spec == Init /\ [][Next]_vars

-----------------------------------------------------------------------------
Of(p) == SelectSeq(trace, LAMBDA r : r.provider = p)
Exact(k, f) ==
  FoldSeq(LAMBDA r, n : Adds(r.condition.usage, r.cost)[f] + n, 0, Of(k))

\* What each ring of a provider holds, given the calls that were made to it: the
\* last samples of its kind, oldest first, before and after it wraps around.  A
\* stream that failed before its first content has left none for the policy.
RingsHoldLatest(p) ==
  LET all == Of(p)
      streamed == SelectSeq(all, LAMBDA r : HasContent(r.condition))
      whole(seq) == [i \in DOMAIN seq |->
        Sample(seq[i].condition.duration, seq[i].start + seq[i].condition.duration)]
      opening(seq) == [i \in DOMAIN seq |->
        Sample(seq[i].condition.ttfc, seq[i].start + seq[i].condition.ttfc)]
      latest(seq) == SubSeq(seq, Max({1, Len(seq) - Capacity + 1}), Len(seq))
      expected == IF scenario.streaming
                  THEN [completion |-> <<>>, ttfc |-> opening(streamed), duration |-> whole(all)]
                  ELSE [completion |-> whole(all), ttfc |-> <<>>, duration |-> <<>>]
  IN \A k \in Rings : RingSnapshot(telemetry[p].ring[k]) = latest(expected[k])

\* latencyRing, durationRing, record and runPolicy: along every history of
\* successes, failures and cancellations, the records of what a provider was
\* asked agree with the calls that were really made: its telemetry (the latest
\* samples, and each attempt a success, a cancellation or a failure of one
\* kind), the accounting, and, between two requests, the attempts and selections
\* in the benchmark's result together with the warm-up.
AttemptsAgree ==
  /\ result.requests = result.successes + result.failures
  /\ \A p \in Providers :
       LET c == telemetry[p].counter
           calls == Of(p) IN
       /\ RingsHoldLatest(p)
       /\ c["attempts"] = Len(calls)
       /\ c["attempts"] = c["successes"] + c["failures"] + c["cancellations"]
       /\ c["failures"] = FoldSet(LAMBDA k, n : c[k] + n, 0, FailureOutcomes)
       /\ p \in DOMAIN tracker.models =>
            tracker.models[p].figure["attempts"] = Min({Len(calls), MaxUint64})
       /\ pc \in {"next", "reported"} =>
            /\ result.attempts[p] =
                 Len(calls) - Len(SelectSeq(calls, LAMBDA r : r.number <= scenario.warmup))
            /\ result.attempts[p] = result.initial[p] + result.later[p]

\* preRequestState and candidateMedians: the benchmark's own rule for what is an
\* exploration finds exactly the measured requests that the policy sent to an
\* alternate provider in order to explore it, however the samples age and the
\* circuits open and close.  A provider that never yields a sample, because it
\* fails before its first content, is explored for ever, but by no more than
\* one request in ExplorationInterval.
ExplorationAgrees ==
  LET explorations == {m \in 1..request.number :
                         \E i \in DOMAIN trace : trace[i].number = m /\ trace[i].explores}
  IN /\ pc \in {"next", "reported"} =>
          result.exploration = Cardinality({m \in explorations : m > scenario.warmup})
     /\ \A m, n \in explorations : m < n => m + ExplorationInterval <= n

\* failure and begin in circuit.go: a provider whose calls fail one after the
\* other in a way that degrades it is left alone for OpenDuration after the
\* failure that reaches the threshold, and after each one that follows.  So a
\* provider that fails fast, which the latency policy takes for a fast one and
\* puts first, is not asked by every request.
FailuresContained ==
  \A p \in Providers :
    LET calls == Of(p) IN
    \A k \in (FailureThreshold + 1)..Len(calls) :
      (\A j \in (k - FailureThreshold)..(k - 1) : calls[j].outcome \in RetryableKinds) =>
        calls[k].start >= calls[k - 1].start + calls[k - 1].condition.duration + OpenDuration

\* finish and addFallbackEconomics: the totals, taken from the accounting, are
\* those of the fallback attempts, computed from the scenario, and of the first
\* attempts together, both as uint64, unless a figure saturated or a model was
\* not tracked.  Counted in whole milliseconds, half of the requests, and 95% of
\* them, lasted no longer than the percentile given, and fewer lasted less; so
\* too their first contents, one for each success and for each failure after
\* content.  The cost of a success is rounded to the nearest.
ReportAgrees ==
  pc = "reported" =>
    LET isFirst(i) == i = 1 \/ trace[i - 1].number # trace[i].number
        firsts == {i \in DOMAIN trace : trace[i].number > scenario.warmup /\ isFirst(i)}
        first == FoldSet(LAMBDA i, sum : Plus(sum, FallbackOf(trace[i])), NoTotal, firsts)
        exact == /\ tracker.dropped = 0
                 /\ \A k \in DOMAIN tracker.models : ~tracker.models[k].overflowed
        upTo(d, v) == 100 * Len(SelectSeq(d, LAMBDA x : x \div Millisecond <= v))
        below(d, v) == 100 * Len(SelectSeq(d, LAMBDA x : x \div Millisecond < v))
        nearest(d, v, q) == upTo(d, v) >= q * Len(d) /\ below(d, v) < q * Len(d)
        opened == result.ttfcs IN
    /\ exact => result.total = Plus(first, result.fallback)
    /\ nearest(result.durations, result.p50, 50) /\ nearest(result.durations, result.p95, 95)
    /\ IF opened = <<>> THEN result.ttfc50 = Nil
       ELSE nearest(opened, result.ttfc50, 50) /\ nearest(opened, result.ttfc95, 95)
    /\ scenario.streaming => Len(opened) = result.successes + result.postCommit
    /\ result.successes > 0 =>
         LET error == 2 * (result.perSuccess * result.successes - result.total.cost)
         IN result.successes >= error /\ error > -result.successes

\* The cost of a call, in millionths of a micro-USD.
Numerator(r) ==
  r.condition.usage.input * scenario.rates[r.provider].input
    + r.condition.usage.output * scenario.rates[r.provider].output

\* EstimateMicroUSD and saturatingAdd: a cost is estimated exactly when the
\* usage is complete, adds up and is priced and the computation fits a machine
\* word, and it is then the amount nearest to the exact one.  Every figure of a
\* model that is tracked is the exact sum over its calls or the largest word if
\* that is less, and overflowed says, from the first time on, whether some
\* figure has been cut.
FiguresExactOrFlagged ==
  /\ \A i \in DOMAIN trace :
       LET r == trace[i]
           u == r.condition.usage
           sound == /\ Complete(u) /\ u.total = u.input + u.output
                    /\ Nil \notin {scenario.rates[r.provider].input, scenario.rates[r.provider].output}
       IN /\ r.cost # Nil <=> sound /\ Numerator(r) + TokensPerMillion \div 2 <= MaxUint64
          /\ r.cost # Nil =>
               /\ 2 * r.cost * TokensPerMillion <= 2 * Numerator(r) + TokensPerMillion
               /\ 2 * Numerator(r) <= 2 * r.cost * TokensPerMillion + TokensPerMillion
  /\ \A k \in DOMAIN tracker.models :
       /\ \A f \in Figures : tracker.models[k].figure[f] = Min({Exact(k, f), MaxUint64})
       /\ tracker.models[k].overflowed <=> \E f \in Figures : Exact(k, f) > MaxUint64

=============================================================================
