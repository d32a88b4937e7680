# RouteForge in TLA+

RouteForge is an LLM gateway in Go: clients send OpenAI-style chat requests, and
the gateway answers them from one of several providers, with circuit breakers,
fallback, routing policies, a response cache, a request history in PostgreSQL and
a control plane. This directory specifies the parts of it where steps of several
goroutines, failures half way, or arithmetic at the edge of a machine word decide
whether it is right. TLC checks the specifications on small instances; TLAPS
proves the safety properties of all components but the routing policies' orders and
the benchmark for every instance.

`PROJECT.json` lists the components, the runs, the line of code behind each
definition, the hazards the properties are aimed at, one plausible bug per
property that makes it fail, and the theorems.

## The system

| Part | State | Operations | Met by |
|---|---|---|---|
| Circuit breaker (`gateway/circuit.go`) | per provider: state, generation, failures, openUntil, trial in flight | begin, success, failure, ignore, eligible, notify | every request, concurrently |
| Request path (`gateway/service.go`, `outcome.go`, `persistence.go`, `cache.go`) | per request: iteration, committed, last error, history | Complete, Stream, fallback, cache lookup and store, finish | HTTP handlers; uses circuits, cache, adapters, recorder |
| Provider adapters (`provider/openai`, `provider/anthropic`, `sse.go`, `http.go`) | the event being read, merged usage, sentRole | Complete, Stream, Next, Close | the request path |
| HTTP API (`httpapi/*.go`) | status, committed, outcome | chatCompletions, streamChatCompletions, TraceRequests | the client |
| Idle watchdog (`provider/stream_idle.go`) | timer, activity channel, context | Activity, run, Stop | the adapters' streams |
| Routing policies (`gateway/routing.go`) | none (pure), exploration counters | order | the request path |
| Runtime routing (`gateway/runtime_routing.go`) | the current version, an atomic pointer | UpdateRoutingSettings, BindRouting | admin API, every request |
| Telemetry (`gateway/telemetry.go`) | counters, rings of samples | begin, firstContent, finish | every attempt; read by routing |
| Accounting (`accounting/*.go`) | aggregates per model, prices | Record, SetPrices, EstimateMicroUSD | every attempt |
| History recorder (`persistence/recorder.go`) | queue, accepting, worker, counters | Submit, run, Shutdown | every request; main |
| History store (`persistence/postgres/*.go`, history endpoints of `adminapi`) | schema versions, rows of requests and attempts, advisory lock | Open/migrate, Write, List, Detail | gateway processes, administrators, operators |
| Process (`cmd/routeforge/main.go`) | where main is | signal, shutdown, exit | the recorder |
| Admin sessions (`adminapi/auth.go`) | session table, login window | login, logout, check | control plane requests |
| Benchmark (`benchmark/*.go`) | a result, and a whole service on a virtual clock | runPolicy, metrics | offline; drives circuits, policies, telemetry, accounting |
| Load test (`loadtest/*.go`) | shared index, result channel, scraped counters | Run, phase, request, settledCounters, samplePersistence | a gateway process over HTTP |
| Not modelled | | | see the end |

What makes it hard, and what the properties say about it:

* outcomes of attempts come back after the circuit has moved on, and a trial
  whose client leaves must be given back;
* a request may be cancelled at any moment, and the code looks at the context
  only at certain places;
* after the first byte of a stream there is no way back: no fallback to another
  provider, no error document;
* a stream that breaks off must not look complete;
* a channel that is closed while others send on it, and a shutdown that has a
  deadline;
* settings replaced without a lock while requests run;
* a `select` that finds a timer and the signal of a read ready at once;
* a write that times out at the client and commits at the database, pages through
  a table that changes, and releases that start together on one database;
* routing that reads what earlier calls left behind: failures that look fast,
  providers without samples, circuits that hide them;
* a measurement that attributes a server's counters to its own requests while
  abandoned ones still run.

## The modules

`A <- B` reads: module A extends B.

| Module | Models | State and actions |
|---|---|---|
| `ProviderHealth` | the critical sections of `circuit.go` as operators on a `providerHealth` value | `Begin`, `Success`, `Failure`, `Ignore`, `Eligible`; a deadline is a countdown (`cooldown`, `Elapse`) |
| `Circuit` <- `ProviderHealth` | one circuit and its callers | `BeginCall`, `SuccessCall`, `FailureCall`, `IgnoreCall`, then `Notify` after the unlock; `Tick` |
| `Breaker` | abstract: who may hold the trial | refined by `Circuit` |
| `CircuitProofs` | theorems about `Circuit` | |
| `Gateway` <- `ProviderHealth` | `Complete` and `Stream` for concurrent requests over shared circuits and cache | one action per stretch of the handler between two reads of shared state or of the context: `Visit`, `CacheHit`, `BeginAttemptAt`, `CallFails` (the error is classified), `RecordFailure` (the circuit learns of it), `Emit`, `EmitFails`, `StreamEnds`, `Decide`, `Store`, `Finish`, ...; `Cancel`, `Tick`, `Expire` are the environment. `service`, chosen in `Init` and never changed, is the configuration |
| `GatewayProofs` <- `Gateway` | the inductive invariant, and the theorems that follow from it | |
| `ChatRequest` | abstract: what the client of a request is promised: content from one provider, one end, and the answer credited to that provider | refined by `Gateway` |
| `ProviderStream` | the SSE reader and both adapters | `ReadLine`, `OpenAINext`, `AnthropicNext`, `MergeUsage`, `OpenFails`, `Close` |
| `ChatResponse` | the response writer, the handlers' ends, the metric's outcome | `EmitFrame`, `EndStream`, `EndCompletion`, `CountRequest` |
| `ChatStream` <- both | one request from handler to bytes and back | `Read`, `BodyEnds`, `Emit`, `Respond`, `Trace`, ...; `ClientLeaves`, `WatchdogFires` |
| `ChatStreamProofs` <- `ChatStream`; instance of `StreamIdle` | theorems about both | |
| `StreamIdle` | the watchdog, the reading request, timer and contexts | `DogRestarts`, `DogFires`, `DogStopped`, `Read` and then `Signal`, `StopCancels`, ... |
| `RoutingPolicies`, `RoutingDecision` | the four policies as operators, and reference definitions | one decision per behaviour |
| `RuntimeRouting` | replacing settings under running requests | `BeginUpdate`, `Publish`, `Reply`, `Bind`, `BeginHistory`, `Route`, ... |
| `RuntimeRoutingProofs` <- `RuntimeRouting`; instance of `RoutingPolicies` | theorems about both | |
| `Telemetry` | a provider's counters and rings as operators | `TelemetryBegin`, `FirstContent`, `FinishNonStreaming`, `FinishStreaming`, `RingAdd`, `RingSnapshot` |
| `Accounting` | saturating aggregates, cost estimates, as operators | `NewTracker`, `Record`, `EstimateMicroUSD` |
| `Benchmark` <- `ProviderHealth`, `Telemetry`, `Accounting`; instance of `RoutingPolicies` | `runPolicy`: requests one after the other through a whole service; `trace` remembers every call made | `BeginRequest`, `Ask`, `Skip`, `FinishRequest`, `Report` |
| `Migrations` | starting processes that migrate one database | `Open`, `Lock`, `Check`, `Apply`, `Commit`; `Stop` at any point |
| `HistoryStore` <- `Migrations` | `Store.Write`, the list and the detail of the history, deletions | `Write`, `CommitBatch`, `DropBatch`, `WriteSucceeds`, `WriteFails`; `StartWalk`, `Page`; `DetailBegin`, `DetailEnd`; `Delete` |
| `HistoryStoreProofs` <- `HistoryStore` | theorems about both | |
| `LoadTest` | client, server and counters of one load test | `PrimeEnds`, `Take`, `CallEnds`, `Send`, `Receive`, `CloseResults`, `PhaseEnds`, `Scrape`, `Retry`, `WarmupSettles`, `MeasurementSettles`; the server's `Arrive`, `Lookup`, `Work`, `Abandon`, `CountRequest`, `SaveHistory`, `Restart`; `EntryExpires` in its cache |
| `LoadTestProofs` <- `LoadTest` | theorems about it | |
| `AsyncRecorder` | Submit, worker, Shutdown | Submit in three steps (check, send, observe), the worker in seven |
| `GracefulShutdown` <- `AsyncRecorder` | the process around it | `Signal`, `StopRecorder`, `Exit` |
| `AsyncRecorderProofs` <- `GracefulShutdown` | theorems about both | |
| `AdminSessions` | the session table | login in two critical sections, `Logout`, `Check`, `Tick` |
| `AdminSessionsProofs` <- `AdminSessions` | theorems about it | |

`MC*` modules hold the values of constants for TLC. Where the code holds a lock
for a whole method, the method is one action. Where it reads shared state, lets
go, and reads it again (eligible before begin, login's two sections, the
notification after the unlock, a scrape of many counters), there are several.

Definitions whose comment describes code that is *not* RouteForge's (a dropped
guard, a missing reset) are the mutants that `PROJECT.json` lists: each replaces
the definition after it and makes one property fail.

### Abstractions that matter

* Contents are left out. In `Gateway` a response is known by the provider that
  produced it, and all requests ask for the same model and messages, so that a
  cache key is a provider.
* Time is counted in ticks. Circuits and watchdog use countdowns.
* A ranking policy may return any order of the eligible providers in `Gateway`;
  which one it returns is the subject of `RoutingDecision`.
* In `ProviderStream` a JSON document is the record of the fields `Next` reads.
  An event's data may be split over several data lines, which then decode to any
  document or to none. Data lines are not empty. The size limit counts lines and
  the newlines between them.
* In `ChatStream` a write to the client succeeds, fails after some bytes, or
  fails with none, and once one has failed no later one succeeds (net/http).
* In `HistoryStore` a record is a number, in the order of the request ids, with the
  instant of its start and a figure per attempt. A filter is the set of records it
  matches. PostgreSQL is external: batches are transactions, a repeatable read sees
  one snapshot, deleting a request deletes its attempts, timestamps keep whole
  microseconds. An administrator makes one walk or one look per behaviour, since
  reads do not affect each other.
* In `Benchmark` the condition that a scenario prescribes for a call is drawn when
  the call is made: the run covers all scenarios over a set of conditions. Durations
  are reported in whole milliseconds, cut off, as in the code; `Millisecond` is the
  number of clock units in one. Sums and differences of `uint64` wrap (`Word`); counts
  of requests come nowhere near. The rates and averages of the result, floating-point
  quotients of its figures, are left out.
* In `LoadTest` a counter of the server is the number of requests in certain states,
  and one scrape of `/metrics` is two steps, with any steps of the server between
  the first counter read and the last. A call may fail or be given up at any point;
  the server's work for it goes on, with a context that has ended. The server may
  restart once. Its cache is kept by Redis: it may hold entries of an earlier test
  (`leftover`), and entries may expire at any moment (`expiry`).
* In `RuntimeRouting` a document has the upper limits that `UpdateRoutingSettings`
  checks (`MaxInterval`, `MaxPercent`); the settings of the environment, which
  `config.Load` and `newRoutingPolicy` check, have none.
* In `StreamIdle` a timer that is stopped or reset holds no stale value, as in the
  version of Go that the module file asks for: the drain after `Stop` finds nothing.
* `MaxUint64` is a parameter wherever overflow matters.
* `generation` of the circuit is unbounded; the run bounds it. At 64 bits it does
  not wrap in practice.

## The runs

Times are for two workers.

| Run | Bounds | Shows |
|---|---|---|
| `circuit` | 3 callers, threshold 2, cooldown 2, generation up to 8 | `TrialExclusive`: one trial, and the flag says so exactly while it lasts; `ClosedBelowThreshold`; `TransitionsBalance`: the transitions announced and those not yet announced account for the state, although notifications overtake each other; `NeverLockedOut`; `ImplementsBreaker`. Two callers can contend for a trial while a third reports a stale outcome. 4 s |
| `gateway` | 6 configurations, up to 3 requests, 1 to 3 providers, threshold 1; 0.5 million states | `FallbackJustified`: fallback only for retryable errors, and at most one attempt after the client left; `RecordConsistent`; `TrialsAccounted`: trials are given back on every exit; `CancellationNeutral`: nothing counts against a provider but a retryable error of its own that came back while the client was there; a client that leaves between the classification and the update of the circuit leaves too late; `HandlersEnd`: a handler can always go on and every step brings it closer to its end; `ImplementsChatRequest`. The configurations are: ranked, configured order with a cache, configured order with gaps in mapping and streaming, three requests for the trial of one explicit provider, an explicit one without mapping, and a logical model that nobody knows. Requests are symmetric. 1 min |
| `chat_stream` | 6 lines, i.e. three events with a blank line each; events of at most 2 data lines; counts up to 3 | `CompletionIsEarned` (with the metric's outcome), `OneResponse`, `UsageIsLatest`, `NothingLeaks`. Three events are what a total needs to become stale (input, output, corrected output), and the documents include one whose sum overflows. 20 s |
| `recorder` | 3 records, capacity 1 | `NoSendOnClosed`, `CountersBalance`, `AcceptedIsReported`: every accepted record is reported unless the deadline of the shutdown has passed; `ExitReached`. With capacity 1 and 3 records the queue is full, empty and closed in every combination with the worker. 5 s |
| `shutdown_loss` | 3 records, capacity 2 | a violation, see Findings |
| `routing_decision` | 1 to 4 candidates, a grid of samples, prices and tolerances, words of 7 bits | each policy's order is the one its reference definition describes: `CostOrderStable`, closest to the configured order that respects price dominance, in which a provider passes another that it does not dominate only if that one waits for its dominator; `LatencyOrderJustified`, exploring the neediest candidate and switching only for a margin of a tenth; `ToleranceBeforePrice`, the same order by price inside the tolerance, computed without overflow. 40 s |
| `runtime_routing` | 2 writers, 2 clients, 5 decisions, 6 documents of which 3 are refused, and an environment whose interval and tolerance no document may have; 0.4 million states | `OneVersionPerRequest`, and that version is the environment's or one whole valid document; `WarmUpNotStarved`: exploration due at the latest after the longest interval. 20 s |
| `stream_idle` | timeout of 3 ticks, 2 chunks pending | `NeverFiresEarly`: the watchdog cancels after a timeout without a read, or in the moment in which a read signals or its signal waits, when `select` may take either; `EveryWaitEnds`: every read from a silent upstream and every Close comes to its end. 1 s |
| `admin_sessions` | 2 concurrent logins, 4 keys, 2 places | `SessionsEnd`: the table stays bounded; a session that was logged out, replaced or has expired never admits anybody. 4 s |
| `benchmark` | 2 providers, 3 measured requests after up to 1 of warm-up, all policies, both modes, 5 conditions each, rings of 2, words of 5 bits for accounting and 7 for routing | the records of what providers were asked agree with the calls made: `AttemptsAgree` (telemetry, accounting, result), `ExplorationAgrees` (the benchmark's rule against the policy's, and no more than one exploration in an interval), `FailuresContained` (a degrading provider is left alone while its circuit is open, even if it looks fastest), `ReportAgrees` (totals as `uint64`, percentiles of durations and of first contents in whole milliseconds, failures after content), `FiguresExactOrFlagged`. Four calls of a provider wrap its rings, trip its circuit (threshold 2) and saturate its figures. 70 s |
| `history_store` | 2 processes of releases 1 and 2, 4 records (two in one microsecond, one not representable, one with more attempts than the detail shows), pages of 2, 2 filters; 1.2 million states | `MigrationsSerialize`, `RecordsWhole`, `PagesComplete`, `NewerRefused`. A page of two ends between the two records of one microsecond when the later one is there. 1 min |
| `load_test` | 1 or 2 workers, 1 or 2 measured requests after a warm-up of 1, each cache mode, with a failing cache, with a history, with entries of an earlier test and entries that expire; 0.7 million states | `SamplesAccounted`, `ReportExact`, `VerifiedIsTrue`, `RunEnds`. `VerifiedIsTrue` in both directions: the mode is never claimed wrongly, whatever the cache holds or loses, and it is claimed after every settled run without failures if the entry of priming lasts and no earlier test has stored the measured requests. One worker with two results exceeds its channel; a call of the measurement that is given up still runs while the counters settle. 90 s |

Deadlock is not checked where a behaviour may end: requests are finite in number,
a body has a bounded number of lines, clocks are bounded, tests end.

### Fairness

* `circuit`: callers at a provider eventually report (provider calls have a timeout,
  streams a watchdog), a method that has unlocked the mutex runs to its end, and the
  clock advances. Nothing obliges a caller to begin.
* `gateway`: none. `HandlersEnd` states termination without it: as long as a request
  has not ended its handler has a step, whatever the other requests do, and every
  step except the forwarding of a chunk decreases a bound. Steps are Go statements and
  calls that return: the adapters' calls end by timeout, watchdog or context.
* `recorder`: main goes on, deadlines pass, and a submitter inside the mutex
  leaves it. Nothing is assumed of the store. `AcceptedIsReported` adds that the
  worker goes on, since `Store.Write` is given a context with a timeout.
* `stream_idle`: the clock, the goroutine of the watchdog, and the request.
  Nothing is assumed of the upstream.
* `load_test`: the goroutines of the client go on, and calls end since they have a
  timeout. Nothing is assumed of the server. Leaving the settling loop is strongly
  fair: its expired timer stays ready beside a ticker, and a `select` that finds both
  ready again and again takes each of them.

### Findings

`shutdown_loss`: `src/docs/configuration.md:359` says "abandoned shutdown records count
as write errors". When the deadline of `Shutdown` passes, main exits without
waiting for the worker to report them, so some are not counted at all.

A second disagreement, met while writing `CostOrderStable`, has no run of its
own. `src/docs/configuration.md:157-159` says "Provider A can move ahead of
Provider B only when A's input rate and output rate are both no greater than B's and at
least one rate is strictly lower", and lines 162-165 and 191-192 that conflicting,
identical and missing rates preserve configured order, like the comment at
`gateway/routing.go:67-69`. The code orders topologically: a provider that waits for its
dominator is passed by everybody who need not wait. With the rates (10, 10), (8, 12)
and (9, 9) the order is second, third, first; the second has passed the first, though
their rates conflict. No order puts the third before the first, which it dominates, and
keeps the configured order of both conflicting pairs. `CostOrderStable` and
`ToleranceBeforePrice` state the rule that the code does follow; these rates are among
the inputs of `routing_decision`, where the document's rule in their place is violated.

Two things worth knowing that contradict no document:

* The part of `CompletionIsEarned` about the metric has an exception. If the very first write of a stream fails with
  no byte written, the handler has not committed and writes an error, but the
  tracing writer already remembers status 200; the metric then says `success`
  unless the request's context has ended.
* While the request writes to a slow client nothing is read, and the watchdog may
  end an upstream whose data keeps arriving. `NeverFiresEarly` therefore measures
  from the last read, as the code does.

## The proofs

`tlapm` checks the eight `*Proofs` modules. Each proves an inductive invariant `IInv`
of its component (THEOREM `Invariance`) and derives the properties from it. They assume
only what the modules' ASSUMEs say: positive thresholds, limits and capacities; finite
sets of records and of callers; model values that differ from the values they stand
beside (`Nothing` is neither a record nor a cursor); configurations, releases and
provider documents whose fields have their types; settings from the environment that
can be routed with (`Routable(Startup)`: a positive interval, a known policy, and a
tolerance where it needs one, which startup checks); a bound of the clock that lets a
login window end; and measured indices behind those of the warm-up (`Warmup < Offset`).
The theorems about `StreamIdle` and `RoutingPolicies` state theirs as hypotheses.

**Circuit.** For any set of callers, threshold and cooldown: `TrialExclusive`,
`ClosedBelowThreshold` and `TransitionsBalance` are invariants, `OpenLeftByTrial` and `ClosedByTrial` hold of
every step, and `Circuit` implements `Breaker`. None of the invariants is inductive
alone. That there is one trial rests on the flag `halfOpenInFlight` being set exactly
while somebody holds it (`TrialAccounted`); that the flag stays right rests on a stale
outcome not being able to touch it, which needs to know that an outstanding trial is
never stale (`TrialIsCurrent`) and that no attempt is ahead of the circuit
(`GenerationsInPast`). `IInv` is their conjunction. There is one lemma per shape of
step (`begin`, an outcome, a step that leaves circuit and attempts alone), and the
refinement maps the prober to the caller whose attempt is the current trial.
`TransitionsBalance` counts callers with an announcement to make: a step changes the
set for one edge by one caller, and the cardinality follows.

**Request path.** For any providers, any set of configurations and any number of
concurrent requests: `FallbackJustified`, `RecordConsistent`, `TrialsAccounted`,
`CancellationNeutral`, `StepsDecrease`, and `Gateway` implements `ChatRequest`. The
invariant has a part per request (`RInv`): where the request is decides what it may
have sent and which provider that came from (`Sourced`), every attempt before the last
one failed in a way that allows another and began while the client was there
(`Tried`), and how it ended is what its record says (`Ended`). A second part is per
circuit and relates its trial to the one request that is at the provider with it. The
cache holds under a provider's key only that provider's answer. An outcome that is
yet to be recorded is the one that classification gave (`CancellationNeutral` follows
from that and from what each outcome does to a circuit). Steps of one request
leave the others' parts alone, so there is one lemma per group of steps of a handler
(`WalkStep`, `OrderStep`, `PointStep`, `HitOrBeginStep`, `FinishStep`), one per effect
on a circuit (`CircuitQuiet`, `CircuitBegin`, `CircuitEnd`), and `InvNext` puts them
together.

**Recorder.** For any set of records and any capacity: no submitter can send on a
closed queue (`NoSendOnClosed`), the worker receives exactly the accepted records in
order (`InOrder`), when done is closed everything accepted has been reported
(`DoneMeansSettled`), and the store outlives the work (`StoreOutlivesWork`). The
inductive invariant says whose the mutex is, that it is held only while the recorder
accepts, that the deferred calls run on an empty closed queue, and that what is not
reported is in the queue or with the worker. `ProcessRefinesRecorder` carries this
over to the process that is shut down with a deadline. `CountersBalance` needs one
fact more, that a record is in the queue once, and counts the submitters between
their check and their report.

**History store.** For any processes, releases and records: `MigrationsSerialize`,
`RecordsWhole`, `PagesComplete` and `NewerRefused`. The lock makes the invariant inductive: only its
holder is inside the transaction, so nothing is committed between its check and its
commit, and what it has applied is exactly what was missing so far (`Migrating`). A
request that is being looked at may be deleted meanwhile, so the snapshot is related
to the request itself and not to the tables. For the pages, positions (instant and
id) are totally ordered and a page takes the latest candidates that come after its
cursor. The invariant of a walk (`WInv`) says that all that was shown lies up to the
cursor, that what must still be shown lies behind it, and that it is still in the table,
since a deletion releases it. The next cursor is the last position of a page; that there
is one rests on every set of numbers having a least element (`Least`).

**Streams.** For any documents and event types of the providers, event sizes, token
counts and lengths of a body: `CompletionIsEarned`, `OneResponse`, `UsageIsLatest` and
`NothingLeaks`. The invariant says what is open at each point of the request
(`Resources`), what the client can have read, in particular that a failed write is the
last one (`Responding`), and that three accounts of the tokens agree: the gateway's,
the Anthropic adapter's own and what the provider reported (`Accounting`).

**Watchdog.** For every timeout: `NeverFiresEarly`. Unless a read is about to signal or
its signal is waiting, the ticks left and the ticks since the last read add up to the
timeout at least; and a timer whose channel holds a value has run down.

**Runtime routing.** For any number of requests, writers and modes and any documents:
`OneVersionPerRequest` and `WarmUpNotStarved`. A version is followed from the document
to the request: a writer past the checks holds a valid document and a version with the
startup thresholds, so what it publishes is a version to route with again; a bound
request has used no other version than its own. No interval in use exceeds the longest
of the environment's and `MaxInterval`, and the counters stay below it.

**Routing policies.** `ToleranceExact`: comparing the two words of `bits.Mul64`'s
products is comparing the products, for every width. `MoveToFrontKeepsAll`: no
candidate is lost and the others keep their order. `SwitchMargin`: how the division
rounds. They take `2^Width` to be a positive number, which the provers do not know of
exponentiation.

**Admin sessions.** For any number of concurrent logins, keys, lifetimes and limits:
`SessionsEnd`. The table is tied to the history of its keys: an entry was issued and
expires a lifetime later, a revoked key was issued, and the time of issue never
changes. That the table stays within its limit is a counting argument about the second
critical section, where there is room or the session presented makes some.

**Load test.** For pools of any size and any number of requests: `SamplesAccounted`,
`ReportExact` and `VerifiedIsTrue`. The invariant says where each index is (with one
worker or once in the results, `Indices`), which requests can have reached the server
(`Arrivals`, `Progress`), that a scrape which has seen as many requests as are due has
seen all of them counted, and none lost in a restart, so that every figure read after
that is final (`Reading`, `Baseline`), and how a request is served while its client
waits for it (`Clients`, `Service`). Where the cache suits the mode, the entry of
priming stays, and the measured requests meet no entry but their own (`Stored`,
`Suited`); that is what `VerifiedIsTrue` needs. `ReportExact` rests on the order in which a
scrape reads: requests first. The lemmas about counting take the facts about finite
sets they need as a hypothesis (`FiniteSetFacts`), which `FactsHold` discharges from the
library at the end.

Only model-checked:

* liveness and `ENABLED`, out of the prover's reach: `NeverLockedOut`,
  `AcceptedIsReported`, `ExitReached`, `EveryWaitEnds`, `RunEnds`, and of `HandlersEnd`
  that a handler always has a step (the decreasing bound is proved, `StepsDecrease`);
* the orders the policies compute from samples and prices (`CostOrderStable`,
  `LatencyOrderJustified`, `ToleranceBeforePrice`), which sort, filter and recurse over
  sequences: facts about them for every input need induction over data;
* the benchmark (`AttemptsAgree`, `ExplorationAgrees`, `FailuresContained`,
  `ReportAgrees`, `FiguresExactOrFlagged`), whose properties are sums, filters and
  percentiles of a whole trace of calls, for the same reason.

## Not modelled

* Configuration: environment variables read and validated once at startup. What it
  guarantees are the assumptions on constants.
* The operations snapshot and the other read-only views of the admin API: they
  change no state.
* Spans, histograms and exporters: calls into OpenTelemetry that nothing reads back.
  The counters that are read back are in `Circuit`, `ChatResponse` and `LoadTest`.
* Of the load test: streaming (the mode `bypass`), a run without a metrics port, and
  the summary of latencies. The first read of the counters is that of a fresh server.
* Of the accounting: the parser of prices. Of the adapters: headers, message contents
  and the mock provider. Of the process: construction of the service and listeners.
* In `Telemetry` the clock is read together with the lock; the code reads it just
  before, so that concurrent attempts may enter a ring in another order than their
  instants. The policies use samples regardless of their order.
* The web UI.

A failing provider whose errors do not degrade it (internal errors, for one) never
opens its circuit; nothing bounds how long a latency policy prefers it for failing
fast. No document promises a bound, so no property states one.
