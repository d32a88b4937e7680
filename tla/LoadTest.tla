------------------------------ MODULE LoadTest ------------------------------
(***************************************************************************)
(* The HTTP load test (internal/loadtest): Run primes the cache, warms up, *)
(* waits until the server's counters account for the warm-up, measures and *)
(* then attributes the growth of the counters to the measured requests.    *)
(* Each of the two phases is a pool of workers that share an index and     *)
(* report on a bounded channel.                                            *)
(*                                                                         *)
(* The server is a gateway process that serves nobody else; it may restart *)
(* once, which resets its counters.  A counter is the number of requests   *)
(* in certain states.  For every request the server counts the cache       *)
(* lookup and the attempt, submits the history record, answers, and last   *)
(* counts the request itself; the history is written in the background.    *)
(* The cache is a Redis that outlives the server and the load test: it may *)
(* hold entries of an earlier test, whose requests have the same contents, *)
(* and its entries expire.                                                 *)
(***************************************************************************)
EXTENDS Integers, Sequences, FiniteSets

CONSTANTS
  Setups,          \* [pool, requests, mode, persistence, flaky, leftover, expiry]:
                   \* Concurrency workers, Requests, CacheMode, and Persistence with
                   \* SamplePersistence, the server set up for them; flaky: the cache
                   \* may fail or time out; leftover: the keys that an earlier test
                   \* has left in it; expiry: entries may expire during this one
  Warmup,          \* Config.Warmup
  Offset           \* first index of the measured phase: 2001, one more than Warmup may be

ASSUME LoadAssumption ==
  /\ Warmup \in Nat \ {0} /\ Offset \in Nat /\ Warmup < Offset
  /\ \A s \in Setups : /\ s.requests \in Nat \ {0}
                      /\ s.mode \in {"miss", "warm_hit", "disabled"}
                      /\ {s.persistence, s.flaky, s.expiry} \subseteq BOOLEAN
                      /\ s.leftover \subseteq Nat

VARIABLES
  requests, mode, persistence, flaky, leftover, expiry,
  run,             \* how far Run is
  worker,          \* each worker of the pool: [pc, index, ok]
  next,            \* the shared index of the phase
  expired,         \* the context of the phase has ended
  results,         \* the channel: <<index, ok>>
  closed,          \* results is closed
  samples,         \* what phase has collected
  server,          \* each request at the server: [pc, lookup, tried, write, saved]
  cache,           \* the keys of the responses in the cache
  lost,            \* requests counted, or under way, before the server restarted
  scrape,          \* counters read from /metrics; requests is read first
  baseline,        \* the counters after the warm-up
  monitor,         \* samplePersistence: "off", "running", "samples", "error"
  report           \* Report.Observations, and what became of the samples

setup == <<requests, mode, persistence, flaky, leftover, expiry>>
clientVars == <<worker, next, expired, results, closed, samples>>
serverVars == <<server, cache, lost>>
observation == <<scrape, baseline, monitor, report>>
vars == <<setup, run, clientVars, serverVars, observation>>

Workers == DOMAIN worker
Capacity == Cardinality(Workers)

\* The requests: the priming one, and those of the two phases.
Prime == <<"prime", 0>>
Phases == {"warmup", "measured"}
Total(phase) == IF phase = "warmup" THEN Warmup ELSE requests
Ids == {Prime} \cup UNION {{phase} \X (0..(Total(phase) - 1)) : phase \in Phases}

\* The measured phase starts again with index 0.
KeyByIndex(id) == IF mode = "warm_hit" THEN 0 ELSE id[2]

\* request: the content that decides the cache key.
Key(id) == IF mode = "warm_hit" THEN 0
           ELSE IF id[1] = "measured" THEN Offset + id[2] ELSE id[2]

Fresh == [pc |-> "none", lookup |-> "none", tried |-> FALSE, write |-> "none", saved |-> FALSE]
Names == {"requests", "hits", "misses", "lookupErrors", "attempts", "writes", "writeErrors",
          "ended"}
Zero == [name \in Names |-> 0]
NoReport == [settled |-> FALSE, verified |-> FALSE, seen |-> Zero]
Unread == -1

Looping == [pc |-> "loop", index |-> 0, ok |-> FALSE]
StartWorkers(pool) == [w \in pool |-> Looping]

Init ==
  /\ \E s \in Setups :
       /\ requests = s.requests /\ mode = s.mode /\ persistence = s.persistence /\ flaky = s.flaky
       /\ leftover = s.leftover /\ expiry = s.expiry
       /\ worker = StartWorkers(s.pool)
  /\ run = IF mode = "warm_hit" THEN "priming" ELSE "warmup"
  /\ next = 0 /\ expired = FALSE
  /\ results = <<>> /\ closed = FALSE /\ samples = <<>>
  /\ server = [id \in Ids |-> Fresh] /\ cache = leftover /\ lost = {}
  /\ scrape = [name \in Names |-> Unread] /\ baseline = Zero
  /\ monitor = "off" /\ report = NoReport

InPhase == run \in Phases

-----------------------------------------------------------------------------
\* What the server counts of a request.
Counts(q, name) ==
  CASE name = "requests"     -> q.pc = "counted"
    [] name = "hits"         -> q.lookup = "hit"
    [] name = "misses"       -> q.lookup = "miss"
    [] name = "lookupErrors" -> q.lookup = "error"
    [] name = "attempts"     -> q.tried
    [] name = "writes"       -> q.write = "success"
    [] name = "writeErrors"  -> q.write = "error"
    [] name = "ended"        -> q.saved

\* What /metrics shows: routeforge_requests_total and so on.
Counters(ids) ==
  [name \in Names |-> Cardinality({id \in ids \ lost : Counts(server[id], name)})]

\* The client calls for the request id and has not given up.
Calling(id) ==
  \/ id = Prime /\ run = "priming"
  \/ /\ id[1] = run
     /\ \E w \in Workers : worker[w].pc = "calling" /\ worker[w].index = id[2]

ServerStep(id, from, to) ==
  /\ id \notin lost /\ server[id].pc = from
  /\ server' = [server EXCEPT ![id] = to]
  /\ UNCHANGED <<setup, run, clientVars, lost, observation>>

\* The request reaches the server while the client waits for it.
Arrive(id) ==
  /\ Calling(id) /\ ServerStep(id, "none", [server[id] EXCEPT !.pc = "received"])
  /\ UNCHANGED cache

\* An operation on the cache fails by itself, or because the client has gone.
CacheFails(id) == flaky \/ ~Calling(id)

\* lookupCompletion, unless the cache is disabled.
Lookup(id) ==
  LET found == IF Key(id) \in cache THEN "hit" ELSE "miss" IN
  /\ \E lookup \in IF mode = "disabled" THEN {"none"}
                    ELSE IF CacheFails(id) THEN {found, "error"} ELSE {found} :
       ServerStep(id, "received", [server[id] EXCEPT !.pc = "looked", !.lookup = lookup])
  /\ UNCHANGED cache

\* Without a hit there is an attempt, and storeCompletion unless the cache is
\* disabled, which may have stored the response when it fails; the handler
\* submits the history record and answers.
Work(id) ==
  \E write \in IF server[id].lookup \in {"hit", "none"} THEN {"none"}
                ELSE IF CacheFails(id) THEN {"success", "error"} ELSE {"success"} :
    /\ ServerStep(id, "looked",
         [server[id] EXCEPT !.pc = "answered", !.tried = server[id].lookup # "hit",
                            !.write = write])
    /\ \/ write # "none" /\ cache' = cache \cup {Key(id)}
       \/ write # "success" /\ UNCHANGED cache

\* The client has gone: the handler ends early, or skips the cache.
Abandon(id) ==
  /\ ~Calling(id)
  /\ \E from \in {"received", "looked"}, tried \in BOOLEAN :
       ServerStep(id, from, [server[id] EXCEPT !.pc = "answered", !.tried = tried])
  /\ UNCHANGED cache

\* TraceRequests counts the request after the handler has returned.
CountRequest(id) ==
  ServerStep(id, "answered", [server[id] EXCEPT !.pc = "counted"]) /\ UNCHANGED cache

\* The record submitted by the handler was written, has failed or was dropped.
SaveHistory(id) ==
  /\ persistence /\ server[id].pc \in {"answered", "counted"} /\ ~server[id].saved
  /\ ServerStep(id, server[id].pc, [server[id] EXCEPT !.saved = TRUE])
  /\ UNCHANGED cache

\* The time to live of an entry is over.
EntryExpires ==
  /\ expiry
  /\ \E key \in cache : cache' = cache \ {key}
  /\ UNCHANGED <<setup, run, clientVars, server, lost, observation>>

\* The server starts again; the cache is kept outside of it.  A restart during
\* a read of /metrics makes the read fail, as in ScrapeFails.
Restart ==
  /\ scrape.requests = Unread
  /\ lost = {} /\ lost' = {id \in Ids : server[id].pc # "none"}
  /\ UNCHANGED <<setup, run, clientVars, server, cache, observation>>

Returned == run \in {"reported", "failed"}

\* Nothing the server does once Run has returned matters here.
Server ==
  /\ ~Returned
  /\ \/ \E id \in Ids : \/ Arrive(id) \/ Lookup(id) \/ Work(id) \/ Abandon(id)
                        \/ CountRequest(id) \/ SaveHistory(id)
     \/ EntryExpires \/ Restart

-----------------------------------------------------------------------------
Answered(id) == server[id].pc \in {"answered", "counted"}

\* The serial request that fills the cache; a failure ends Run.
PrimeEnds ==
  /\ run = "priming"
  /\ \/ Answered(Prime) /\ run' = "warmup"
     \/ run' = "failed"
  /\ UNCHANGED <<setup, clientVars, serverVars, observation>>

\* A worker's turn of its loop: it stops, or takes the next index.
Take(w) ==
  /\ InPhase /\ worker[w].pc = "loop"
  /\ next' = IF expired THEN next ELSE next + 1
  /\ worker' = [worker EXCEPT ![w] =
       IF expired \/ next >= Total(run) THEN [@ EXCEPT !.pc = "exited"]
       ELSE [pc |-> "calling", index |-> next, ok |-> FALSE]]
  /\ UNCHANGED <<setup, run, expired, results, closed, samples, serverVars, observation>>

\* request returns: with an answer, or without one because of the timeout, the
\* end of the phase or a failure.
CallEnds(w) ==
  /\ InPhase /\ worker[w].pc = "calling"
  /\ \E ok \in BOOLEAN :
       /\ ok => Answered(<<run, worker[w].index>>) /\ ~expired
       /\ worker' = [worker EXCEPT ![w].pc = "sending", ![w].ok = ok]
  /\ UNCHANGED <<setup, run, next, expired, results, closed, samples, serverVars, observation>>

\* An observation made after the end of the phase is thrown away.
SendUnlessExpired(w) ==
  /\ InPhase /\ worker[w].pc = "sending" /\ Len(results) < Capacity
  /\ results' = IF expired THEN results ELSE Append(results, <<worker[w].index, worker[w].ok>>)
  /\ worker' = [worker EXCEPT ![w] = Looping]
  /\ UNCHANGED <<setup, run, next, expired, closed, samples, serverVars, observation>>

\* The worker's send on the channel.
Send(w) ==
  /\ InPhase /\ worker[w].pc = "sending" /\ Len(results) < Capacity
  /\ results' = Append(results, <<worker[w].index, worker[w].ok>>)
  /\ worker' = [worker EXCEPT ![w] = Looping]
  /\ UNCHANGED <<setup, run, next, expired, closed, samples, serverVars, observation>>

\* MaxDuration has passed, or the test was interrupted.
Expire ==
  /\ InPhase /\ ~expired
  /\ expired' = TRUE
  /\ UNCHANGED <<setup, run, worker, next, results, closed, samples, serverVars, observation>>

\* The goroutine that waits for the workers.
CloseResults ==
  /\ InPhase /\ ~closed /\ \A w \in Workers : worker[w].pc = "exited"
  /\ closed' = TRUE
  /\ UNCHANGED <<setup, run, worker, next, expired, results, samples, serverVars, observation>>

\* phase that waits for the workers before it reads the results.
ReceiveWhenClosed ==
  /\ InPhase /\ closed /\ results # <<>>
  /\ samples' = Append(samples, Head(results)) /\ results' = Tail(results)
  /\ UNCHANGED <<setup, run, worker, next, expired, closed, serverVars, observation>>

\* phase ranges over the results.
Receive ==
  /\ InPhase /\ results # <<>>
  /\ samples' = Append(samples, Head(results)) /\ results' = Tail(results)
  /\ UNCHANGED <<setup, run, worker, next, expired, closed, serverVars, observation>>

-----------------------------------------------------------------------------
Taken == Len(samples)
Failed == \E i \in DOMAIN samples : ~samples[i][2]

\* phase returns.  A warm-up that is short of a request or has a failure ends
\* Run; after the measured phase the monitor is told to stop.
PhaseEnds ==
  /\ InPhase /\ closed /\ results = <<>>
  /\ run' = IF run = "measured" THEN "joining"
            ELSE IF Taken # Warmup \/ Failed THEN "failed" ELSE "settling"
  /\ UNCHANGED <<setup, clientVars, serverVars, observation>>

\* samplePersistence ends when it is told to, or with an error.  Its result
\* goes into a channel of capacity one, and nothing sees it before the join.
MonitorEnds ==
  /\ run = "joining" /\ monitor = "running"
  /\ monitor' \in {"samples", "error"}
  /\ UNCHANGED <<setup, run, clientVars, serverVars, scrape, baseline, report>>

\* Run takes the monitor's result; an error of it ends Run.
JoinMonitor ==
  /\ run = "joining" /\ monitor # "running"
  /\ run' = IF monitor = "error" THEN "failed" ELSE "observing"
  /\ UNCHANGED <<setup, clientVars, serverVars, observation>>

Observing == run \in {"settling", "observing"}

\* The instruments in the opposite order: the requests are counted last.
ScrapeRequestsLast ==
  LET now == Counters(Ids) IN
  /\ Observing
  /\ \/ /\ scrape.ended = Unread
        /\ scrape' = [now EXCEPT !.requests = Unread]
     \/ /\ scrape.ended # Unread /\ scrape.requests = Unread
        /\ scrape' = [scrape EXCEPT !.requests = now.requests]
  /\ UNCHANGED <<setup, run, clientVars, serverVars, baseline, monitor, report>>

\* readCounters: one answer of /metrics.  The instruments are read one after
\* the other in the order in which they were created, the requests first.
Scrape ==
  LET now == Counters(Ids) IN
  /\ Observing
  /\ \/ /\ scrape.requests = Unread
        /\ scrape' = [scrape EXCEPT !.requests = now.requests]
     \/ /\ scrape.requests # Unread /\ scrape.ended = Unread
        /\ scrape' = [now EXCEPT !.requests = scrape.requests]
  /\ UNCHANGED <<setup, run, clientVars, serverVars, baseline, monitor, report>>

\* /metrics does not answer, or the test is interrupted.
ScrapeFails ==
  /\ Observing
  /\ run' = "failed"
  /\ UNCHANGED <<setup, clientVars, serverVars, observation>>

WarmCount == IF mode = "warm_hit" THEN Warmup + 1 ELSE Warmup
Since(name) == scrape[name] - baseline[name]
Scraped == \A name \in Names : scrape[name] # Unread
Settled(n) == Since("requests") >= n /\ (persistence => Since("ended") >= n)
Again == scrape' = [name \in Names |-> Unread]

\* settledCounters: not settled, and the next tick comes before the deadline.
Retry ==
  /\ Observing /\ Scraped
  /\ ~Settled(IF run = "settling" THEN WarmCount ELSE Taken)
  /\ Again
  /\ UNCHANGED <<setup, run, clientVars, serverVars, baseline, monitor, report>>

\* The warm-up is accounted for, and the measurement begins, with its monitor;
\* or the deadline passes and Run fails.
WarmupSettles ==
  /\ run = "settling" /\ Scraped /\ Again
  /\ IF Settled(WarmCount)
     THEN /\ run' = "measured" /\ baseline' = scrape
          /\ monitor' = IF persistence THEN "running" ELSE "off"
          /\ worker' = StartWorkers(Workers) /\ next' = 0 /\ expired' = FALSE
          /\ closed' = FALSE /\ samples' = <<>>
     ELSE run' = "failed" /\ UNCHANGED <<clientVars, baseline, monitor>>
  /\ UNCHANGED <<setup, results, serverVars, report>>

\* difference: what CacheModeVerified says.
Verified(seen, n) ==
  /\ seen.requests = n /\ seen.lookupErrors = 0 /\ seen.writeErrors = 0
  /\ CASE mode = "warm_hit" -> seen.hits = n /\ seen.misses = 0 /\ seen.attempts = 0
       [] mode = "miss"     -> /\ seen.misses = n /\ seen.hits = 0
                               /\ seen.attempts = n /\ seen.writes = n
       [] mode = "disabled" -> seen.hits + seen.misses = 0 /\ seen.attempts = n

\* The measurement is accounted for, or the deadline passes; a counter that
\* has gone down ends Run without a report.
MeasurementSettles ==
  LET seen == [name \in Names |-> Since(name)] IN
  /\ run = "observing" /\ Scraped /\ Again
  /\ IF \E name \in Names : seen[name] < 0
     THEN run' = "failed" /\ UNCHANGED report
     ELSE /\ run' = "reported"
          /\ report' = [settled |-> Settled(Taken),
                        verified |-> Verified(seen, Taken), seen |-> seen]
  /\ UNCHANGED <<setup, clientVars, serverVars, baseline, monitor>>

Worker(w) == Take(w) \/ CallEnds(w) \/ Send(w)
Main == PrimeEnds \/ Receive \/ PhaseEnds \/ JoinMonitor \/ Scrape \/ WarmupSettles
        \/ MeasurementSettles

Next ==
  \/ Server \/ Main \/ CloseResults \/ MonitorEnds \/ Expire \/ ScrapeFails \/ Retry
  \/ \E w \in Workers : Worker(w)

\* The goroutines run; a call ends, with RequestTimeout at the latest; the
\* expired timer of settledCounters stays ready beside the ticker, and a select
\* that finds both ready time and again takes each.
Fairness ==
  /\ \A w \in UNION {s.pool : s \in Setups} : WF_vars(w \in Workers /\ Worker(w))
  /\ WF_vars(PrimeEnds \/ Receive \/ PhaseEnds \/ JoinMonitor)
  /\ WF_vars(CloseResults) /\ WF_vars(MonitorEnds) /\ WF_vars(Scrape)
  /\ SF_vars(WarmupSettles \/ MeasurementSettles)

Spec == Init /\ [][Next]_vars /\ Fairness

-----------------------------------------------------------------------------
Sampled == {<<"measured", samples[i][1]>> : i \in DOMAIN samples}

\* phase and Report.NotStarted: when the measured phase is over, every index a
\* worker took has exactly one observation, and no request that reached the
\* server is reported as not started, whatever ended the phase.
SamplesAccounted ==
  run \in {"joining", "observing", "reported"} =>
    /\ Cardinality(Sampled) = Taken
    /\ Taken = IF next < requests THEN next ELSE requests
    /\ \A id \in Ids : id[1] = "measured" /\ server[id].pc # "none" => id \in Sampled

\* settledCounters and difference: a report that says its counters have settled
\* attributes to the measured requests exactly what the server did for them,
\* with nothing of the warm-up and nothing missing of a request the client gave
\* up, although one read of /metrics spans many steps of the server and the
\* server may have restarted.
ReportExact ==
  run = "reported" /\ report.settled => report.seen = Counters(Sampled)

\* What each mode promises of a request.
ServedAsMode(id) ==
  CASE mode = "warm_hit" -> server[id].lookup = "hit"
    [] mode = "miss"     -> server[id].lookup = "miss" /\ server[id].write = "success"
    [] mode = "disabled" -> server[id].lookup = "none" /\ server[id].tried

\* The cache is what the mode needs: the entry that priming found or stored
\* lasts as long as the test, or no earlier test has left entries for the
\* measured requests.
CacheSuits ==
  /\ mode = "warm_hit" => ~expiry
  /\ mode = "miss" => \A id \in Ids : id[1] = "measured" => Key(id) \notin leftover

\* CacheModeVerified: it is only said of a measurement in which every request
\* was served the way the mode says, whatever expires and whatever an earlier
\* test has left in the cache; and it is said of every settled one without a
\* failure, of a request or of the cache, with a cache that suits the mode:
\* priming and the distinct indices of the two phases suffice.
VerifiedIsTrue ==
  run = "reported" =>
    /\ report.verified => \A id \in Sampled : ServedAsMode(id)
    /\ report.settled /\ ~Failed /\ ~flaky /\ CacheSuits => report.verified

\* Run, phase, samplePersistence and settledCounters: a load test ends, with a
\* report or an error: no worker stays blocked on the channel, the monitor's
\* result is there to be taken, and counters that never settle do not hold it.
RunEnds == <>Returned

=============================================================================
