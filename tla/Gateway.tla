------------------------------ MODULE Gateway -------------------------------
(***************************************************************************)
(* The request path of the gateway (internal/gateway/service.go):          *)
(* Service.Complete and Service.Stream, run by concurrent requests that    *)
(* share the circuits of the providers and the response cache.             *)
(*                                                                         *)
(* A request walks the providers in the order the routing policy gave,     *)
(* skips those without a model mapping or with an open circuit, calls one, *)
(* reports the outcome and falls back to the next one if it may.  Its      *)
(* client can go away at any moment, which the code notices only where it  *)
(* reads ctx.Err().  Steps of a request that touch nothing shared and read *)
(* no context are joined to the step before; a read of the context and a   *)
(* later locked update of a circuit are two steps.                         *)
(*                                                                         *)
(* Contents: every request asks for the same logical model with the same   *)
(* messages, so the cache key (cache.Key of request, provider and native   *)
(* model) is the provider, and a response is known by the provider that    *)
(* produced it.                                                            *)
(***************************************************************************)
EXTENDS ProviderHealth, Sequences, FiniteSets, Functions

CONSTANTS
  Requests,        \* chat requests
  Nobody,          \* no provider
  Services         \* configurations of the service

ProviderErrorKinds == {"timeout", "unavailable", "rate_limited", "invalid_request", "internal"}

(***************************************************************************)
(* A configuration.  providers: Service.providers in configured order;     *)
(* fallback: automatic mode; rankEligible: the policy orders the eligible  *)
(* providers; cacheEnabled: responseCache.Enabled(); known: the resolver   *)
(* has an entry for the logical model; mapped: the providers with a        *)
(* mapping in it; streams: those that implement StreamingProvider; errors: *)
(* the provider.ErrorKind values they return; load: a bound, the number of *)
(* requests that arrive.                                                   *)
(***************************************************************************)
Providers == UNION {Range(s.providers) : s \in Services}

ASSUME GatewayAssumption ==
  /\ Nobody \notin Providers
  /\ \A s \in Services :
       /\ s.providers \in Seq(Providers) /\ s.providers # <<>> /\ IsInjective(s.providers)
       /\ s.mapped \subseteq Providers /\ s.streams \subseteq Providers
       /\ s.errors \subseteq ProviderErrorKinds
       /\ s.load \in Nat
       /\ {s.fallback, s.rankEligible, s.cacheEnabled, s.known} \subseteq BOOLEAN
       /\ s.mapped # {} => s.known

VARIABLES
  service, \* the configuration of this process
  health,  \* healthTracker.providers
  cache,   \* cache[p]: the response stored under p's key, or Nobody
  req      \* what each request is doing

vars == <<service, health, cache, req>>

\* provider.ErrorKind, or: "rejected" for the validation errors of
\* requestHistoryOutcome, "unmapped" for a model that cannot be resolved,
\* "emit" for a client that cannot be written to, "nil" for none.
Errors == ProviderErrorKinds \cup {"rejected", "unmapped", "emit", "nil"}

\* providerOutcome.String(); "" before finishAttempt has filled it in.
Outcomes == {"success", "cancellation", "other_failure"} \cup ProviderErrorKinds

\* persistence.AttemptRecord.  late: begun after the client had gone.
AttemptRecord == [provider : Providers, outcome : Outcomes \cup {""}, late : BOOLEAN]

Points == {"new", "visit", "lookup", "begin", "call", "read", "record", "decide", "store",
           "finish", "done"}

Request ==
  [pc        : Points,
   streaming : BOOLEAN,
   order     : Seq(Providers),            \* the providers still to be visited
   cur       : Providers \cup {Nobody},   \* the provider of this iteration
   key       : Providers \cup {Nobody},   \* cacheKey; Nobody is ""
   attempt   : Attempt,                   \* healthAttempt
   usable    : BOOLEAN,                   \* usableMapping
   committed : BOOLEAN,
   err       : Errors,                    \* lastErr, then resultErr
   verdict   : Outcomes \cup {""},        \* outcome, between classification and record
   left      : BOOLEAN,                   \* the client had gone when the error came back
   cancelled : BOOLEAN,                   \* ctx.Err() != nil
   sources   : SUBSET Providers,          \* whose content the client has
   attempts  : Seq(AttemptRecord),        \* RequestRecord.Attempts
   initial   : Providers \cup {Nobody},   \* RequestRecord.InitialProvider
   final     : Providers \cup {Nobody},   \* RequestRecord.FinalProvider
   cacheHit  : BOOLEAN,                   \* RequestRecord.CacheHit
   outcome   : Outcomes \cup {""}]        \* RequestRecord.Outcome

NewRequest ==
  [pc |-> "new", streaming |-> FALSE, order |-> <<>>, cur |-> Nobody, key |-> Nobody,
   attempt |-> NoAttempt, usable |-> FALSE, committed |-> FALSE, err |-> "nil",
   verdict |-> "", left |-> FALSE, cancelled |-> FALSE, sources |-> {}, attempts |-> <<>>,
   initial |-> Nobody, final |-> Nobody, cacheHit |-> FALSE, outcome |-> ""]

TypeOK ==
  /\ health \in [Providers -> Health]
  /\ cache \in [Providers -> Providers \cup {Nobody}]
  /\ req \in [Requests -> Request]

Init ==
  /\ service \in Services
  /\ health = [p \in Providers |-> NewHealth]
  /\ cache = [p \in Providers |-> Nobody]
  /\ req = [r \in Requests |-> NewRequest]

-----------------------------------------------------------------------------
\* eligibleForFallback
RetryableKinds == {"unavailable", "timeout", "rate_limited"}

\* classifyProviderOutcome that asks the error before the context.
ClassifyIgnoringContext(cancelled, err) ==
  CASE err = "nil" -> "success"
    [] err \in ProviderErrorKinds -> err
    [] OTHER -> IF cancelled THEN "cancellation" ELSE "other_failure"

\* classifyProviderOutcome
Classify(cancelled, err) ==
  CASE err = "nil" -> "success"
    [] err # "nil" /\ cancelled -> "cancellation"
    [] ~cancelled /\ err \in ProviderErrorKinds -> err
    [] OTHER -> "other_failure"

\* recordHealthOutcome and degradesHealth
RecordHealthOutcome(h, a, outcome) ==
  CASE outcome = "success" -> Success(h, a)
    [] outcome \in {"timeout", "unavailable", "rate_limited"} -> Failure(h, a)
    [] OTHER -> Ignore(h, a)

\* finishAttempt that names the final provider before it knows the outcome.
FinishAttemptNamingFinal(q, outcome) ==
  [q EXCEPT !.attempt = NoAttempt,
            !.attempts[Len(q.attempts)].outcome = outcome,
            !.final = q.cur]

\* The last entry of the history's attempts gets its outcome (finishAttempt);
\* the healthAttempt is used up.
FinishAttempt(q, outcome) ==
  [q EXCEPT !.attempt = NoAttempt,
            !.attempts[Len(q.attempts)].outcome = outcome,
            !.final = IF outcome = "success" THEN q.cur ELSE q.final]

\* The outcome of the last attempt, "" if there was none.
LastOutcome(q) == IF q.attempts = <<>> THEN "" ELSE q.attempts[Len(q.attempts)].outcome

\* requestHistoryOutcome, and the override in requestHistory.finish.
HistoryOutcome(q) ==
  CASE q.err = "nil" -> "success"
    [] q.err # "nil" /\ q.cancelled -> "cancellation"
    [] q.err = "rejected" /\ ~q.cancelled -> "invalid_request"
    [] OTHER -> IF LastOutcome(q) = "cancellation"
                THEN "cancellation" ELSE Classify(FALSE, q.err)

\* orderedProviders.  The policy may put the eligible providers in any order;
\* the others follow as configured.
Orders ==
  LET positions == DOMAIN service.providers
      eligible(k) == Eligible(health[service.providers[k]])
      rankings == {o \in [positions -> positions] :
                     /\ IsInjective(o)
                     /\ \A i, j \in positions :
                          i < j => eligible(o[i]) \/ (~eligible(o[j]) /\ o[i] < o[j])}
  IN IF service.fallback /\ service.rankEligible
     THEN {[k \in positions |-> service.providers[o[k]]] : o \in rankings}
     ELSE {service.providers}

-----------------------------------------------------------------------------
\* A new request, within the bound.
Arrives(r) ==
  /\ req[r].pc = "new"
  /\ Cardinality({o \in Requests : req[o].pc # "new"}) < service.load

\* The request is turned down by validateCore, validateRoles, the check of
\* Stream in Complete, or because automatic mode has no native models.
Reject(r) ==
  /\ Arrives(r)
  /\ req' = [req EXCEPT ![r].pc = "finish", ![r].err = "rejected"]
  /\ UNCHANGED <<health, cache>>

\* The request is accepted and its providers are ordered.
Start(r) ==
  /\ Arrives(r)
  /\ \E s \in BOOLEAN, o \in Orders :
       req' = [req EXCEPT ![r].pc = "visit", ![r].streaming = s, ![r].order = o]
  /\ UNCHANGED <<health, cache>>

\* The end of the loop over the providers.
Exhaust(r) ==
  /\ req[r].pc = "visit" /\ req[r].order = <<>>
  /\ req' = [req EXCEPT ![r].pc = "finish", ![r].err = IF req[r].usable THEN @ ELSE "unmapped"]
  /\ UNCHANGED <<health, cache>>

\* Resolve fails for the next provider: automatic mode moves on if only this
\* provider's mapping is missing, not if the logical model itself is unknown.
SkipUnmapped(r) ==
  LET q == req[r]
  IN /\ q.pc = "visit" /\ q.order # <<>> /\ Head(q.order) \notin service.mapped
     /\ req' = [req EXCEPT ![r] =
          IF service.fallback /\ service.known
          THEN [q EXCEPT !.order = Tail(q.order)]
          ELSE [q EXCEPT !.pc = "finish", !.err = "unmapped"]]
     /\ UNCHANGED <<health, cache>>

\* A retry of the provider that was just visited.
VisitKeepingProvider(r) ==
  LET q == req[r]
      p == Head(q.order)
  IN /\ q.pc = "visit" /\ q.order # <<>> /\ p \in service.mapped
     /\ q.streaming => p \in service.streams
     /\ LET cached == /\ ~q.streaming /\ service.cacheEnabled
                      /\ Eligible(health[p]) /\ ~q.cancelled
        IN req' = [req EXCEPT ![r] = [q EXCEPT
             !.pc = IF cached THEN "lookup" ELSE "begin", !.cur = p, !.usable = TRUE,
             !.key = IF cached THEN p ELSE Nobody]]
     /\ UNCHANGED <<health, cache>>

\* The next provider is taken; Complete looks into the cache for it if its
\* circuit would admit the request.
Visit(r) ==
  LET q == req[r]
      p == Head(q.order)
  IN /\ q.pc = "visit" /\ q.order # <<>> /\ p \in service.mapped
     /\ q.streaming => p \in service.streams
     /\ LET cached == /\ ~q.streaming /\ service.cacheEnabled
                      /\ Eligible(health[p]) /\ ~q.cancelled
        IN req' = [req EXCEPT ![r] = [q EXCEPT
             !.pc = IF cached THEN "lookup" ELSE "begin",
             !.order = Tail(q.order), !.cur = p, !.usable = TRUE,
             !.key = IF cached THEN p ELSE Nobody]]
     /\ UNCHANGED <<health, cache>>

\* A streaming request meets a provider that cannot stream.
CannotStream(r) ==
  LET q == req[r]
  IN /\ q.pc = "visit" /\ q.streaming /\ q.order # <<>>
     /\ Head(q.order) \in service.mapped \ service.streams
     /\ req' = [req EXCEPT ![r].pc = "finish", ![r].err = "internal", ![r].usable = TRUE]
     /\ UNCHANGED <<health, cache>>

\* lookupCompletion finds a response, and neither the circuit nor the client
\* has gone away in the meantime: history.cacheHit and return.
CacheHit(r) ==
  LET q == req[r]
  IN /\ q.pc = "lookup" /\ cache[q.key] # Nobody
     /\ Eligible(health[q.cur]) /\ ~q.cancelled
     /\ req' = [req EXCEPT ![r] = [q EXCEPT
          !.pc = "finish", !.err = "nil", !.sources = {cache[q.key]}, !.cacheHit = TRUE,
          !.initial = IF q.initial = Nobody THEN q.cur ELSE q.initial, !.final = q.cur]]
     /\ UNCHANGED <<health, cache>>

\* Nothing found, the store failed or timed out, or the hit came too late.
CacheMiss(r) ==
  /\ req[r].pc = "lookup"
  /\ req' = [req EXCEPT ![r].pc = "begin"]
  /\ UNCHANGED <<health, cache>>

\* healthTracker.begin admits the request: startAttempt, and the call begins.
BeginAttemptAt(r) ==
  LET q == req[r]
      p == q.cur
  IN /\ q.pc = "begin" /\ Admits(health[p])
     /\ health' = [health EXCEPT ![p] = Begin(@)]
     /\ req' = [req EXCEPT ![r] = [q EXCEPT
          !.pc = "call", !.attempt = BeginAttempt(health[p]),
          !.attempts = Append(@, [provider |-> p, outcome |-> "", late |-> q.cancelled]),
          !.initial = IF q.attempts = <<>> THEN p ELSE @]]
     /\ UNCHANGED cache

\* healthTracker.begin refuses.  The client is not looked at before moving on.
CircuitSkip(r) ==
  /\ req[r].pc = "begin" /\ ~Admits(health[req[r].cur])
  /\ req' = [req EXCEPT ![r].pc = IF service.fallback THEN "visit" ELSE "finish",
                        ![r].err = "unavailable"]
  /\ UNCHANGED <<health, cache>>

\* What follows every end of an attempt: the circuit learns the outcome and
\* the history keeps it.
EndAttempt(r, outcome, q) ==
  /\ health' = [health EXCEPT ![q.cur] = RecordHealthOutcome(@, q.attempt, outcome)]
  /\ req' = [req EXCEPT ![r] = FinishAttempt(q, outcome)]
  /\ UNCHANGED cache

\* The provider answers a Complete.  A client that has left is still answered.
CompleteOK(r) ==
  LET q == req[r]
  IN /\ q.pc = "call" /\ ~q.streaming
     /\ EndAttempt(r, "success",
          [q EXCEPT !.pc = IF q.key = Nobody THEN "finish" ELSE "store",
                    !.err = "nil", !.sources = {q.cur}])

\* Complete or Stream returns an error, or Next does in the middle of a stream:
\* the outcome is settled by what the context says now.
CallFails(r) ==
  LET q == req[r]
  IN /\ q.pc \in {"call", "read"}
     /\ \E e \in service.errors :
          req' = [req EXCEPT ![r] = [q EXCEPT
            !.pc = "record", !.err = e, !.verdict = Classify(q.cancelled, e),
            !.left = q.cancelled]]
     /\ UNCHANGED <<health, cache>>

\* recordHealthOutcome and finishAttempt with that outcome; the client may have
\* left since.
RecordFailure(r) ==
  LET q == req[r]
  IN /\ q.pc = "record"
     /\ EndAttempt(r, q.verdict, [q EXCEPT !.pc = "decide", !.verdict = "", !.left = FALSE])

\* Stream returns a stream.
StreamOpens(r) ==
  /\ req[r].pc = "call" /\ req[r].streaming
  /\ req' = [req EXCEPT ![r].pc = "read", ![r].committed = FALSE]
  /\ UNCHANGED <<health, cache>>

\* A chunk with content is read and emitted.  (Chunks the client does not see
\* change nothing here.)
Emit(r) ==
  /\ req[r].pc = "read"
  /\ req' = [req EXCEPT ![r].committed = TRUE, ![r].sources = @ \cup {req[r].cur}]
  /\ UNCHANGED <<health, cache>>

\* The early return on an emit error without healthAttempt.ignore.
EmitFailsKeepingTrial(r) ==
  LET q == req[r]
  IN /\ q.pc = "read"
     /\ req' = [req EXCEPT ![r] = FinishAttempt([q EXCEPT !.pc = "finish", !.err = "emit"],
                                                "cancellation")]
     /\ UNCHANGED <<health, cache>>

\* emit fails, perhaps after part of the chunk was written: healthAttempt.ignore,
\* the attempt counts as cancelled, return.
EmitFails(r) ==
  LET q == req[r]
  IN /\ q.pc = "read"
     /\ \E partial \in SUBSET {q.cur} :
          EndAttempt(r, "cancellation",
            [q EXCEPT !.pc = "finish", !.err = "emit", !.sources = @ \cup partial])

\* Next returns io.EOF.
StreamEnds(r) ==
  LET q == req[r]
  IN /\ q.pc = "read"
     /\ EndAttempt(r, "success", [q EXCEPT !.pc = "finish", !.err = "nil"])

\* Two ways in which the decision to fall back can be too generous.
DecideUncommitted(r) ==
  LET q == req[r]
  IN /\ q.pc = "decide"
     /\ req' = [req EXCEPT ![r].pc =
          IF service.fallback /\ ~q.cancelled /\ q.err \in RetryableKinds
          THEN "visit" ELSE "finish"]
     /\ UNCHANGED <<health, cache>>

DecideWithoutContext(r) ==
  LET q == req[r]
  IN /\ q.pc = "decide"
     /\ req' = [req EXCEPT ![r].pc =
          IF service.fallback /\ ~q.committed /\ q.err \in RetryableKinds
          THEN "visit" ELSE "finish"]
     /\ UNCHANGED <<health, cache>>

\* After a failed attempt: fall back only in automatic mode, while the client
\* is there, after a retryable error, and before anything was emitted.
Decide(r) ==
  LET q == req[r]
  IN /\ q.pc = "decide"
     /\ req' = [req EXCEPT ![r].pc =
          IF service.fallback /\ ~q.committed /\ ~q.cancelled /\ q.err \in RetryableKinds
          THEN "visit" ELSE "finish"]
     /\ UNCHANGED <<health, cache>>

\* storeCompletion, unless the client has left; the store may fail.
Store(r) ==
  LET q == req[r]
  IN /\ q.pc = "store"
     /\ \/ ~q.cancelled /\ cache' = [cache EXCEPT ![q.key] = q.cur]
        \/ UNCHANGED cache
     /\ req' = [req EXCEPT ![r].pc = "finish"]
     /\ UNCHANGED health

\* The deferred history.finish: the outcome is settled and the record
\* submitted; the handler returns, and its local variables are gone.
Finish(r) ==
  LET q == req[r]
  IN /\ q.pc = "finish"
     /\ req' = [req EXCEPT ![r] = [q EXCEPT
          !.pc = "done", !.outcome = HistoryOutcome(q), !.order = <<>>, !.key = Nobody,
          !.usable = FALSE, !.committed = FALSE, !.cancelled = FALSE]]
     /\ UNCHANGED <<health, cache>>

\* The client goes away while its request is being handled.
Cancel(r) ==
  /\ req[r].pc \notin {"new", "done"} /\ ~req[r].cancelled
  /\ req' = [req EXCEPT ![r].cancelled = TRUE]
  /\ UNCHANGED <<health, cache>>

\* The clock, as seen by one circuit.
Tick(p) ==
  /\ health[p].cooldown > 0
  /\ health' = [health EXCEPT ![p] = Elapse(@)]
  /\ UNCHANGED <<cache, req>>

\* An entry of the cache expires.
Expire(p) ==
  /\ cache[p] # Nobody
  /\ cache' = [cache EXCEPT ![p] = Nobody]
  /\ UNCHANGED <<health, req>>

\* The steps of the handler of r, except for chunks that it goes on emitting.
Handler(r) ==
  \/ Exhaust(r) \/ SkipUnmapped(r) \/ Visit(r) \/ CannotStream(r)
  \/ CacheHit(r) \/ CacheMiss(r)
  \/ BeginAttemptAt(r) \/ CircuitSkip(r)
  \/ CompleteOK(r) \/ CallFails(r) \/ RecordFailure(r) \/ StreamOpens(r)
  \/ EmitFails(r) \/ StreamEnds(r)
  \/ Decide(r) \/ Store(r) \/ Finish(r)

Next ==
  /\ \/ \E r \in Requests : Reject(r) \/ Start(r) \/ Handler(r) \/ Emit(r) \/ Cancel(r)
     \/ \E p \in Providers : Tick(p) \/ Expire(p)
  /\ UNCHANGED service

Spec == Init /\ [][Next]_vars

-----------------------------------------------------------------------------
Attempting(r) == req[r].pc \in {"call", "read", "record"}

\* The half-open trial of every circuit is held by exactly the request that is
\* at the provider with it: no path through the handlers (an error, a client
\* that left, an emit error, the end of a stream) leaves it taken.
TrialsAccounted ==
  \A p \in Providers :
    LET holders == {r \in Requests : /\ Attempting(r) /\ req[r].cur = p
                                     /\ req[r].attempt.halfOpen}
    IN /\ Cardinality(holders) <= 1
       /\ health[p].halfOpenInFlight <=> holders # {}
       /\ health[p].halfOpenInFlight => health[p].state = "half_open"

\* A provider is tried after another only in automatic mode and only if every
\* one before it failed in a way that another provider might not, and while the
\* client was there: a client that has left costs at most the one call that
\* begin, which does not look at the context, lets through.
FallbackJustified ==
  \A r \in Requests :
    LET tried == req[r].attempts IN
    \A i \in 1..(Len(tried) - 1) :
      service.fallback /\ tried[i].outcome \in RetryableKinds /\ ~tried[i].late

\* The record submitted when a request ends agrees with what the client got
\* and would pass the checks of the database: every attempt has its outcome,
\* success means that the final provider answered, from its cache entry or in
\* the last attempt, and a failed request names no final provider.  The state
\* keeps its type.
RecordConsistent ==
  TypeOK /\ \A r \in Requests :
    LET q == req[r] IN
    q.pc = "done" =>
      /\ \A i \in DOMAIN q.attempts : q.attempts[i].outcome # ""
      /\ q.outcome # ""
      /\ q.outcome = "success" <=> q.final # Nobody
      /\ q.final # Nobody =>
           /\ q.final = q.cur
           /\ q.cacheHit <=> LastOutcome(q) # "success"
           /\ q.sources \subseteq {q.final}
      /\ q.attempts # <<>> => q.initial = q.attempts[1].provider

\* A step counts against a provider: it opens the circuit or adds a failure.
Charged(p) ==
  \/ health'[p].consecutiveFailures > health[p].consecutiveFailures
  \/ health[p].state # "open" /\ health'[p].state = "open"

\* Nothing counts against a provider but a retryable error of its own, reported
\* by a request whose client was still there when the error came back: a client
\* that has left by then is never held against the provider, whatever the error
\* (classifyProviderOutcome asks the context first), nor is an emit that fails.
\* A client that leaves between that question and the update of the circuit
\* comes too late to be seen.
CancellationNeutral ==
  [][\A p \in Providers :
       Charged(p) => \E r \in Requests :
         /\ req[r].pc = "record" /\ req[r].cur = p
         /\ req[r].err \in RetryableKinds /\ ~req[r].left
         /\ req'[r] # req[r]]_vars

\* An upper bound on the steps that the handler of a request still takes.
StepsLeft(q) ==
  7 * Len(q.order) +
    CASE q.pc = "lookup" -> 9  [] q.pc = "begin" -> 8  [] q.pc = "call" -> 7
      [] q.pc = "read" -> 6    [] q.pc = "record" -> 5 [] q.pc = "decide" -> 4
      [] q.pc = "visit" -> 3   [] q.pc = "store" -> 2  [] q.pc = "finish" -> 1
      [] OTHER -> 0

\* Whatever the other requests do to the circuits and the cache, a step of a
\* handler brings its request closer to the end; only chunks, and the client
\* leaving, leave it where it is.
StepsDecrease ==
  [][\A r \in Requests :
       req[r].pc # "new" =>
         \/ StepsLeft(req'[r]) < StepsLeft(req[r])
         \/ req'[r].pc = req[r].pc /\ req'[r].order = req[r].order]_vars

\* Every accepted request ends, with its record submitted, after a bounded
\* number of steps: no handler waits for another request, for a circuit or for
\* the cache, and none goes round in circles.
HandlersEnd ==
  /\ [](\A r \in Requests : req[r].pc \notin {"new", "done"} => ENABLED Handler(r))
  /\ StepsDecrease

\* The client's view of the requests.
View == INSTANCE ChatRequest WITH
  status <- [r \in Requests |->
    IF req[r].pc # "done" THEN "open"
    ELSE IF req[r].err = "nil" THEN "answered" ELSE "failed"],
  sources <- [r \in Requests |-> req[r].sources],
  by <- [r \in Requests |-> IF req[r].pc = "done" THEN req[r].final ELSE Nobody]

\* What the client sees is what ChatRequest promises: once it has content from
\* one provider, nothing comes from another, and the request ends once, as
\* answered only by the provider its content came from.
ImplementsChatRequest == View!Spec
=============================================================================
