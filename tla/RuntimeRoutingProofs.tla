------------------------ MODULE RuntimeRoutingProofs ------------------------
(***************************************************************************)
(* Proofs about RuntimeRouting, for any number of requests, writers and    *)
(* modes and any set of documents: a request uses one version, the current *)
(* version is the environment's or one valid document, and warm-up is not  *)
(* starved.                                                                *)
(*                                                                         *)
(* The invariant follows a version from the document to the request: a     *)
(* writer that has got past the checks holds a valid document and loaded a *)
(* version with the startup thresholds, so that what it publishes is again *)
(* a version to route with; a request that is bound holds such a version   *)
(* and has used no other.  Such a version has a positive interval and so   *)
(* is never mistaken for the absence of one.                               *)
(*                                                                         *)
(* At the end, proofs about the arithmetic of RoutingPolicies.             *)
(***************************************************************************)
EXTENDS RuntimeRouting, Sequences, FiniteSetTheorems, TLAPS

\* What publish may store.
Publishable(v) ==
  v \in Versions /\ Routable(v.settings) /\ v.settings.interval <= LongestInterval

\* The request has used no version but the one in its context.
Pinned(r) ==
  IF request[r].pc = "new"
  THEN request[r].version = Unbound /\ seen[r] = {}
  ELSE Publishable(request[r].version) /\ seen[r] \subseteq {request[r].version}

\* A writer past the checks will publish a version.
Prepared(w) ==
  writer[w].pc \in {"loaded", "published"} =>
    Valid(writer[w].sent) /\ writer[w].loaded \in Versions

\* The current version is the environment's or one writer's.
FromOneDocument ==
  \/ current.settings = Startup
  \/ /\ Valid(current.settings)
     /\ \E w \in Writers : /\ writer[w].pc \in {"published", "accepted"}
                           /\ writer[w].sent = current.settings

\* The shared counters count what was not explored.
CountersShared ==
  \A m \in Modes : counts[m] = unexplored[m] /\ counts[m] < LongestInterval

IInv ==
  /\ TypeOK
  /\ Publishable(current)
  /\ \A w \in Writers : Prepared(w)
  /\ \A r \in Requests : Pinned(r)
  /\ FromOneDocument
  /\ CountersShared

-----------------------------------------------------------------------------
\* A version that may be published is not the absence of one: requestRouting
\* tells them apart.
LEMMA PublishableIsBound == \A v : Publishable(v) => v # Unbound
  BY DEF Publishable, Routable, Unbound, Version, Versions

\* No interval in use is longer than the longest.
LEMMA Longest ==
  /\ LongestInterval \in Nat \ {0} /\ Startup.interval <= LongestInterval
  /\ \A s : Valid(s) => Routable(s) /\ s.interval <= LongestInterval
  BY RuntimeRoutingAssumption DEF LongestInterval, Routable, Valid

\* requestRouting yields a version that may be published: the one in the
\* context if the request is bound, and the current one if it is not.
LEMMA RequestRoutingPublishable ==
  ASSUME IInv, NEW r \in Requests
  PROVE  /\ Publishable(RequestRouting(r))
         /\ request[r].pc = "new" => RequestRouting(r) = current
         /\ request[r].pc # "new" => RequestRouting(r) = request[r].version
  BY PublishableIsBound DEF IInv, Pinned, RequestRouting

\* What a writer past the checks publishes: its own document with the
\* thresholds of the environment.
LEMMA ReplacePublishable ==
  ASSUME IInv, NEW w \in Writers, writer[w].pc \in {"loaded", "published"}
  PROVE  /\ Publishable(Replace(w))
         /\ Replace(w).settings = writer[w].sent /\ Valid(writer[w].sent)
<1>1. writer[w].sent \in Settings \cup {Startup}
  BY DEF IInv, TypeOK, Writer, Request
<1>2. writer[w].loaded.thresholds = "startup" /\ Valid(writer[w].sent)
  BY DEF IInv, Prepared, Versions, Version
<1>3. QED
  BY <1>1, <1>2, Longest DEF Replace, Publishable, Versions, Version

\* newRuntimeRouting establishes the invariant.
LEMMA IInvInit == Init => IInv
<1> SUFFICES ASSUME Init PROVE IInv
  OBVIOUS
<1> USE DEF Init
<1>1. current \in Versions /\ current.settings = Startup
  BY DEF Versions, Version
<1>2. TypeOK
  BY <1>1, RuntimeRoutingAssumption DEF TypeOK, Writer, Request
<1>3. Publishable(current)
  BY <1>1, Longest, RuntimeRoutingAssumption DEF Publishable
<1>4. QED
  BY <1>1, <1>2, <1>3, Longest
  DEF IInv, Prepared, Pinned, FromOneDocument, CountersShared

\* UpdateRoutingSettings up to the load: nothing but the writer changes, and it
\* has loaded a version only if its document is valid.
LEMMA BeginUpdateKeeps ==
  ASSUME IInv, NEW w \in Writers, NEW s \in Settings, BeginUpdate(w, s)
  PROVE  IInv'
<1> USE DEF BeginUpdate
<1>1. TypeOK'
  BY DEF IInv, TypeOK, Writer, Request
<1>2. \A o \in Writers : Prepared(o)'
  BY DEF IInv, Prepared, TypeOK, Publishable
<1>3. FromOneDocument'
  BY DEF IInv, FromOneDocument, TypeOK, Writer
<1>4. QED
  BY <1>1, <1>2, <1>3 DEF IInv, Publishable, Pinned, CountersShared

\* publish: one pointer store of a version made of one document.
LEMMA PublishKeeps ==
  ASSUME IInv, NEW w \in Writers, Publish(w)
  PROVE  IInv'
<1> USE DEF Publish
<1>1. Publishable(current') /\ current'.settings = writer[w].sent /\ Valid(writer[w].sent)
  BY ReplacePublishable
<1>2. TypeOK'
  BY <1>1 DEF IInv, TypeOK, Publishable, Writer
<1>3. \A o \in Writers : Prepared(o)'
  BY DEF IInv, Prepared, TypeOK, Writer
<1>4. FromOneDocument'
  BY <1>1 DEF IInv, FromOneDocument, TypeOK, Writer
<1>5. QED
  BY <1>1, <1>2, <1>3, <1>4 DEF IInv, Publishable, Pinned, CountersShared

\* The return of UpdateRoutingSettings.
LEMMA ReplyKeeps ==
  ASSUME IInv, NEW w \in Writers, Reply(w)
  PROVE  IInv'
<1> DEFINE q == writer[w]
           t == [q EXCEPT !.pc = "accepted", !.reply = Replace(w).settings]
<1>1. /\ q \in Writer /\ q.pc = "published" /\ writer \in [Writers -> Writer]
      /\ writer' = [writer EXCEPT ![w] = t]
      /\ UNCHANGED <<current, counts, request, seen, unexplored, decisions>>
  BY DEF Reply, IInv, TypeOK
<1>2. Replace(w).settings \in Settings \cup {Startup}
  BY <1>1, ReplacePublishable DEF Writer
<1>3. t \in Writer /\ t.pc = "accepted" /\ t.sent = q.sent
  BY <1>1, <1>2 DEF Writer
<1> HIDE DEF q, t
<1>4. TypeOK'
  BY <1>1, <1>3 DEF IInv, TypeOK, Writer, Request
<1>5. \A o \in Writers : Prepared(o)'
  BY <1>1, <1>3 DEF IInv, Prepared
<1>6. FromOneDocument'
  BY <1>1, <1>3 DEF IInv, FromOneDocument, q
<1>7. QED
  BY <1>1, <1>4, <1>5, <1>6 DEF IInv, Publishable, Pinned, CountersShared

\* The steps of a request but Again use the version that requestRouting gives,
\* and keep it in the context.
LEMMA UseKeeps ==
  ASSUME IInv, NEW r \in Requests, Uses(r),
         NEW to \in {"bound", "recorded", "routed", "ended"},
         request' = [request EXCEPT ![r] = [pc |-> to, version |-> RequestRouting(r)]]
  PROVE  /\ \A o \in Requests : Pinned(o)'
         /\ request' \in [Requests -> Request]
         /\ seen' \in [Requests -> SUBSET Versions]
<1>1. Publishable(RequestRouting(r)) /\ seen[r] \subseteq {RequestRouting(r)}
  BY RequestRoutingPublishable DEF IInv, Pinned
<1>2. ASSUME NEW o \in Requests PROVE Pinned(o)'
  BY <1>1, <1>2 DEF IInv, TypeOK, Pinned, Uses, Publishable
<1>3. QED
  BY <1>1, <1>2 DEF IInv, TypeOK, Uses, Publishable, Request

\* Bind, BeginHistory and End do nothing else.
LEMMA RequestStepKeeps ==
  ASSUME IInv, NEW r \in Requests, Bind(r) \/ BeginHistory(r) \/ End(r)
  PROVE  IInv'
<1> DEFINE to == IF request[r].pc = "new" THEN "bound"
                 ELSE IF request[r].pc = "bound" THEN "recorded" ELSE "ended"
<1>1. /\ request' = [request EXCEPT ![r] = [pc |-> to, version |-> RequestRouting(r)]]
      /\ to \in {"bound", "recorded", "ended"} /\ Uses(r)
  BY RequestRoutingPublishable DEF Bind, BeginHistory, End, IInv, TypeOK, Request
<1>2. UNCHANGED <<current, counts, writer, unexplored, decisions>>
  BY DEF Bind, BeginHistory, End
<1> HIDE DEF to
<1>3. \A o \in Requests : Pinned(o)'
  BY <1>1, UseKeeps
<1>4. TypeOK'
  BY <1>1, <1>2, UseKeeps DEF IInv, TypeOK, Writer, Request
<1>5. QED
  BY <1>2, <1>3, <1>4 DEF IInv, Publishable, Prepared, FromOneDocument, CountersShared

\* orderedProviders: the counters go up only below the version's interval.
LEMMA RouteKeeps ==
  ASSUME IInv, NEW r \in Requests, NEW m \in Modes, NEW lacking \in BOOLEAN,
         Route(r, m, lacking)
  PROVE  IInv'
<1>1. /\ request' = [request EXCEPT ![r] = [pc |-> "routed", version |-> RequestRouting(r)]]
      /\ Uses(r)
  <2>1. request[r].pc = "recorded" /\ request' = [request EXCEPT ![r].pc = "routed"] /\ Uses(r)
    BY DEF Route
  <2>2. [request[r] EXCEPT !.pc = "routed"] = [pc |-> "routed", version |-> RequestRouting(r)]
    BY <2>1, RequestRoutingPublishable DEF IInv, TypeOK, Writer, Request
  <2>3. request' = [request EXCEPT ![r] = [request[r] EXCEPT !.pc = "routed"]]
    BY <2>1
  <2>4. QED
    BY <2>1, <2>2, <2>3
<1>2. \A o \in Requests : Pinned(o)'
  BY <1>1, UseKeeps
<1>3. PICK n \in 0..(LongestInterval - 1) :
        /\ counts' = [counts EXCEPT ![m] = n]
        /\ unexplored' = [unexplored EXCEPT ![m] = n]
  <2>1. RequestRouting(r).settings.interval \in 1..LongestInterval
    BY RequestRoutingPublishable, Longest DEF Publishable, Routable
  <2>2. /\ counts \in [Modes -> Nat] /\ unexplored \in [Modes -> Nat]
        /\ counts[m] = unexplored[m] /\ counts[m] < LongestInterval
    BY DEF IInv, TypeOK, CountersShared
  <2> DEFINE v == RequestRouting(r)
             counted == v.rank /\ LatencyAware(v.settings.policy) /\ lacking
             due == counted /\ ExplorationDue(v, m)
             n == IF due THEN 0 ELSE IF counted THEN counts[m] + 1 ELSE counts[m]
  <2>3. n \in 0..(LongestInterval - 1)
    BY <2>1, <2>2, Longest DEF ExplorationDue
  <2>4. counts' = [counts EXCEPT ![m] = n] /\ unexplored' = [unexplored EXCEPT ![m] = n]
    BY <2>2 DEF Route
  <2>5. QED
    BY <2>3, <2>4
<1>4. CountersShared'
  BY <1>3, Longest DEF IInv, TypeOK, CountersShared
<1>5. decisions' \in 0..MaxDecisions /\ UNCHANGED <<current, writer>>
  BY RuntimeRoutingAssumption DEF Route, IInv, TypeOK
<1>6. counts' \in [Modes -> Nat] /\ unexplored' \in [Modes -> Nat]
  BY <1>3, Longest DEF IInv, TypeOK, Writer, Request
<1>7. TypeOK'
  BY <1>1, <1>5, <1>6, UseKeeps DEF IInv, TypeOK, Writer, Request
<1>8. QED
  BY <1>2, <1>4, <1>5, <1>7 DEF IInv, Publishable, Prepared, FromOneDocument

\* A new request of the same client starts with a new context.
LEMMA AgainKeeps ==
  ASSUME IInv, NEW r \in Requests, Again(r)
  PROVE  IInv'
<1> USE DEF Again
<1>1. TypeOK'
  BY DEF IInv, TypeOK, Writer, Request
<1>2. ASSUME NEW o \in Requests PROVE Pinned(o)'
  BY <1>2 DEF IInv, TypeOK, Pinned, Publishable
<1>3. QED
  BY <1>1, <1>2 DEF IInv, Publishable, Prepared, FromOneDocument, CountersShared

\* The invariant holds at all times.
THEOREM Invariance == Spec => []IInv
<1>1. ASSUME IInv, [Next]_vars PROVE IInv'
  <2>1. CASE UNCHANGED vars
    BY <2>1, <1>1
    DEF vars, IInv, TypeOK, Publishable, Prepared, Pinned, FromOneDocument, CountersShared
  <2>2. CASE Next
    BY <2>2, <1>1, BeginUpdateKeeps, PublishKeeps, ReplyKeeps, RequestStepKeeps, RouteKeeps,
       AgainKeeps DEF Next
  <2>3. QED
    BY <1>1, <2>1, <2>2
<1>2. QED
  BY IInvInit, <1>1, PTL DEF Spec

\* OneVersionPerRequest: BindRouting pins one version for everything a request
\* does, and the version that UpdateRoutingSettings publishes is always one
\* valid document with the thresholds of the environment, however many updates
\* run at the same time.
THEOREM OneVersionPerRequestTheorem == Spec => []OneVersionPerRequest
<1>1. ASSUME IInv PROVE OneVersionPerRequest
  <2>1. ASSUME NEW r \in Requests PROVE Cardinality(seen[r]) <= 1
    <3>1. seen[r] = {} \/ seen[r] = {request[r].version}
      BY <1>1 DEF IInv, Pinned
    <3>2. Cardinality({}) = 0 /\ Cardinality({request[r].version}) = 1
      BY FS_EmptySet, FS_Singleton
    <3>3. QED
      BY <3>1, <3>2
  <2>2. current.thresholds = "startup"
    BY <1>1 DEF IInv, Publishable, Versions, Version
  <2>3. QED
    BY <1>1, <2>1, <2>2 DEF IInv, FromOneDocument, OneVersionPerRequest
<1>2. QED
  BY Invariance, <1>1, PTL

\* WarmUpNotStarved: the exploration counters outlive the versions, so that
\* whatever is published, fewer under-sampled decisions of a mode than the
\* longest interval pass between two that explore.
THEOREM WarmUpNotStarvedTheorem == Spec => []WarmUpNotStarved
<1>1. IInv => WarmUpNotStarved
  BY DEF IInv, CountersShared, WarmUpNotStarved
<1>2. QED
  BY Invariance, <1>1, PTL

-----------------------------------------------------------------------------
\* What a request does with the version it is bound to: the steps of the
\* policies that compare numbers and rearrange the candidates, for medians and
\* candidate lists of any size.
CONSTANTS MinSamples, SampleMaxAge, Width

Ranking == INSTANCE RoutingPolicies

\* The quotient is monotonic, and so is the remainder where it does not change.
LEMMA Division ==
  ASSUME NEW a \in Nat, NEW b \in Nat, NEW m \in Nat \ {0}
  PROVE  /\ a <= b => a \div m <= b \div m
         /\ a <= b /\ a \div m = b \div m => a % m <= b % m
         /\ a < b /\ a \div m = b \div m => a % m < b % m
         /\ a \div m \in Nat /\ b \div m \in Nat /\ a % m \in Nat /\ b % m \in Nat
<1>1. a <= b => a \div m <= b \div m
  OBVIOUS
<1>2. a <= b /\ a \div m = b \div m => a % m <= b % m
  OBVIOUS
<1>3. a < b /\ a \div m = b \div m => a % m < b % m
  OBVIOUS
<1>. QED
  BY <1>1, <1>2, <1>3

\* Two numbers compare like their words, the high one first.
LEMMA WordsCompare ==
  ASSUME NEW a \in Nat, NEW b \in Nat, NEW m \in Nat \ {0}
  PROVE  a <= b <=> \/ a \div m < b \div m
                    \/ a \div m = b \div m /\ a % m <= b % m
<1>. DEFINE q == a \div m
           r == b \div m
           x == a % m
           y == b % m
<1>1. /\ q \in Nat /\ r \in Nat /\ x \in Nat /\ y \in Nat
      /\ a <= b => q <= r
      /\ a <= b /\ q = r => x <= y
  BY Division
<1>2. /\ b < a => r <= q
      /\ b < a /\ r = q => y < x
  <2>1. b <= a => r <= q
    BY Division
  <2>2. b < a /\ r = q => y < x
    BY Division
  <2>. QED
    BY <2>1, <2>2
<1>. HIDE DEF q, r, x, y
<1>3. a <= b <=> q < r \/ (q = r /\ x <= y)
  BY <1>1, <1>2
<1>. QED
  BY <1>3 DEF q, r, x, y

\* withinLatencyTolerance compares the two products of bits.Mul64 word by word;
\* whatever the width of a word, that decides whether the candidate is more than
\* percent slower than the fastest one, with no rounding and no overflow.
THEOREM ToleranceExact ==
  ASSUME 2^Width \in Nat \ {0},
         NEW candidate \in Nat, NEW fastest \in Nat, NEW percent \in Nat
  PROVE  Ranking!WithinTolerance(candidate, fastest, percent)
           <=> \/ candidate <= fastest
               \/ fastest > 0 /\ 100 * (candidate - fastest) <= percent * fastest
<1>1. CASE candidate <= fastest
  BY <1>1 DEF Ranking!WithinTolerance
<1>2. CASE ~(candidate <= fastest)
  <2>. DEFINE a == (candidate - fastest) * 100
             b == fastest * percent
             m == 2^Width
  <2>1. a \in Nat /\ b \in Nat /\ a = 100 * (candidate - fastest) /\ b = percent * fastest
    BY <1>2
  <2>2. a <= b <=> \/ a \div m < b \div m
                   \/ a \div m = b \div m /\ a % m <= b % m
    BY <2>1, WordsCompare
  <2>3. Ranking!Mul(candidate - fastest, 100) = [high |-> a \div m, low |-> a % m]
        /\ Ranking!Mul(fastest, percent) = [high |-> b \div m, low |-> b % m]
    BY DEF Ranking!Mul
  <2>. HIDE DEF a, b, m
  <2>4. Ranking!WithinTolerance(candidate, fastest, percent)
          <=> fastest > 0 /\ a <= b
    BY <1>2, <2>2, <2>3 DEF Ranking!WithinTolerance
  <2>. QED
    BY <1>2, <2>1, <2>4
<1>. QED
  BY <1>1, <1>2

\* moveProviderToFront: exploring a candidate, or preferring the fastest one,
\* puts it first, leaves every other one in the list for fallback, and keeps
\* those in configured order.
THEOREM MoveToFrontKeepsAll ==
  ASSUME NEW n \in Nat, NEW i \in 1..n
  PROVE  LET order == Ranking!MoveToFront(Ranking!Configured(n), i) IN
         /\ order \in Seq(1..n) /\ Len(order) = n
         /\ order[1] = i
         /\ \A c \in 1..n : \E k \in 1..n : order[k] = c
         /\ \A j, k \in 2..n : j < k => order[j] < order[k]
<1>. DEFINE order == Ranking!MoveToFront(Ranking!Configured(n), i)
<1>1. order = [k \in 1..n |-> IF k = 1 THEN i ELSE IF k <= i THEN k - 1 ELSE k]
  BY DEF Ranking!MoveToFront, Ranking!Configured
<1>. HIDE DEF order
<1>2. order \in Seq(1..n) /\ Len(order) = n /\ order[1] = i
  BY <1>1
<1>3. ASSUME NEW c \in 1..n PROVE \E k \in 1..n : order[k] = c
  <2>1. CASE c = i
    BY <1>2, <2>1
  <2>2. CASE c < i
    <3>1. c + 1 \in 1..n /\ order[c + 1] = c
      BY <1>1, <2>2
    <3>. QED
      BY <3>1
  <2>3. CASE c > i
    BY <1>1, <2>3
  <2>. QED
    BY <2>1, <2>2, <2>3
<1>4. ASSUME NEW j \in 2..n, NEW k \in 2..n, j < k PROVE order[j] < order[k]
  BY <1>1, <1>4
<1>. QED
  BY <1>2, <1>3, <1>4 DEF order

\* The switch margin of latencyRoutingPolicy.order: the division rounds towards
\* switching by less than one unit of time.  A candidate that takes first place
\* is a tenth faster up to that unit, and one that is a tenth faster takes it.
THEOREM SwitchMargin ==
  ASSUME NEW n \in Nat, NEW medians \in [1..n -> Nat], NEW best \in 2..n
  PROVE  /\ Ranking!Switches(medians, best) => 10 * medians[best] <= 9 * medians[1] + 9
         /\ ~Ranking!Switches(medians, best) => 10 * medians[best] > 9 * medians[1]
<1>. DEFINE a == medians[1]
           b == medians[best]
           d == a \div 10
<1>1. a \in Nat /\ b \in Nat /\ best # 1
  OBVIOUS
<1>2. Ranking!Switches(medians, best) <=> b <= a - d
  BY <1>1 DEF Ranking!Switches, Ranking!SwitchMarginDivisor
<1>. HIDE DEF a, b
<1>3. d \in Nat /\ 10 * d <= a /\ a < 10 * d + 10
  BY <1>1
<1>. HIDE DEF d
<1>4. /\ b <= a - d => 10 * b <= 9 * a + 9
      /\ ~(b <= a - d) => 10 * b > 9 * a
  BY <1>1, <1>3
<1>. QED
  BY <1>2, <1>4, Zenon DEF a, b
=============================================================================
