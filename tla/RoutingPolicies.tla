-------------------------- MODULE RoutingPolicies ---------------------------
(***************************************************************************)
(* The routing policies (internal/gateway/routing.go) as functions from    *)
(* what is known of the eligible providers to the order in which they are  *)
(* tried.                                                                  *)
(*                                                                         *)
(* Candidates are numbered 1, 2, ... in configured order, and an order is  *)
(* a sequence of those numbers.  rates[i] holds the two prices of          *)
(* candidate i, Nil where none is configured; samples[i] its latency       *)
(* samples for the kind of request, each with its age at the time of the   *)
(* decision (the code keeps the instant it was observed at).               *)
(***************************************************************************)
EXTENDS Naturals, SequencesExt

CONSTANTS
  Nil,             \* a price that is not configured
  MinSamples,      \* RoutingConfig.MinSamples
  SampleMaxAge,    \* RoutingConfig.SampleMaxAge
  Width            \* bits of an unsigned machine word: 64 in the code

ASSUME RoutingAssumption ==
  /\ MinSamples \in Nat \ {0} /\ SampleMaxAge \in Nat \ {0}
  /\ Width \in Nat /\ 2^Width > 100

SwitchMarginDivisor == 10

Configured(n) == [i \in 1..n |-> i]

-----------------------------------------------------------------------------
\* ratesDominate
RatesDominate(l, r) ==
  /\ Nil \notin {l.input, l.output, r.input, r.output}
  /\ l.input <= r.input /\ l.output <= r.output
  /\ l.input < r.input \/ l.output < r.output

\* The candidates that must come before j (edges and indegree).
Dominators(rates, among, j) == {i \in among : RatesDominate(rates[i], rates[j])}

\* The last provider without dominators is taken instead of the first.
OrderByPriceDominanceLast(cands, rates) ==
  LET among == ToSet(cands)
      ready(prefix) ==
        {k \in DOMAIN cands :
           /\ ~Contains(prefix, cands[k])
           /\ Dominators(rates, among, cands[k]) \subseteq ToSet(prefix)}
      result[n \in 0..Len(cands)] ==
        IF n = 0 THEN <<>>
        ELSE LET prefix == result[n - 1] IN
             IF ready(prefix) = {} THEN prefix
             ELSE Append(prefix, cands[Max(ready(prefix))])
      ordered == result[Len(cands)]
  IN IF Len(ordered) < Len(cands) THEN cands ELSE ordered

\* orderByPriceDominance, for the candidates of the sequence cands: take the
\* first one whose dominators have all been taken, again and again.
OrderByPriceDominance(cands, rates) ==
  LET among == ToSet(cands)
      ready(prefix) ==
        {k \in DOMAIN cands :
           /\ ~Contains(prefix, cands[k])
           /\ Dominators(rates, among, cands[k]) \subseteq ToSet(prefix)}
      result[n \in 0..Len(cands)] ==
        IF n = 0 THEN <<>>
        ELSE LET prefix == result[n - 1] IN
             IF ready(prefix) = {} THEN prefix
             ELSE Append(prefix, cands[Min(ready(prefix))])
      ordered == result[Len(cands)]
  IN IF Len(ordered) < Len(cands) THEN cands ELSE ordered

-----------------------------------------------------------------------------
\* recentLatencySamples
RecentLatencySamples(s) == SelectSeq(s, LAMBDA x : x.age <= SampleMaxAge)

\* medianDuration, of a sequence that is not empty
MedianDuration(s) ==
  LET values == SortSeq([k \in DOMAIN s |-> s[k].duration], <)
      middle == Len(s) \div 2 + 1
      lower == values[middle - 1]
      upper == values[middle]
  IN IF Len(s) % 2 # 0 THEN values[middle] ELSE lower + (upper - lower) \div 2

\* candidateMedians: what each candidate lacks, the first one that lacks most
\* (0 for none), and the medians.
Deficit(samples, i) ==
  LET have == Len(RecentLatencySamples(samples[i]))
  IN IF have < MinSamples THEN MinSamples - have ELSE 0

ExplorationCandidate(samples) ==
  LET lacking == {i \in DOMAIN samples : Deficit(samples, i) > 0}
  IN IF lacking = {} THEN 0
     ELSE Min({i \in lacking : \A j \in lacking : Deficit(samples, j) <= Deficit(samples, i)})

Medians(samples) == [i \in DOMAIN samples |-> MedianDuration(RecentLatencySamples(samples[i]))]

\* moveProviderToFront
MoveToFront(order, i) ==
  [k \in DOMAIN order |-> IF k = 1 THEN order[i]
                          ELSE IF k <= i THEN order[k - 1] ELSE order[k]]

\* Both latency policies while samples are lacking; due is explorationDue.
Explore(samples, due) ==
  LET n == Len(samples) IN
  IF due THEN MoveToFront(Configured(n), ExplorationCandidate(samples)) ELSE Configured(n)

\* Any improvement is enough to switch.
SwitchesOnAnyGain(medians, best) == best # 1

\* latencyRoutingPolicy.order: is the fastest one far enough ahead of the first?
Switches(medians, best) ==
  best # 1 /\ medians[best] <= medians[1] - medians[1] \div SwitchMarginDivisor

\* latencyRoutingPolicy.order
LatencyOrder(samples, due) ==
  LET n == Len(samples) IN
  IF n < 2 THEN Configured(n)
  ELSE IF ExplorationCandidate(samples) # 0 THEN Explore(samples, due)
  ELSE LET medians == Medians(samples)
           best == Min({i \in 1..n : \A j \in 1..n : medians[i] <= medians[j]})
       IN IF Switches(medians, best) THEN MoveToFront(Configured(n), best) ELSE Configured(n)

-----------------------------------------------------------------------------
\* bits.Mul64: the high and the low word of a product.
Mul(a, b) == [high |-> (a * b) \div 2^Width, low |-> (a * b) % 2^Width]

\* withinLatencyTolerance with products that wrap around.
WithinToleranceWrapping(candidate, fastest, percent) ==
  \/ candidate <= fastest
  \/ /\ fastest > 0
     /\ Mul(candidate - fastest, 100).low <= Mul(fastest, percent).low

\* withinLatencyTolerance
WithinTolerance(candidate, fastest, percent) ==
  \/ candidate <= fastest
  \/ /\ fastest > 0
     /\ LET difference == Mul(candidate - fastest, 100)
            limit == Mul(fastest, percent)
        IN \/ difference.high < limit.high
           \/ difference.high = limit.high /\ difference.low <= limit.low

\* costLatencyRoutingPolicy.order
CostLatencyOrder(samples, rates, percent, due) ==
  LET n == Len(samples) IN
  IF n < 2 THEN Configured(n)
  ELSE IF ExplorationCandidate(samples) # 0 THEN Explore(samples, due)
  ELSE LET medians == Medians(samples)
           fastest == Min({medians[i] : i \in 1..n})
           within(i) == WithinTolerance(medians[i], fastest, percent)
       IN OrderByPriceDominance(SelectSeq(Configured(n), within), rates)
            \o SelectSeq(Configured(n), LAMBDA i : ~within(i))

\* order of the policy of the given name (newRoutingPolicy).
PolicyOrder(policy, samples, rates, percent, due) ==
  CASE policy = "deterministic" -> Configured(Len(samples))
    [] policy = "latency"       -> LatencyOrder(samples, due)
    [] policy = "cost"          -> OrderByPriceDominance(Configured(Len(samples)), rates)
    [] policy = "cost_latency"  -> CostLatencyOrder(samples, rates, percent, due)
=============================================================================
