-------------------------- MODULE RoutingDecision ---------------------------
(***************************************************************************)
(* One routing decision: Service.orderedProviders asks the policy of the   *)
(* request for the order of the eligible providers.  What the policy knows *)
(* is drawn from a bounded set of inputs, and the order it computes is     *)
(* compared with reference definitions that say what it should be without  *)
(* saying how it is found.                                                 *)
(***************************************************************************)
EXTENDS RoutingPolicies

CONSTANT Inputs    \* the decisions to be checked

VARIABLES
  input,           \* [policy, samples, rates, percent, due]
  order            \* the order chosen, <<>> before the decision

vars == <<input, order>>

Candidates == DOMAIN input.samples

Init == input \in Inputs /\ order = <<>>

Decide ==
  /\ order = <<>>
  /\ order' = PolicyOrder(input.policy, input.samples, input.rates, input.percent, input.due)
  /\ UNCHANGED input

Next == Decide

Spec == Init /\ [][Next]_vars

Decided == order # <<>>

-----------------------------------------------------------------------------
(***************************************************************************)
(* Reference definitions.                                                  *)
(***************************************************************************)
\* i stands before j in s.
Before(s, i, j) == \E k, l \in DOMAIN s : k < l /\ s[k] = i /\ s[l] = j

\* Nothing in s follows a candidate it dominates.
RespectsPrices(s) ==
  \A i, j \in ToSet(s) : RatesDominate(input.rates[i], input.rates[j]) => Before(s, i, j)

\* s comes before t in the lexicographic order of configured positions.
LexBefore(s, t) ==
  \E k \in DOMAIN s : s[k] < t[k] /\ \A l \in 1..(k - 1) : s[l] = t[l]

\* s is the order closest to the configured one that respects prices.
ClosestByPrice(s) ==
  /\ RespectsPrices(s)
  /\ \A t \in SetToSeqs(ToSet(s)) : t # s /\ RespectsPrices(t) => LexBefore(s, t)

\* i stands before j, which is configured before it.
Overtakes(s, i, j) == j < i /\ Before(s, i, j)

\* j has to wait in s for a candidate that dominates it, and i is not after that one.
WaitsLonger(s, j, i) ==
  \E k \in ToSet(s) :
    /\ RatesDominate(input.rates[k], input.rates[j])
    /\ (k = i \/ Before(s, i, k))

\* s is the configured order with at most the candidate i moved to the front.
OnlyMoved(s, i) ==
  \A j, k \in Candidates \ {i} : j < k => Before(s, j, k)

Fresh(i) == {k \in DOMAIN input.samples[i] : input.samples[i][k].age <= SampleMaxAge}
Lacking == {i \in Candidates : Cardinality(Fresh(i)) < MinSamples}
UsesLatency == input.policy \in {"latency", "cost_latency"} /\ Cardinality(Candidates) > 1

\* The exact comparison: (i - fastest) / fastest <= percent / 100.
Acceptable(medians, i) ==
  \A j \in DOMAIN medians :
    (\A k \in DOMAIN medians : medians[j] <= medians[k]) =>
      (medians[i] - medians[j]) * 100 <= medians[j] * input.percent

\* The cost_latency policy has the samples to order by price, and the part of
\* its order that it does order so.
ByTolerance == UsesLatency /\ input.policy = "cost_latency" /\ Lacking = {}
Inside == SelectSeq(order, LAMBDA i : Acceptable(Medians(input.samples), i))

-----------------------------------------------------------------------------
(***************************************************************************)
(* The cost policy returns the order closest to the configured one in      *)
(* which no provider follows one it dominates on price                     *)
(* (orderByPriceDominance, "stable topological ordering"); in particular   *)
(* its loop never gets stuck.  A provider may so overtake one that it does *)
(* not dominate, with conflicting, equal or missing prices, but only one   *)
(* that waits for a dominator at least as long.  The documentation states  *)
(* a stronger rule, which the code does not follow: one provider moves     *)
(* ahead of another only if it dominates it (docs/configuration.md,        *)
(* 157-159; with the prices (10, 10), (8, 12), (9, 9) the second provider  *)
(* moves ahead of the first).                                              *)
(***************************************************************************)
CostOrderStable ==
  Decided /\ input.policy = "cost" =>
    /\ ClosestByPrice(order)
    /\ \A i, j \in Candidates : Overtakes(order, i, j) => WaitsLonger(order, j, i)

(***************************************************************************)
(* While some candidate lacks fresh samples the latency policies keep the  *)
(* configured order, save that an exploring decision puts first a          *)
(* candidate no other lacks more samples than, the first such one          *)
(* (candidateMedians and explorationDue).  With enough samples the latency *)
(* policy puts a provider before the configured first one only if its      *)
(* median is at least 10% lower (rounded to a tick of the clock), and then *)
(* it is a fastest one; all others keep their places                       *)
(* (latencyRoutingPolicy.order, routingSwitchMarginDivisor).               *)
(***************************************************************************)
LatencyOrderJustified ==
  LET medians == Medians(input.samples)
      first == order[1]
      missing(i) == MinSamples - Cardinality(Fresh(i)) IN
  Decided /\ UsesLatency =>
    /\ Lacking # {} =>
         /\ OnlyMoved(order, first)
         /\ IF input.due
            THEN /\ first \in Lacking
                 /\ \A i \in Lacking : missing(i) <= missing(first)
                 /\ \A i \in Lacking : i < first => missing(i) < missing(first)
            ELSE first = 1
    /\ input.policy = "latency" /\ Lacking = {} =>
         /\ OnlyMoved(order, first)
         /\ first # 1 => /\ \A i \in Candidates : medians[first] <= medians[i]
                         /\ 10 * medians[first] <= 9 * medians[1] + 9
         /\ first = 1 => \A i \in Candidates : i = 1 \/ 10 * medians[i] > 9 * medians[1]

(***************************************************************************)
(* With enough samples the cost_latency policy tries every provider within *)
(* the tolerated percentage of the fastest median before every other one,  *)
(* the former in the order of the cost policy, with the same overtaking of *)
(* those that wait for a dominator, and the latter in configured order;    *)
(* the percentage is compared exactly, whatever the machine's word         *)
(* (costLatencyRoutingPolicy.order, withinLatencyTolerance).               *)
(***************************************************************************)
ToleranceBeforePrice ==
  Decided /\ ByTolerance =>
    LET outside == SelectSeq(order, LAMBDA i : ~Acceptable(Medians(input.samples), i)) IN
    /\ order = Inside \o outside
    /\ ClosestByPrice(Inside)
    /\ \A i, j \in ToSet(Inside) : Overtakes(Inside, i, j) => WaitsLonger(Inside, j, i)
    /\ \A i, j \in ToSet(outside) : i < j => Before(outside, i, j)
=============================================================================
