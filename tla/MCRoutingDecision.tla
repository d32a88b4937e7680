------------------------- MODULE MCRoutingDecision --------------------------
EXTENDS RoutingDecision

Age(d, a) == [duration |-> d, age |-> a]

\* Fresh and stale samples, one and two short of MinSamples = 2, medians on
\* both sides of the 10% margin, even and odd counts, not in order.
SampleSet ==
  { <<>>, <<Age(10, 0)>>, <<Age(10, 3), Age(20, 4)>>, <<Age(9, 3), Age(9, 0)>>,
    <<Age(22, 2), Age(14, 1)>>, <<Age(19, 0), Age(5, 9), Age(19, 1)>>,
    <<Age(20, 1), Age(50, 1), Age(8, 0)>> }

\* Enough samples, with medians where a wrapped product would be wrong.
MeasuredSet == { <<Age(d, 0), Age(d, 1)>> : d \in {0, 20, 22, 40} }

Price(i, o) == [input |-> i, output |-> o]
\* Prices that dominate each other, conflict, are equal or are missing; and
\* some where a provider in conflict with another meets one that dominates it.
RateSet == { Price(Nil, 1), Price(1, 1), Price(1, 2), Price(2, 1), Price(2, 2) }
ConflictSet == { Price(10, 10), Price(8, 12), Price(9, 9) }

NoRates(n) == [i \in 1..n |-> Price(Nil, Nil)]

Decision(policy, samples, rates, percent, due) ==
  [policy |-> policy, samples |-> samples, rates |-> rates, percent |-> percent, due |-> due]

DecisionInputs ==
       { Decision("latency", s, NoRates(3), 0, d) : s \in [1..3 -> SampleSet], d \in BOOLEAN }
  \cup { Decision("cost", [i \in 1..4 |-> <<>>], r, 0, FALSE) : r \in [1..4 -> RateSet] }
  \cup { Decision("cost", [i \in 1..3 |-> <<>>], r, 0, FALSE) : r \in [1..3 -> ConflictSet] }
  \cup { Decision("cost_latency", s, r, p, FALSE) :
           s \in [1..3 -> MeasuredSet], r \in [1..3 -> RateSet], p \in {0, 10, 100} }
  \cup { Decision("cost_latency", s, NoRates(3), 20, d) : s \in [1..3 -> SampleSet], d \in BOOLEAN }
  \cup { Decision(p, s, NoRates(1), 20, d) :
           s \in [1..1 -> SampleSet], d \in BOOLEAN,
           p \in {"deterministic", "latency", "cost", "cost_latency"} }
=============================================================================
