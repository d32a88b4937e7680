----------------------------- MODULE Accounting -----------------------------
(***************************************************************************)
(* Token and cost accounting (internal/accounting): what each provider and *)
(* model consumed, in unsigned machine words that saturate, for a bounded  *)
(* number of models, and the estimated cost of a call in whole micro-USD.  *)
(*                                                                         *)
(* A Tracker is a value, and its methods are operators on it, each what    *)
(* the method does under the tracker's lock.  MaxUint64 and                *)
(* TokensPerMillion are parameters, so that the arithmetic reaches its     *)
(* limits with small numbers.                                              *)
(***************************************************************************)
EXTENDS Naturals, FiniteSets

CONSTANTS
  MaxUint64,
  TokensPerMillion,
  Nil,                \* a figure that was not reported, a rate not configured
  NoUsage             \* a provider that reported no usage

ASSUME AccountingAssumption ==
  /\ MaxUint64 \in Nat /\ TokensPerMillion \in Nat \ {0}
  /\ TokensPerMillion \div 2 <= MaxUint64

-----------------------------------------------------------------------------
\* saturatingAdd, and whether it sets its flag
Clips(current, value) == current > MaxUint64 - value
SaturatingAdd(current, value) == IF Clips(current, value) THEN MaxUint64 ELSE current + value

\* checkedMultiply: Nil stands for "not ok".
CheckedMultiply(l, r) == IF l # 0 /\ r > MaxUint64 \div l THEN Nil ELSE l * r

Complete(usage) == usage # NoUsage /\ Nil \notin {usage.input, usage.output, usage.total}
Consistent(usage) ==
  usage.input <= MaxUint64 - usage.output /\ usage.total = usage.input + usage.output

\* The last line of EstimateMicroUSD: to the nearest, halves up.
Round(n) == (n + TokensPerMillion \div 2) \div TokensPerMillion

\* EstimateMicroUSD: Nil stands for "not available".
EstimateMicroUSD(usage, rates) ==
  IF ~Complete(usage) \/ Nil \in {rates.input, rates.output} THEN Nil
  ELSE IF ~Consistent(usage) THEN Nil
  ELSE LET inputCost == CheckedMultiply(usage.input, rates.input)
           outputCost == CheckedMultiply(usage.output, rates.output) IN
       IF inputCost = Nil \/ outputCost = Nil THEN Nil
       ELSE IF inputCost > MaxUint64 - outputCost THEN Nil
       ELSE IF inputCost + outputCost > MaxUint64 - TokensPerMillion \div 2 THEN Nil
       ELSE Round(inputCost + outputCost)

-----------------------------------------------------------------------------
Figures ==
  {"attempts", "withUsage", "withoutUsage", "partial", "input", "output", "total",
   "withCost", "withoutCost", "cost"}

NewAggregate == [figure |-> [f \in Figures |-> 0], overflowed |-> FALSE]

Reported(x) == IF x = Nil THEN 0 ELSE x
One(b) == IF b THEN 1 ELSE 0

\* What one call adds to each figure (Record and recordUsage).
Adds(usage, cost) ==
  LET available == usage # NoUsage /\ {usage.input, usage.output, usage.total} # {Nil} IN
  [f \in Figures |->
     CASE f = "attempts"     -> 1
       [] f = "withUsage"    -> One(available)
       [] f = "withoutUsage" -> One(~available)
       [] f = "partial"      -> One(available /\ ~(Complete(usage) /\ Consistent(usage)))
       [] f = "input"        -> IF available THEN Reported(usage.input) ELSE 0
       [] f = "output"       -> IF available THEN Reported(usage.output) ELSE 0
       [] f = "total"        -> IF available THEN Reported(usage.total) ELSE 0
       [] f = "withCost"     -> One(cost # Nil)
       [] f = "withoutCost"  -> One(cost = Nil)
       [] f = "cost"         -> Reported(cost)]

\* The figures added up with the flag set by the call that clips only.
AggregateForgetting(a, adds) ==
  [figure |-> [f \in Figures |-> SaturatingAdd(a.figure[f], adds[f])],
   overflowed |-> \E f \in Figures : Clips(a.figure[f], adds[f])]

\* saturatingAdd on every figure; the flag stays set.
Aggregate(a, adds) ==
  [figure |-> [f \in Figures |-> SaturatingAdd(a.figure[f], adds[f])],
   overflowed |-> a.overflowed \/ \E f \in Figures : Clips(a.figure[f], adds[f])]

\* NewTracker and SetPrices
NewTracker(maxModels, book) ==
  [models |-> [k \in {} |-> NewAggregate], prices |-> book, dropped |-> 0,
   maxModels |-> maxModels]

\* Record: a key that is not tracked needs room.
Room(t, key) == key \in DOMAIN t.models \/ Cardinality(DOMAIN t.models) < t.maxModels

\* Record: the cost of the call.
Cost(t, key, usage) == EstimateMicroUSD(usage, t.prices[key])

\* Tracker.Record
Record(t, key, usage) ==
  LET old == IF key \in DOMAIN t.models THEN t.models[key] ELSE NewAggregate
      new == Aggregate(old, Adds(usage, Cost(t, key, usage))) IN
  IF Room(t, key)
  THEN [t EXCEPT !.models = [k \in DOMAIN @ \cup {key} |-> IF k = key THEN new ELSE @[k]]]
  ELSE [t EXCEPT !.dropped = SaturatingAdd(@, 1)]
=============================================================================
