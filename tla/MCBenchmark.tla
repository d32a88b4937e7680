---------------------------- MODULE MCBenchmark -----------------------------
(***************************************************************************)
(* Benchmarks of two providers, one for each policy and mode.              *)
(***************************************************************************)
EXTENDS Benchmark

Use(i, o, t) == [input |-> i, output |-> o, total |-> t]
Rate(i, o) == [input |-> i, output |-> o]
Condition(ttfc, duration, error, committed, usage) ==
  [ttfc |-> ttfc, duration |-> duration, error |-> error, committed |-> committed,
   usage |-> usage]

\* Fast and slow answers; failures that lead to a fallback and that do not.
\* Usage that is complete, partial, inconsistent, missing, or overflows.
Answers ==
  { Condition(0, 3, "", FALSE, Use(3, 2, 5)),
    Condition(0, 1, "", FALSE, Use(31, 1, 0)),
    Condition(0, 1, "unavailable", FALSE, Use(3, 0, 3)),
    Condition(0, 2, "internal", FALSE, NoUsage),
    Condition(0, 1, "canceled", FALSE, Use(Nil, 3, Nil)) }
Streams ==
  { Condition(1, 2, "", FALSE, Use(3, 0, 3)),
    Condition(3, 3, "", FALSE, Use(31, 0, 31)),
    Condition(0, 1, "timeout", FALSE, Use(2, 2, 5)),
    Condition(1, 2, "unavailable", TRUE, Use(3, 2, 5)),
    Condition(0, 1, "rate_limited", FALSE, NoUsage) }

\* Rates whose products stay inside a word of five bits, leave it, or sum out of it.
Run(policy, streaming, rates, warmup, maxModels) ==
  [providers |-> 2, policy |-> policy, streaming |-> streaming, rates |-> rates,
   conditions |-> IF streaming THEN Streams ELSE Answers,
   warmup |-> warmup, requests |-> 3, maxModels |-> maxModels]

Benchmarks ==
  { Run("deterministic", FALSE, <<Rate(1, 1), Rate(5, 8)>>, 1, 2),
    Run("deterministic", TRUE, <<Rate(11, 1), Rate(11, Nil)>>, 1, 1),
    Run("latency", FALSE, <<Rate(1, 1), Rate(11, 1)>>, 1, 2),
    Run("latency", TRUE, <<Rate(1, 1), Rate(1, 1)>>, 0, 2),
    Run("cost", FALSE, <<Rate(5, 8), Rate(1, 1)>>, 0, 2),
    Run("cost_latency", TRUE, <<Rate(5, 8), Rate(1, 1)>>, 1, 2) }
=============================================================================
