----------------------------- MODULE MCGateway ------------------------------
(* Instances of Gateway for TLC. *)
EXTENDS Gateway, TLC

CONSTANTS p1, p2, p3

\* Automatic mode with a policy that ranks.
Ranked == [providers |-> <<p1, p2>>, fallback |-> TRUE, rankEligible |-> TRUE,
           cacheEnabled |-> FALSE, known |-> TRUE, mapped |-> {p1, p2}, streams |-> {p1, p2},
           errors |-> {"unavailable"}, load |-> 2]

\* Automatic mode in configured order with a cache.
Cached == [Ranked EXCEPT !.rankEligible = FALSE, !.cacheEnabled = TRUE,
                         !.streams = {p1}, !.errors = {"unavailable", "invalid_request"}]

\* Automatic mode in configured order; one provider has no mapping and one
\* cannot stream.
Gaps == [providers |-> <<p1, p2, p3>>, fallback |-> TRUE, rankEligible |-> FALSE,
         cacheEnabled |-> FALSE, known |-> TRUE, mapped |-> {p1, p3}, streams |-> {p1},
         errors |-> {"rate_limited"}, load |-> 2]

\* One provider, chosen explicitly: requests compete for its trial.
Explicit == [providers |-> <<p1>>, fallback |-> FALSE, rankEligible |-> FALSE,
             cacheEnabled |-> FALSE, known |-> TRUE, mapped |-> {p1}, streams |-> {},
             errors |-> {"timeout"}, load |-> 3]

\* An explicit provider without a mapping.
Unmapped == [Explicit EXCEPT !.mapped = {}, !.load = 1]

\* Automatic mode without an entry for the logical model.
Unknown == [Gaps EXCEPT !.known = FALSE, !.mapped = {}, !.load = 1]

AllServices == {Ranked, Cached, Gaps, Explicit, Unmapped, Unknown}

Symmetry == Permutations(Requests)
=============================================================================
