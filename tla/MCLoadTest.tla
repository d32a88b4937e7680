----------------------------- MODULE MCLoadTest -----------------------------
(***************************************************************************)
(* Load tests in every mode of the cache: with one worker, whose two       *)
(* results are more than the channel holds; with two workers; with a cache *)
(* that may fail; with a history and its monitor; and after another test,  *)
(* with entries of it in the cache, which may expire like any other.       *)
(***************************************************************************)
EXTENDS LoadTest

CONSTANTS w1, w2

Load(pool, n, m, history, faults) ==
  [pool |-> pool, requests |-> n, mode |-> m, persistence |-> history, flaky |-> faults,
   leftover |-> {}, expiry |-> FALSE]

AfterTest(keys, setup1) == [setup1 EXCEPT !.leftover = keys, !.expiry = TRUE]

LoadSetups ==
  {Load({w1}, 2, m, FALSE, FALSE) : m \in {"miss", "warm_hit"}}
    \cup {Load({w1, w2}, 2, "disabled", FALSE, FALSE)}
    \cup {Load({w1}, 1, m, FALSE, TRUE) : m \in {"miss", "warm_hit"}}
    \cup {Load({w1}, 1, m, TRUE, FALSE) : m \in {"miss", "warm_hit"}}
    \cup {AfterTest({Offset}, Load({w1}, 1, "miss", FALSE, FALSE)),
          AfterTest({0}, Load({w1}, 1, "warm_hit", FALSE, FALSE)),
          [Load({w1}, 1, "warm_hit", FALSE, FALSE) EXCEPT !.leftover = {0}]}
=============================================================================
