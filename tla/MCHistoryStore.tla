--------------------------- MODULE MCHistoryStore ---------------------------
(* An instance of HistoryStore for TLC. *)
EXTENDS HistoryStore, TLC

CONSTANTS p1, p2

\* Two releases, one migration apart.
Releases == (p1 :> 1) @@ (p2 :> 2)

\* The first two start in the same microsecond, and a page of two ends between
\* them when the fourth, which is later and has more attempts than a detail
\* shows, is there; the third cannot be written as it stands.
Requests == 1..4
RequestData ==
  <<[started |-> 2, tokens |-> <<1>>], [started |-> 3, tokens |-> <<>>],
    [started |-> 6, tokens |-> <<9>>], [started |-> 5, tokens |-> <<1, 2>>]>>

ListQueries == {Requests, {1, 4}}
=============================================================================
