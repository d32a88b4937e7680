------------------------------ MODULE Breaker -------------------------------
(***************************************************************************)
(* What the circuit breaker promises its callers, without generations,     *)
(* counters or clocks: a tripped circuit gives out one trial at a time,    *)
(* and only the holder of the trial can move it on.                        *)
(***************************************************************************)
CONSTANTS
  Callers,  \* those who may hold the trial
  None      \* nobody holds it

VARIABLES
  mode,    \* "closed", "open" or "half_open"
  prober   \* the caller that holds the trial, or None

bvars == <<mode, prober>>

Init ==
  /\ mode = "closed"
  /\ prober = None

Trip ==
  /\ mode = "closed"
  /\ mode' = "open"
  /\ UNCHANGED prober

Probe(c) ==
  /\ mode # "closed"
  /\ prober = None
  /\ mode' = "half_open"
  /\ prober' = c

\* The trial ends: it recovers the circuit, reopens it, or is abandoned.
Resolve ==
  /\ mode = "half_open"
  /\ prober # None
  /\ mode' \in {"closed", "open", "half_open"}
  /\ prober' = None

Next ==
  \/ Trip
  \/ \E c \in Callers : Probe(c)
  \/ Resolve

Spec == Init /\ [][Next]_bvars
=============================================================================
