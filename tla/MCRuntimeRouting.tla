-------------------------- MODULE MCRuntimeRouting --------------------------
EXTENDS RuntimeRouting, TLC

Doc(p, i, t) == [policy |-> p, interval |-> i, percent |-> t]

\* The environment may ask for more than a document may.
StartupSettings == Doc("latency", 4, 101)

\* One document of each kind, and three that the gateway refuses.
SettingsSent ==
  { Doc("latency", 2, Nil), Doc("cost_latency", 3, 10), Doc("deterministic", 1, 50),
    Doc("cost", 4, 20), Doc("cost_latency", 2, Nil), Doc("latency", 1, 101) }

Symmetry == Permutations(Requests) \cup Permutations(Writers)
=============================================================================
