-------------------------- MODULE MCAdminSessions ---------------------------
EXTENDS AdminSessions, TLC

Symmetry == Permutations(Keys) \cup Permutations(Clients)
=============================================================================
