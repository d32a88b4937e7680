---------------------------- MODULE ChatRequest -----------------------------
(***************************************************************************)
(* What the gateway promises the client of one chat request: the content   *)
(* comes from one provider, and the request ends once, with success only   *)
(* if that provider produced the answer.                                   *)
(***************************************************************************)
CONSTANTS
  Requests,   \* chat requests
  Providers,  \* providers that may answer
  Nobody      \* no provider has answered

VARIABLES
  status,   \* status[r]: "open", "answered" or "failed"
  sources,  \* sources[r]: the providers whose content the client has
  by        \* by[r]: the provider that the answer is recorded for, or Nobody

cvars == <<status, sources, by>>

Init ==
  /\ status = [r \in Requests |-> "open"]
  /\ sources = [r \in Requests |-> {}]
  /\ by = [r \in Requests |-> Nobody]

\* Part of the answer, or all of it, reaches the client.
Deliver(r, p) ==
  /\ status[r] = "open"
  /\ sources[r] \subseteq {p}
  /\ sources' = [sources EXCEPT ![r] = {p}]
  /\ UNCHANGED <<status, by>>

\* The provider that ended the answer is the one its content came from.
Answer(r, p) ==
  /\ status[r] = "open"
  /\ sources[r] \subseteq {p}
  /\ status' = [status EXCEPT ![r] = "answered"]
  /\ by' = [by EXCEPT ![r] = p]
  /\ UNCHANGED sources

\* No provider answered, or the one that was answering failed.
Fail(r) ==
  /\ status[r] = "open"
  /\ status' = [status EXCEPT ![r] = "failed"]
  /\ UNCHANGED <<sources, by>>

Next ==
  \E r \in Requests :
    \/ \E p \in Providers : Deliver(r, p) \/ Answer(r, p)
    \/ Fail(r)

Spec == Init /\ [][Next]_cvars
=============================================================================
