---------------------------- MODULE ChatResponse ----------------------------
(***************************************************************************)
(* The HTTP response to one chat request: the handlers of                  *)
(* internal/httpapi/handler.go and errors.go write it through the response *)
(* writer of tracing.go, which remembers the status for the metric.        *)
(*                                                                         *)
(* A write to the connection succeeds, fails after some bytes, or fails    *)
(* with none; once one has failed, no later one succeeds (net/http).       *)
(***************************************************************************)
EXTENDS Naturals, Sequences

VARIABLES
  http,    \* [status, committed, outcome]: the writer's and the handler's variables
  wire,    \* what the client has received
  dead,    \* a write to the client has failed
  metric   \* the outcome counted by RecordRequest, "" before

responseVars == <<http, wire, dead, metric>>

ResponseInit ==
  /\ http = [status |-> 0, committed |-> FALSE, outcome |-> ""]
  /\ wire = <<>>
  /\ dead = FALSE
  /\ metric = ""

\* writeCompletionError and writeProviderError; "emit" is no provider error.
StatusOf(err) ==
  CASE err \in {"rejected", "invalid_request"} -> 400
    [] err = "rate_limited" -> 429
    [] err = "emit" -> 500
    [] err = "internal" -> 502
    [] err \in {"unavailable", "unmapped"} -> 503
    [] err = "timeout" -> 504

\* tracingResponseWriter.WriteHeader, and Write without it: the first one counts.
WithStatus(h, status) == IF h.status = 0 THEN [h EXCEPT !.status = status] ELSE h

\* Bytes for the client: how is "all", "some" or "none".
Send(item, how) ==
  /\ dead => how = "none"
  /\ wire' = CASE how = "all" -> Append(wire, item)
               [] how = "some" -> Append(wire, "cut")
               [] OTHER -> wire
  /\ dead' = (how # "all")

\* writeError and writeJSON; the result of the write is not looked at.
WriteJSON(status, item, how) ==
  /\ http' = WithStatus(http, status)
  /\ Send(item, how)

\* The emit closure of streamChatCompletions.  It fails unless all is written.
EmitFrame(how) ==
  /\ http' = [WithStatus(http, 200) EXCEPT !.committed = @ \/ how # "none"]
  /\ Send("frame", how)

\* The end of streamChatCompletions without a look at committed.
EndStreamUncommitted(err, cancelled, how) ==
  IF err # "nil" THEN WriteJSON(StatusOf(err), "error", how)
  ELSE http' = WithStatus(http, 200) /\ Send("done", how)

\* The end of streamChatCompletions, with recordCommittedStreamFailure.
EndStream(err, cancelled, how) ==
  IF err # "nil" /\ ~http.committed THEN WriteJSON(StatusOf(err), "error", how)
  ELSE IF err # "nil"
  THEN /\ http' = [http EXCEPT !.outcome = IF cancelled THEN "cancellation" ELSE "failure"]
       /\ UNCHANGED <<wire, dead>>
  ELSE http' = WithStatus(http, 200) /\ Send("done", how)

\* The end of chatCompletions for a request that does not stream.
EndCompletion(err, how) ==
  IF err # "nil" THEN WriteJSON(StatusOf(err), "error", how) ELSE WriteJSON(200, "answer", how)

\* requestOutcome, unless the handler has set an outcome.
RequestOutcome(cancelled) ==
  IF http.outcome # "" THEN http.outcome
  ELSE IF cancelled THEN "cancellation"
  ELSE IF http.status >= 500 THEN "server_error"
  ELSE IF http.status >= 400 THEN "client_error"
  ELSE "success"

\* The end of TraceRequests.
CountRequest(cancelled) ==
  /\ metric' = RequestOutcome(cancelled)
  /\ UNCHANGED <<http, wire, dead>>
=============================================================================
