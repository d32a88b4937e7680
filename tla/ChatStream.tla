----------------------------- MODULE ChatStream -----------------------------
(***************************************************************************)
(* One chat request from its HTTP handler to the bytes of one provider and *)
(* back: the handler of ChatResponse calls the gateway, whose loop         *)
(* (internal/gateway/service.go) reads the stream of ProviderStream and    *)
(* hands its visible chunks to the handler's emit.  Meanwhile the client   *)
(* may leave and the watchdog may cancel the stream.  The choice among     *)
(* providers, circuits and the cache are the subject of Gateway.           *)
(***************************************************************************)
EXTENDS ProviderStream, ChatResponse

CONSTANT MaxLines  \* bound: the lines a body has

ASSUME MaxLinesAssumption == MaxLines \in Nat

VARIABLES
  pc,         \* "handler", "call", "reading", "emit", "respond", "trace" or "done"
  streaming,  \* the request asks for a stream
  svc,        \* [err, usage]: the gateway's error and attemptUsage
  left,       \* the request's context has ended: the client has left
  idle,       \* the watchdog has cancelled the stream's context
  lines       \* the number of lines read

serviceVars == <<pc, streaming, svc, left, idle, lines>>

vars == <<providerVars, responseVars, serviceVars>>

Init ==
  /\ ProviderInit
  /\ ResponseInit
  /\ pc = "handler"
  /\ streaming \in BOOLEAN
  /\ svc = [err |-> "nil", usage |-> NoUsage]
  /\ left = FALSE /\ idle = FALSE
  /\ lines = 0

Writes == {"all", "some", "none"}

-----------------------------------------------------------------------------
\* chatCompletions refuses the request, or hands it to the gateway.
BadRequest ==
  /\ pc = "handler"
  /\ \E status \in {400, 415}, how \in Writes : WriteJSON(status, "error", how)
  /\ svc' = [svc EXCEPT !.err = "rejected"]
  /\ pc' = "trace"
  /\ UNCHANGED <<providerVars, metric, streaming, left, idle, lines>>

Accept ==
  /\ pc = "handler"
  /\ pc' = "call"
  /\ UNCHANGED <<providerVars, responseVars, streaming, svc, left, idle, lines>>

\* The gateway returns err.
Returns(err) ==
  /\ svc' = [svc EXCEPT !.err = err]
  /\ pc' = "respond"

\* It returns before any call: a request it does not take, no usable mapping, or
\* no provider whose circuit lets the request in.
Refuse ==
  /\ pc = "call"
  /\ \E err \in {"rejected", "unmapped", "unavailable"} : Returns(err)
  /\ UNCHANGED <<providerVars, responseVars, streaming, left, idle, lines>>

\* Complete of the adapter.
CompleteFails ==
  /\ pc = "call" /\ ~streaming
  /\ \E stage \in CompleteStages : \E err \in StageErrors(stage) : Returns(err)
  /\ UNCHANGED <<providerVars, responseVars, streaming, left, idle, lines>>

CompleteAnswers ==
  /\ pc = "call" /\ ~streaming
  /\ \E doc \in Documents[dialect] :
       IF doc.usage # NoUsage /\ CompleteUsageMalformed(doc.usage)
       THEN Returns("internal") /\ UNCHANGED reported
       ELSE /\ svc' = [svc EXCEPT !.usage = CompleteUsage(doc.usage)]
            /\ pc' = "respond"
            /\ reported' = [input |-> Count(doc.usage, "input"), output |-> Count(doc.usage, "output")]
  /\ UNCHANGED <<dialect, event, stream, body, dog, terminated, responseVars,
                 streaming, left, idle, lines>>

\* Stream of the adapter.
OpenStreamFails ==
  /\ pc = "call" /\ streaming
  /\ \E stage \in StreamStages :
       /\ OpenFails(stage)
       /\ \E err \in StageErrors(stage) : Returns(err)
  /\ UNCHANGED <<dialect, event, stream, terminated, reported, responseVars,
                 streaming, left, idle, lines>>

OpenStream ==
  /\ pc = "call" /\ streaming
  /\ Opens
  /\ pc' = "reading"
  /\ UNCHANGED <<dialect, event, stream, terminated, reported, responseVars,
                 streaming, svc, left, idle, lines>>

-----------------------------------------------------------------------------
\* mergeUsage of service.go.
Overlay(current, incoming) ==
  IF incoming = NoUsage THEN current
  ELSE [input  |-> Newer(incoming.input, Count(current, "input")),
        output |-> Newer(incoming.output, Count(current, "output")),
        total  |-> Newer(incoming.total, Count(current, "total"))]

ClientVisible(chunk) == chunk.role \/ chunk.content \/ chunk.finish

\* The gateway's loop goes on with what Next returned.
Handle(result) ==
  CASE result.kind = "more" -> UNCHANGED <<pc, svc, body, dog>>
    [] result.kind = "eof" -> Close /\ Returns("nil")
    [] result.kind = "error" -> Close /\ Returns(result.err)
    [] result.kind = "chunk" ->
         /\ svc' = [svc EXCEPT !.usage = Overlay(@, result.usage)]
         /\ pc' = IF ClientVisible(result) THEN "emit" ELSE pc
         /\ UNCHANGED <<body, dog>>

\* The results Next can return now.
Results ==
  {More, Eof} \cup {Failed(k) : k \in {"internal", "unavailable", "timeout"}}
    \cup {Next_(stream, event.type, doc).result : doc \in Decoded(event.data)}

Read ==
  /\ pc = "reading" /\ lines < MaxLines
  /\ \E line \in Lines(dialect), result \in Results :
       ReadLine(line, left \/ idle, result) /\ Handle(result)
  /\ lines' = lines + 1
  /\ UNCHANGED <<dialect, responseVars, streaming, left, idle>>

\* The body ends, or the read fails, or it is cut short by the cancellation.
BodyEnds ==
  /\ pc = "reading"
  /\ \E clean \in BOOLEAN : Handle(EndOfBody(left \/ idle, clean))
  /\ UNCHANGED <<dialect, event, stream, terminated, reported, responseVars,
                 streaming, left, idle, lines>>

\* emit; its failure ends the attempt.
Emit ==
  /\ pc = "emit"
  /\ \E how \in Writes :
       /\ EmitFrame(how)
       /\ IF how = "all" THEN pc' = "reading" /\ UNCHANGED <<svc, body, dog>>
                         ELSE Close /\ Returns("emit")
  /\ UNCHANGED <<dialect, event, stream, terminated, reported, metric,
                 streaming, left, idle, lines>>

\* The handler ends the response.
Respond ==
  /\ pc = "respond"
  /\ \E how \in Writes :
       IF streaming THEN EndStream(svc.err, left, how) ELSE EndCompletion(svc.err, how)
  /\ pc' = "trace"
  /\ UNCHANGED <<providerVars, metric, streaming, svc, left, idle, lines>>

\* TraceRequests counts the request.
Trace ==
  /\ pc = "trace"
  /\ CountRequest(left)
  /\ pc' = "done"
  /\ UNCHANGED <<providerVars, streaming, svc, left, idle, lines>>

\* The environment: the client leaves; the watchdog fires while a read waits.
ClientLeaves ==
  /\ ~left /\ pc # "done"
  /\ left' = TRUE
  /\ UNCHANGED <<providerVars, responseVars, pc, streaming, svc, idle, lines>>

WatchdogFires ==
  /\ pc = "reading" /\ dog = "running" /\ ~idle
  /\ idle' = TRUE
  /\ UNCHANGED <<providerVars, responseVars, pc, streaming, svc, left, lines>>

Next ==
  \/ BadRequest \/ Accept \/ Refuse
  \/ CompleteFails \/ CompleteAnswers
  \/ OpenStreamFails \/ OpenStream \/ Read \/ BodyEnds \/ Emit
  \/ Respond \/ Trace
  \/ ClientLeaves \/ WatchdogFires

Spec == Init /\ [][Next]_vars

-----------------------------------------------------------------------------
TypeOK ==
  /\ dialect \in Dialects
  /\ event.data \in Seq(Values(dialect)) /\ Size(event.data) <= MaxEventSize
  /\ body \in {"none", "open", "closed"} /\ dog \in {"none", "running", "stopped"}
  /\ pc \in {"handler", "call", "reading", "emit", "respond", "trace", "done"}
  /\ {terminated, streaming, left, idle, dead, http.committed, stream.sentRole} \subseteq BOOLEAN
  /\ lines \in 0..MaxLines

HasDone(w) == \E i \in DOMAIN w : w[i] = "done"
Over == pc \in {"respond", "trace", "done"}

(* A stream counts as completed, and the client reads [DONE], only if the    *)
(* provider's own last event was received whole: a body that merely ends, or *)
(* ends inside an event, is a failure.  The request metric agrees with how   *)
(* the request ended: it says success exactly for requests that ended        *)
(* without an error while the client stayed, with one exception, a stream    *)
(* whose very first write failed with nothing written.                       *)
CompletionIsEarned ==
  /\ Over /\ streaming /\ svc.err = "nil" => terminated
  /\ HasDone(wire) => terminated /\ svc.err = "nil"
  /\ pc = "done" =>
       /\ metric = "success" => svc.err = "nil" \/ (svc.err = "emit" /\ wire = <<>>)
       /\ metric # "success" => svc.err # "nil" \/ left

\* Frames that nothing but [DONE] or a cut follows.
IsStream(w) == \A i \in DOMAIN w : w[i] = "frame" \/ (i = Len(w) /\ w[i] \in {"done", "cut"})

(* The client reads one response: a single JSON document under the status    *)
(* that goes with it, or frames under 200 that nothing but [DONE] or a cut   *)
(* follows; an error found after the first frame is never written into the   *)
(* stream.                                                                   *)
OneResponse ==
  \/ wire = <<>>
  \/ wire = <<"error">> /\ http.status >= 400
  \/ wire = <<"answer">> /\ http.status = 200 /\ svc.err = "nil"
  \/ wire = <<"cut">>
  \/ streaming /\ http.status = 200 /\ IsStream(wire)

(* The usage that is accounted to the attempt has the counts the provider    *)
(* last reported, over all its events, and a total that is their sum         *)
(* whenever both are known.                                                  *)
UsageIsLatest ==
  /\ Count(svc.usage, "input") = reported.input
  /\ Count(svc.usage, "output") = reported.output
  /\ Nil \notin {reported.input, reported.output} =>
       svc.usage.total = reported.input + reported.output /\ svc.usage.total <= MaxUint64

(* When the gateway has returned, on whatever path, the watchdog's goroutine *)
(* has been stopped and the provider's response body closed.  The state      *)
(* keeps its type.                                                           *)
NothingLeaks == TypeOK /\ (Over => dog # "running" /\ body # "open")
=============================================================================
