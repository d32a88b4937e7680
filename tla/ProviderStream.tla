--------------------------- MODULE ProviderStream ---------------------------
(***************************************************************************)
(* A streamed answer as the provider adapters read it: the lines of the    *)
(* body become server-sent events (internal/provider/sse.go), and Next of  *)
(* the OpenAI or the Anthropic adapter turns events into chunks, the end   *)
(* of the stream or an error (internal/provider/openai,                    *)
(* internal/provider/anthropic).                                           *)
(*                                                                         *)
(* A line is a field and a value.  The value of a data line is a JSON      *)
(* document, part of one, or something else; a document is known by the    *)
(* fields Next looks at.  Sizes count data lines and the newlines between  *)
(* them.                                                                   *)
(***************************************************************************)
EXTENDS Naturals, Sequences

CONSTANTS
  Documents,     \* Documents[d]: the documents a provider of the dialect d sends
  EventTypes,    \* EventTypes[d]: the values of its event lines
  MaxEventSize,  \* MaxSSEEventSize
  MaxUint64,
  Nil,           \* a token count that is absent
  NoUsage        \* a usage that is absent

Dialects == {"openai", "anthropic"}

\* The fields that Next looks at.  Anthropic reports no total, and its adapter
\* looks for a usage only in the start of a message and the changes to one.
\* "error" stands for every type that it does not know.
MessageTypes ==
  {"", "ping", "message_start", "content_block_start", "content_block_delta",
   "content_block_stop", "message_delta", "message_stop", "error"}
Counts == 0..MaxUint64 \cup {Nil}
Usage == [input : Counts, output : Counts, total : Counts]
OpenAIDocument ==
  [kind : {"json"}, choice : BOOLEAN, role : BOOLEAN, content : BOOLEAN, finish : BOOLEAN,
   usage : Usage \cup {NoUsage}]
AnthropicDocument ==
  [kind : {"json"}, type : MessageTypes, text : {"unsupported", "empty", "some"}, stop : BOOLEAN,
   usage : [input : Counts, output : Counts] \cup {NoUsage}]

ASSUME ProviderStreamAssumption ==
  /\ MaxEventSize \in Nat /\ MaxUint64 \in Nat
  /\ Nil \notin 0..MaxUint64
  /\ NoUsage \notin Usage \cup [input : Counts, output : Counts]
  /\ DOMAIN Documents = Dialects /\ DOMAIN EventTypes = Dialects
  /\ Documents["openai"] \subseteq OpenAIDocument
  /\ Documents["anthropic"] \subseteq AnthropicDocument
  /\ \A doc \in Documents["anthropic"] :
       doc.usage # NoUsage => doc.type \in {"message_start", "message_delta"}
  /\ \A d \in Dialects : EventTypes[d] \subseteq MessageTypes

VARIABLES
  dialect,    \* the adapter
  event,      \* SSEReader.event
  stream,     \* the adapter's stream: [sentRole, usage]
  body,       \* the response body: "none", "open" or "closed"
  dog,        \* the watchdog of stream_idle.go: "none", "running" or "stopped"
  terminated, \* the provider's last event has been received as a whole
  reported    \* the token counts last reported by well-formed events

providerVars == <<dialect, event, stream, body, dog, terminated, reported>>

NoEvent == [type |-> "", data |-> <<>>]

ProviderInit ==
  /\ dialect \in Dialects
  /\ event = NoEvent
  /\ stream = [sentRole |-> FALSE, usage |-> NoUsage]
  /\ body = "none" /\ dog = "none"
  /\ terminated = FALSE
  /\ reported = [input |-> Nil, output |-> Nil]

-----------------------------------------------------------------------------
\* What Next returns; More: it goes on to the next event.
More == [kind |-> "more"]
Eof == [kind |-> "eof"]
Failed(k) == [kind |-> "error", err |-> k]
Chunk(role, content, finish, usage) ==
  [kind |-> "chunk", role |-> role, content |-> content, finish |-> finish, usage |-> usage]

\* Documents that are no JSON: the OpenAI terminator, a part of a document
\* spread over several data lines, and nonsense.
Terminator == [kind |-> "done"]
Part == [kind |-> "part"]
Malformed == [kind |-> "malformed"]
Empty == [kind |-> "empty"]

Values(d) == Documents[d] \cup {Terminator, Part, Malformed}

Lines(d) ==
  {[field |-> "blank"], [field |-> "comment"]}
    \cup {[field |-> "event", value |-> t] : t \in EventTypes[d]}
    \cup {[field |-> "data", value |-> v] : v \in Values(d)}

Size(data) == IF data = <<>> THEN 0 ELSE 2 * Len(data) - 1

\* What the data of an event can be: parts may add up to any document, but
\* nothing else can follow a document.
Decoded(data) ==
  IF data = <<>> THEN {Empty}
  ELSE IF Len(data) = 1 /\ data[1] # Part THEN {data[1]}
  ELSE IF Len(data) > 1 /\ \A i \in DOMAIN data : data[i] = Part
       THEN Documents[dialect] \cup {Malformed}
  ELSE {Malformed}

-----------------------------------------------------------------------------
Count(u, f) == IF u = NoUsage THEN Nil ELSE u[f]

\* normalizeUsage of the OpenAI adapter: all counts or none, and they add up.
UsageMalformed(u) ==
  LET counts == {u.input, u.output, u.total} IN
  /\ counts # {Nil}
  /\ Nil \in counts \/ u.input > MaxUint64 - u.output \/ u.total # u.input + u.output

NormalizeUsage(u) ==
  IF u = NoUsage \/ {Count(u, "input"), Count(u, "output"), Count(u, "total")} = {Nil}
  THEN NoUsage ELSE u

\* Next of openai.stream for one event, whose data is the document doc.
OpenAINext(doc) ==
  IF doc.kind = "done" THEN Eof
  ELSE IF doc.kind = "empty" THEN More
  ELSE IF doc.kind # "json" THEN Failed("internal")
  ELSE IF doc.usage # NoUsage /\ UsageMalformed(doc.usage) THEN Failed("internal")
  ELSE LET usage == NormalizeUsage(doc.usage) IN
       IF doc.choice THEN Chunk(doc.role, doc.content, doc.finish, usage)
       ELSE IF usage # NoUsage THEN Chunk(FALSE, FALSE, FALSE, usage)
       ELSE Failed("internal")

-----------------------------------------------------------------------------
Newer(new, old) == IF new = Nil THEN old ELSE new

\* mergeUsage that computes the total once.
MergedOnce(current, u) ==
  LET input == Newer(u.input, Count(current, "input"))
      output == Newer(u.output, Count(current, "output"))
      total == Count(current, "total")
  IN [input |-> input, output |-> output,
      total |-> IF total # Nil \/ Nil \in {input, output} THEN total ELSE input + output]

\* mergeUsage of the Anthropic adapter, for a usage with some count in it.
Merged(current, u) ==
  LET input == Newer(u.input, Count(current, "input"))
      output == Newer(u.output, Count(current, "output"))
  IN [input |-> input, output |-> output,
      total |-> IF Nil \in {input, output} THEN Count(current, "total") ELSE input + output]

Reports(u) == Count(u, "input") # Nil \/ Count(u, "output") # Nil

MergeUsage(current, u) == IF Reports(u) THEN Merged(current, u) ELSE current

\* mergeUsage fails: the sum would not fit.
Overflows(current, u) ==
  LET input == Newer(Count(u, "input"), Count(current, "input"))
      output == Newer(Count(u, "output"), Count(current, "output"))
  IN Reports(u) /\ Nil \notin {input, output} /\ input > MaxUint64 - output

\* The fields a document of another type does not have.
Zero == [kind |-> "json", type |-> "", usage |-> NoUsage, text |-> "unsupported", stop |-> FALSE]

\* Next of anthropic.stream for one event.  The event line's type comes first.
AnthropicNext(s, type, doc) ==
  LET decoded == IF doc.kind = "json" THEN doc ELSE Zero
      eventType == IF type # "" THEN type ELSE decoded.type
      d == IF decoded.type = eventType THEN decoded ELSE Zero
      same(result) == [stream |-> s, result |-> result]
      text(content) == [stream |-> [s EXCEPT !.sentRole = TRUE],
                        result |-> Chunk(~s.sentRole, content, FALSE, NoUsage)]
      merged == MergeUsage(s.usage, d.usage)
      keeping(result) == [stream |-> [s EXCEPT !.usage = merged], result |-> result]
  IN
  IF doc.kind \notin {"json", "empty"} THEN same(Failed("internal"))
  ELSE CASE eventType \in {"ping", "content_block_stop"} -> same(More)
         [] eventType = "message_start" ->
              IF Overflows(s.usage, d.usage) THEN same(Failed("internal"))
              ELSE keeping(IF merged = NoUsage THEN More ELSE Chunk(FALSE, FALSE, FALSE, merged))
         [] eventType = "content_block_start" ->
              IF d.text = "unsupported" THEN same(Failed("internal"))
              ELSE IF d.text = "empty" THEN same(More) ELSE text(TRUE)
         [] eventType = "content_block_delta" ->
              IF d.text = "unsupported" THEN same(Failed("internal"))
              ELSE text(d.text = "some")
         [] eventType = "message_delta" ->
              IF Overflows(s.usage, d.usage) THEN same(Failed("internal"))
              ELSE keeping(IF d.stop THEN Chunk(FALSE, FALSE, TRUE, merged)
                           ELSE IF d.usage # NoUsage THEN Chunk(FALSE, FALSE, FALSE, merged)
                           ELSE More)
         [] eventType = "message_stop" -> same(Eof)
         [] OTHER -> same(Failed("internal"))

Next_(s, type, doc) ==
  IF dialect = "openai" THEN [stream |-> s, result |-> OpenAINext(doc)]
                        ELSE AnthropicNext(s, type, doc)

-----------------------------------------------------------------------------
\* Next when the events end: by cancellation, by the end of the body or a failed
\* read, or because an event is too large.
ReadError(cancelled, tooLarge) ==
  Failed(IF cancelled THEN "timeout" ELSE IF tooLarge THEN "internal" ELSE "unavailable")

\* Next that takes the end of the body for the end of the stream.
EndOfBodyAccepted(cancelled, clean) ==
  IF clean /\ event = NoEvent /\ ~cancelled THEN Eof ELSE ReadError(cancelled, FALSE)

\* The body ends before the provider's last event: SSEReader.Next returns io.EOF
\* after a clean end and a complete event, ErrSSERead otherwise, and Next answers
\* both alike.
EndOfBody(cancelled, clean) == ReadError(cancelled, FALSE)

\* The event by which the provider ends its stream.
LastEvent(type, doc) ==
  IF dialect = "openai" THEN doc = Terminator
  ELSE "message_stop" = IF type = "" /\ doc.kind = "json" THEN doc.type ELSE type

\* The usage that a document carries in an event of this type.
CarriedUsage(type, doc) ==
  IF doc.kind = "json" /\ (dialect = "openai" \/ type \in {"", doc.type})
  THEN doc.usage ELSE NoUsage

\* SSEReader.Next reads a line, which may complete an event; the adapter's Next
\* then returns result, or goes on (More).
ReadLine(line, cancelled, result) ==
  /\ body = "open"
  /\ IF line.field = "data" /\ Size(Append(event.data, line.value)) > MaxEventSize
     THEN /\ result = ReadError(cancelled, TRUE)
          /\ UNCHANGED <<event, stream, terminated, reported>>
     ELSE IF line.field = "blank" /\ event # NoEvent
     THEN \E doc \in Decoded(event.data) :
            LET next == Next_(stream, event.type, doc)
                usage == CarriedUsage(event.type, doc)
            IN
            /\ result = next.result
            /\ stream' = next.stream
            /\ event' = NoEvent
            /\ terminated' = LastEvent(event.type, doc)
            /\ reported' = IF result.kind = "chunk"
                           THEN [input |-> Newer(Count(usage, "input"), reported.input),
                                 output |-> Newer(Count(usage, "output"), reported.output)]
                           ELSE reported
     ELSE /\ result = More
          /\ event' = CASE line.field = "event" -> [event EXCEPT !.type = line.value]
                        [] line.field = "data" -> [event EXCEPT !.data = Append(@, line.value)]
                        [] OTHER -> event
          /\ UNCHANGED <<stream, terminated, reported>>

-----------------------------------------------------------------------------
\* The errors of a call, by the stage at which it fails: upstreamRequest, the
\* client's Do, the status, the content type of a stream, ReadResponse, and the
\* decoding of a whole answer.
StageErrors(stage) ==
  CASE stage = "request" -> IF dialect = "anthropic" THEN {"internal", "invalid_request"}
                                                     ELSE {"internal"}
    [] stage = "transport" -> {"timeout", "unavailable"}
    [] stage = "status" -> {"invalid_request", "timeout", "rate_limited", "unavailable"}
    [] stage = "contentType" -> {"internal"}
    [] stage = "read" -> {"internal", "timeout", "unavailable"}
    [] stage = "decode" -> {"internal"}

StreamStages == {"request", "transport", "status", "contentType"}
CompleteStages == {"request", "transport", "status", "read", "decode"}

\* Stream that leaves the watchdog running when the content type is wrong.
OpenFailsUnstopped(stage) ==
  /\ dog' = IF stage = "contentType" THEN "running" ELSE "stopped"
  /\ body' = IF stage \in {"request", "transport"} THEN "none" ELSE "closed"

\* Stream returns an error.
OpenFails(stage) ==
  /\ dog' = "stopped"
  /\ body' = IF stage \in {"request", "transport"} THEN "none" ELSE "closed"

\* Stream returns a stream.
Opens == dog' = "running" /\ body' = "open"

\* The usage of a whole answer, malformed unless it is complete:
\* normalizeCompleteUsage has no total to compare.
CompleteUsageMalformed(u) ==
  IF dialect = "openai" THEN UsageMalformed(u)
  ELSE Reports(u) /\ (Nil \in {u.input, u.output} \/ u.input > MaxUint64 - u.output)

CompleteUsage(u) == IF dialect = "openai" THEN NormalizeUsage(u) ELSE MergeUsage(NoUsage, u)

\* Close: the watchdog is stopped and the body closed.
Close == dog' = "stopped" /\ body' = "closed"
=============================================================================
