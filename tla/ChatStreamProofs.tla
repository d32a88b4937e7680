-------------------------- MODULE ChatStreamProofs --------------------------
(***************************************************************************)
(* Proofs about ChatStream, for any documents and event types that the     *)
(* providers send, event sizes, token counts and lengths of a body.        *)
(*                                                                         *)
(* The invariant has three parts.  Types and Resources say what is open at *)
(* each point of the request.  Responding says what the client can have    *)
(* read: whole frames while the stream flows, and after a failed write     *)
(* nothing more.  Accounting says that the gateway's usage, the Anthropic  *)
(* adapter's own and the counts reported by the provider agree.            *)
(*                                                                         *)
(* At the end, a proof about the watchdog of StreamIdle, for any timeout.  *)
(***************************************************************************)
EXTENDS ChatStream, SequenceTheorems, TLAPS

Errors == {"nil", "rejected", "invalid_request", "rate_limited", "emit", "internal",
           "unavailable", "unmapped", "timeout"}

Events(d) == [type : MessageTypes, data : Seq(Values(d))]
Streams == [sentRole : BOOLEAN, usage : Usage \cup {NoUsage}]
Services == [err : Errors, usage : Usage \cup {NoUsage}]
Responses == [status : Nat, committed : BOOLEAN, outcome : {"", "cancellation", "failure"}]

Types ==
  /\ TypeOK
  /\ event \in Events(dialect)
  /\ stream \in Streams
  /\ svc \in Services
  /\ http \in Responses
  /\ reported \in [input : Counts, output : Counts]

Calling == pc \in {"handler", "call"}
Flowing == pc \in {"reading", "emit"}
Ended == pc \in {"trace", "done"}

\* The watchdog and the body, and what the gateway has found so far.
Resources ==
  /\ Calling => dog = "none" /\ body = "none" /\ svc.err = "nil"
  /\ Flowing => streaming = TRUE /\ dog = "running" /\ body = "open" /\ svc.err = "nil"
  /\ Over => dog # "running" /\ body # "open"
  /\ Over /\ streaming = TRUE /\ svc.err = "nil" => terminated = TRUE

\* Every write so far has succeeded, and they were frames of a stream.
WroteFrames ==
  /\ wire \in Seq({"frame"}) /\ dead = FALSE
  /\ wire = <<>> => http.status = 0 /\ http.committed = FALSE
  /\ wire # <<>> => http.status = 200 /\ http.committed = TRUE

\* The last write has failed, with nothing, with frames or with frames and a cut
\* one on the wire.
WriteFailed ==
  /\ dead = TRUE /\ http.status = 200
  /\ \/ wire = <<>> /\ http.committed = FALSE
     \/ /\ http.committed = TRUE /\ wire # <<>>
        /\ \E s \in Seq({"frame"}), last \in {"frame", "cut"} : wire = Append(s, last)

\* The response has ended: its outcome and its status go with the error.
Fine(h) == h.outcome = "" /\ h.status < 400
Outcome ==
  /\ OneResponse
  /\ HasDone(wire) => streaming = TRUE /\ svc.err = "nil"
  /\ Fine(http) => svc.err = "nil" \/ (svc.err = "emit" /\ wire = <<>>)
  /\ ~Fine(http) => svc.err # "nil"

\* What the client has at each point, and what the metric says.
Responding ==
  /\ pc # "done" => metric = ""
  /\ ~Ended => http.outcome = ""
  /\ Calling => wire = <<>>
  /\ Calling \/ Flowing => WroteFrames
  /\ pc = "respond" =>
       /\ svc.err # "emit" => WroteFrames
       /\ svc.err = "emit" => WriteFailed
       /\ streaming = FALSE => wire = <<>> /\ svc.err # "emit"
  /\ Ended => Outcome
  /\ pc = "done" =>
       /\ metric = "success" => svc.err = "nil" \/ (svc.err = "emit" /\ wire = <<>>)
       /\ metric # "success" => svc.err # "nil" \/ left = TRUE

\* Two usages with the same counts.
SameCounts(u, v) ==
  /\ Count(u, "input") = Count(v, "input")
  /\ Count(u, "output") = Count(v, "output")
  /\ Count(u, "total") = Count(v, "total")

\* The total that goes with two known counts.
Totalled(u) ==
  Count(u, "input") # Nil /\ Count(u, "output") # Nil =>
    /\ Count(u, "total") = Count(u, "input") + Count(u, "output")
    /\ Count(u, "total") <= MaxUint64

\* The usage that the gateway, the adapter and the provider's events have.
Accounting ==
  /\ Calling => svc.usage = NoUsage /\ stream.usage = NoUsage
  /\ Count(svc.usage, "input") = reported.input
  /\ Count(svc.usage, "output") = reported.output
  /\ Totalled(svc.usage)
  /\ Flowing /\ dialect = "anthropic" => SameCounts(svc.usage, stream.usage)

IInv == Types /\ Resources /\ Responding /\ Accounting
-----------------------------------------------------------------------------
Other == {Terminator, Malformed, Empty}

\* What takeEvent hands to Next: a document of the dialect, the terminator,
\* nothing, or something that is no document.
LEMMA DecodedDocument ==
  ASSUME Types, NEW doc \in Decoded(event.data)
  PROVE  doc \in Documents[dialect] \cup Other
<1> DEFINE data == event.data
<1>1. data \in Seq(Values(dialect))
  BY DEF Types, Events
<1>2. Len(data) = 1 => data[1] \in Values(dialect)
  BY <1>1, LenProperties
<1>3. QED
  BY <1>2 DEF Decoded, Values, Other

\* The documents of either dialect.
LEMMA DocumentType ==
  /\ \A doc \in Documents["openai"] : doc \in OpenAIDocument /\ doc.kind = "json"
  /\ \A doc \in Documents["anthropic"] : doc \in AnthropicDocument /\ doc.kind = "json"
  BY ProviderStreamAssumption DEF OpenAIDocument, AnthropicDocument

\* Next of the OpenAI adapter ends the stream only at the terminator, fails as
\* internal, and otherwise hands on the usage of its document.
LEMMA OpenAIResult ==
  ASSUME NEW doc \in Documents["openai"] \cup Other
  PROVE  LET out == OpenAINext(doc) IN
         \/ out = More
         \/ out = Eof /\ doc = Terminator
         \/ out = Failed("internal")
         \/ /\ out.kind = "chunk" /\ doc \in Documents["openai"]
            /\ out.usage = NormalizeUsage(doc.usage)
            /\ ~(doc.usage # NoUsage /\ UsageMalformed(doc.usage))
            /\ {out.role, out.content, out.finish} \subseteq BOOLEAN
<1>1. CASE doc \in Other
  <2>1. Terminator.kind = "done" /\ Malformed.kind = "malformed" /\ Empty.kind = "empty"
    BY DEF Terminator, Malformed, Empty
  <2>2. QED
    BY <1>1, <2>1, Zenon DEF Other, OpenAINext
<1>2. CASE doc \in Documents["openai"]
  <2>1. doc \in OpenAIDocument /\ doc.kind = "json"
    BY <1>2, DocumentType
  <2>2. {doc.role, doc.content, doc.finish, doc.choice} \subseteq BOOLEAN
    BY <2>1 DEF OpenAIDocument
  <2>3. QED
    BY <1>2, <2>1, <2>2, Zenon DEF OpenAINext, Chunk
<1>3. QED
  BY <1>1, <1>2

\* A usage of the adapter keeps its type when one of an event is merged in, and
\* does not become none.
LEMMA MergeType ==
  ASSUME NEW c \in Usage \cup {NoUsage}, NEW u \in [input : Counts, output : Counts],
         ~Overflows(c, u)
  PROVE  /\ MergeUsage(c, u) \in Usage \cup {NoUsage}
         /\ Reports(u) => MergeUsage(c, u) \in Usage
<1>0. u # NoUsage
  BY ProviderStreamAssumption
<1> DEFINE i == Newer(u.input, Count(c, "input"))
           o == Newer(u.output, Count(c, "output"))
<1>1. i \in Counts /\ o \in Counts /\ Count(c, "total") \in Counts
  BY DEF Usage, Newer, Count, Counts
<1>2. CASE Reports(u)
  <2>1. i # Nil /\ o # Nil => i + o \in Counts
    BY <1>0, <1>1, <1>2, ProviderStreamAssumption DEF Overflows, Count, Counts
  <2>2. MergeUsage(c, u) = Merged(c, u)
    BY <1>2 DEF MergeUsage
  <2>3. Merged(c, u) \in Usage
    BY <1>1, <2>1 DEF Merged, Usage
  <2>4. QED
    BY <2>2, <2>3
<1>3. QED
  BY <1>2 DEF MergeUsage

\* The usage that Next of the Anthropic adapter looks at, as CarriedUsage.
AnthropicUsage(type, doc) ==
  IF doc.kind = "json" /\ type \in {"", doc.type} THEN doc.usage ELSE NoUsage

\* What a call of Next does for the gateway.
AnthropicOutcome(s, type, doc, out) ==
  /\ out.stream \in Streams
  /\ \/ out.result = More /\ out.stream.usage = s.usage
     \/ /\ out.result = Eof
        /\ "message_stop" = IF type = "" /\ doc.kind = "json" THEN doc.type ELSE type
     \/ out.result = Failed("internal")
     \/ /\ out.result.kind = "chunk"
        /\ out.stream.usage = MergeUsage(s.usage, AnthropicUsage(type, doc))
        /\ ~Overflows(s.usage, AnthropicUsage(type, doc))
        /\ \/ out.result.usage = out.stream.usage
           \/ out.result.usage = NoUsage /\ ~Reports(AnthropicUsage(type, doc))
        /\ {out.result.role, out.result.content, out.result.finish} \subseteq BOOLEAN

\* Next of the Anthropic adapter ends the stream only at message_stop, fails as
\* internal, and keeps a usage that it has merged only when it hands it on.
LEMMA AnthropicResult ==
  ASSUME NEW doc \in Documents["anthropic"] \cup Other, NEW type \in MessageTypes, NEW s \in Streams
  PROVE  AnthropicOutcome(s, type, doc, AnthropicNext(s, type, doc))
<1> DEFINE decoded == IF doc.kind = "json" THEN doc ELSE Zero
           eventType == IF type # "" THEN type ELSE decoded.type
           d == IF decoded.type = eventType THEN decoded ELSE Zero
           u == AnthropicUsage(type, doc)
           merged == MergeUsage(s.usage, d.usage)
           out == AnthropicNext(s, type, doc)
<1> SUFFICES AnthropicOutcome(s, type, doc, out)
  OBVIOUS
<1>1. /\ doc.kind = "json" => doc \in Documents["anthropic"] /\ doc \in AnthropicDocument
      /\ Zero \in AnthropicDocument /\ Zero.usage = NoUsage /\ Zero.type = ""
      /\ Zero.text = "unsupported"
  <2>1. Terminator.kind = "done" /\ Malformed.kind = "malformed" /\ Empty.kind = "empty"
    BY DEF Terminator, Malformed, Empty
  <2>2. doc.kind = "json" => doc \in Documents["anthropic"] /\ doc \in AnthropicDocument
    BY <2>1, DocumentType DEF Other
  <2>3. Zero.usage = NoUsage /\ Zero.type = "" /\ Zero.text = "unsupported"
    BY DEF Zero
  <2>4. Zero \in AnthropicDocument
    BY DEF Zero, AnthropicDocument, MessageTypes
  <2>5. QED
    BY <2>2, <2>3, <2>4
<1>2. decoded \in AnthropicDocument /\ d \in AnthropicDocument
  BY <1>1
<1>3. /\ d.usage \in [input : Counts, output : Counts] \cup {NoUsage}
      /\ d.stop \in BOOLEAN /\ d.text \in {"unsupported", "empty", "some"}
  BY <1>2 DEF AnthropicDocument
<1>4. eventType # "" => u = d.usage
  BY <1>1 DEF AnthropicUsage, AnthropicDocument
<1>5. d.usage # NoUsage => eventType \in {"message_start", "message_delta"}
  BY <1>1, ProviderStreamAssumption
<1>6. /\ ~Reports(NoUsage) /\ MergeUsage(s.usage, NoUsage) = s.usage
      /\ ~Overflows(s.usage, NoUsage)
  BY DEF Reports, MergeUsage, Overflows, Count
<1>7. CASE doc.kind \notin {"json", "empty"}
  <2>1. out = [stream |-> s, result |-> Failed("internal")]
    BY <1>7 DEF AnthropicNext
  <2> HIDE DEF out
  <2>2. QED
    BY <2>1 DEF AnthropicOutcome
<1>8. CASE doc.kind \in {"json", "empty"}
  <2>1. CASE eventType \in {"ping", "content_block_stop"}
    <3>1. out = [stream |-> s, result |-> More]
      BY <1>8, <2>1 DEF AnthropicNext
    <3> HIDE DEF out
    <3>2. QED
      BY <3>1 DEF AnthropicOutcome
  <2>2. CASE eventType = "message_stop"
    <3>1. out = [stream |-> s, result |-> Eof]
      BY <1>8, <2>2 DEF AnthropicNext
    <3>2. "message_stop" = IF type = "" /\ doc.kind = "json" THEN doc.type ELSE type
      BY <1>1, <2>2
    <3> HIDE DEF out, eventType, decoded
    <3>3. QED
      BY <3>1, <3>2 DEF AnthropicOutcome
  <2>3. CASE eventType \notin {"ping", "content_block_stop", "message_start",
               "content_block_start", "content_block_delta", "message_delta", "message_stop"}
    <3>1. out = [stream |-> s, result |-> Failed("internal")]
      BY <1>8, <2>3 DEF AnthropicNext
    <3> HIDE DEF out
    <3>2. QED
      BY <3>1 DEF AnthropicOutcome
  <2>4. CASE eventType \in {"content_block_start", "content_block_delta"}
    <3>1. PICK content \in BOOLEAN :
            out \in {[stream |-> s, result |-> Failed("internal")],
                     [stream |-> s, result |-> More],
                     [stream |-> [s EXCEPT !.sentRole = TRUE],
                      result |-> Chunk(~s.sentRole, content, FALSE, NoUsage)]}
      BY <1>8, <2>4, <1>3 DEF AnthropicNext
    <3>2. u = NoUsage
      <4> HIDE DEF eventType, u, d
      <4>1. QED
        BY <1>4, <1>5, <2>4
    <3> DEFINE t == [s EXCEPT !.sentRole = TRUE]
    <3>3. t \in Streams /\ t.usage = s.usage /\ s.sentRole \in BOOLEAN
      BY Zenon DEF Streams
    <3> HIDE DEF out, t, u, eventType, decoded
    <3>4. CASE out = [stream |-> t, result |-> Chunk(~s.sentRole, content, FALSE, NoUsage)]
      <4>1. /\ out.stream = t /\ out.result.kind = "chunk" /\ out.result.usage = NoUsage
            /\ {out.result.role, out.result.content, out.result.finish} \subseteq BOOLEAN
        BY <3>3, <3>4, Zenon DEF Chunk
      <4>2. QED
        BY <4>1, <3>2, <3>3, <1>6 DEF AnthropicOutcome, u
    <3>5. CASE out = [stream |-> s, result |-> Failed("internal")]
      BY <3>5 DEF AnthropicOutcome
    <3>6. CASE out = [stream |-> s, result |-> More]
      BY <3>6 DEF AnthropicOutcome
    <3>7. QED
      BY <3>1, <3>4, <3>5, <3>6, Zenon DEF t
  <2>5. CASE eventType \in {"message_start", "message_delta"}
    <3> DEFINE t == [s EXCEPT !.usage = merged]
    <3>1. \/ out = [stream |-> s, result |-> Failed("internal")]
          \/ /\ ~Overflows(s.usage, d.usage)
             /\ \E finish \in BOOLEAN :
                  out = [stream |-> t, result |-> Chunk(FALSE, FALSE, finish, merged)]
          \/ /\ ~Overflows(s.usage, d.usage) /\ (merged = NoUsage \/ d.usage = NoUsage)
             /\ out = [stream |-> t, result |-> More]
      BY <1>8, <2>5, <1>3, ZenonT(30) DEF AnthropicNext
    <3>2. ~Overflows(s.usage, d.usage) =>
            /\ merged \in Usage \cup {NoUsage}
            /\ merged = NoUsage \/ d.usage = NoUsage => merged = s.usage
      <4>1. CASE d.usage = NoUsage
        BY <4>1, <1>6 DEF Streams
      <4>2. CASE d.usage \in [input : Counts, output : Counts]
        <5>1. s.usage \in Usage \cup {NoUsage} /\ d.usage # NoUsage
          BY <4>2, ProviderStreamAssumption DEF Streams
        <5> HIDE DEF d
        <5>2. QED
          BY <4>2, <5>1, MergeType, ProviderStreamAssumption DEF MergeUsage
      <4>3. QED
        BY <4>1, <4>2, <1>3
    <3>3. merged \in Usage \cup {NoUsage} =>
            t \in Streams /\ t.usage = merged
      BY DEF Streams
    <3>4. u = d.usage
      BY <1>4, <2>5
    <3> HIDE DEF t, merged, u, d, out, eventType, decoded
    <3>5. CASE out = [stream |-> s, result |-> Failed("internal")]
      BY <3>5 DEF AnthropicOutcome
    <3>6. ASSUME ~Overflows(s.usage, d.usage), NEW finish \in BOOLEAN,
                 out = [stream |-> t, result |-> Chunk(FALSE, FALSE, finish, merged)]
          PROVE  AnthropicOutcome(s, type, doc, out)
      <4>1. /\ out.stream = t /\ out.result.kind = "chunk" /\ out.result.usage = merged
            /\ {out.result.role, out.result.content, out.result.finish} \subseteq BOOLEAN
        BY <3>6, Zenon DEF Chunk
      <4>2. QED
        BY <4>1, <3>2, <3>3, <3>4, <3>6 DEF AnthropicOutcome, u, merged
    <3>7. ASSUME ~Overflows(s.usage, d.usage), merged = NoUsage \/ d.usage = NoUsage,
                 out = [stream |-> t, result |-> More]
          PROVE  AnthropicOutcome(s, type, doc, out)
      BY <3>2, <3>3, <3>7 DEF AnthropicOutcome
    <3>8. QED
      BY <3>1, <3>5, <3>6, <3>7, Zenon
  <2>6. QED
    BY <2>1, <2>2, <2>3, <2>4, <2>5
<1>9. QED
  BY <1>7, <1>8
-----------------------------------------------------------------------------
\* What the gateway's mergeUsage keeps of two usages.
LEMMA OverlayCounts ==
  ASSUME NEW c \in Usage \cup {NoUsage}, NEW r \in Usage \cup {NoUsage}
  PROVE  /\ Overlay(c, r) \in Usage \cup {NoUsage}
         /\ \A f \in {"input", "output", "total"} :
              Count(Overlay(c, r), f) = Newer(Count(r, f), Count(c, f))
<1>1. CASE r = NoUsage
  BY <1>1 DEF Overlay, Count, Newer
<1>2. CASE r \in Usage
  <2> DEFINE v == [input  |-> Newer(r.input, Count(c, "input")),
                   output |-> Newer(r.output, Count(c, "output")),
                   total  |-> Newer(r.total, Count(c, "total"))]
  <2>1. r # NoUsage /\ Overlay(c, r) = v
    BY <1>2, ProviderStreamAssumption DEF Overlay
  <2>2. v \in Usage
    BY <1>2 DEF Usage, Newer, Count, Counts
  <2>3. v # NoUsage
    BY <2>2, ProviderStreamAssumption
  <2>4. v["input"] = Newer(r["input"], Count(c, "input"))
        /\ v["output"] = Newer(r["output"], Count(c, "output"))
        /\ v["total"] = Newer(r["total"], Count(c, "total"))
    OBVIOUS
  <2> HIDE DEF v
  <2>5. QED
    BY <2>1, <2>2, <2>3, <2>4 DEF Count
<1>3. QED
  BY <1>1, <1>2

\* A usage that the OpenAI adapter hands on replaces the gateway's, with a total
\* that fits.
LEMMA OpenAIUsage ==
  ASSUME NEW c \in Usage \cup {NoUsage}, NEW u \in Usage \cup {NoUsage},
         ~(u # NoUsage /\ UsageMalformed(u)), Totalled(c)
  PROVE  LET v == Overlay(c, NormalizeUsage(u)) IN
         /\ v \in Usage \cup {NoUsage} /\ Totalled(v)
         /\ Count(v, "input") = Newer(Count(u, "input"), Count(c, "input"))
         /\ Count(v, "output") = Newer(Count(u, "output"), Count(c, "output"))
<1> DEFINE n == NormalizeUsage(u)
           v == Overlay(c, n)
<1>1. n \in Usage \cup {NoUsage}
  BY DEF NormalizeUsage
<1>2. /\ v \in Usage \cup {NoUsage}
      /\ Count(v, "input") = Newer(Count(n, "input"), Count(c, "input"))
      /\ Count(v, "output") = Newer(Count(n, "output"), Count(c, "output"))
      /\ Count(v, "total") = Newer(Count(n, "total"), Count(c, "total"))
  BY <1>1, OverlayCounts
<1>3. CASE n = NoUsage
  <2>1. Count(u, "input") = Nil /\ Count(u, "output") = Nil
    BY <1>3, ProviderStreamAssumption DEF NormalizeUsage, Count
  <2>2. v = c
    BY <1>3 DEF Overlay
  <2>3. QED
    BY <1>2, <2>1, <2>2 DEF Newer
<1>4. CASE n # NoUsage
  <2>1. n = u /\ u \in Usage /\ u # NoUsage /\ {u.input, u.output, u.total} # {Nil}
    BY <1>4 DEF NormalizeUsage, Count
  <2>2. /\ u.input \in 0..MaxUint64 /\ u.output \in 0..MaxUint64
        /\ u.total = u.input + u.output /\ u.total <= MaxUint64 /\ u.total # Nil
    <3>1. u.input \in Counts /\ u.output \in Counts /\ u.total \in Counts
      BY <2>1 DEF Usage
    <3>2. u.input # Nil /\ u.output # Nil /\ u.total # Nil
          /\ ~(u.input > MaxUint64 - u.output) /\ u.total = u.input + u.output
      BY <2>1 DEF UsageMalformed
    <3>3. QED
      BY <3>1, <3>2, ProviderStreamAssumption DEF Counts
  <2>3. Count(n, "input") = u.input /\ Count(n, "output") = u.output /\ Count(n, "total") = u.total
    BY <2>1 DEF Count
  <2>4. u.input # Nil /\ u.output # Nil
    BY <2>2, ProviderStreamAssumption
  <2> HIDE DEF v, n
  <2>5. Count(v, "input") = u.input /\ Count(v, "output") = u.output /\ Count(v, "total") = u.total
    BY <1>2, <2>2, <2>3, <2>4 DEF Newer
  <2>6. QED
    BY <1>2, <2>1, <2>2, <2>3, <2>5 DEF Totalled, v, n
<1>5. QED
  BY <1>3, <1>4

\* The Anthropic adapter merges u into its usage k and hands r on to a gateway whose
\* usage is c: the merged usage, or nothing where u reports nothing.
HandsOn(c, k, u, r) ==
  /\ c \in Usage \cup {NoUsage} /\ k \in Usage \cup {NoUsage}
  /\ u \in [input : Counts, output : Counts] \cup {NoUsage}
  /\ ~Overflows(k, u) /\ SameCounts(c, k) /\ Totalled(c)
  /\ r = MergeUsage(k, u) \/ (r = NoUsage /\ ~Reports(u))

\* The gateway's usage v has the counts of the adapter's.
KeepsUp(v, c, k, u) ==
  /\ v \in Usage \cup {NoUsage} /\ Totalled(v) /\ SameCounts(v, MergeUsage(k, u))
  /\ Count(v, "input") = Newer(Count(u, "input"), Count(c, "input"))
  /\ Count(v, "output") = Newer(Count(u, "output"), Count(c, "output"))

\* A usage that the Anthropic adapter has merged and hands on leaves the gateway
\* with the same counts; so does one that it does not hand on, as it reports
\* nothing.
LEMMA AnthropicUsageMerged ==
  ASSUME NEW c, NEW k, NEW u, NEW r, HandsOn(c, k, u, r)
  PROVE  KeepsUp(Overlay(c, r), c, k, u)
<1>. USE DEF HandsOn, KeepsUp
<1> DEFINE v == Overlay(c, r)
<1>1. CASE ~Reports(u)
  <2>1. MergeUsage(k, u) = k /\ Count(u, "input") = Nil /\ Count(u, "output") = Nil
    BY <1>1 DEF MergeUsage, Reports
  <2>2. r \in {k, NoUsage}
    BY <2>1
  <2>3. /\ v \in Usage \cup {NoUsage}
        /\ Count(v, "input") = Newer(Count(r, "input"), Count(c, "input"))
        /\ Count(v, "output") = Newer(Count(r, "output"), Count(c, "output"))
        /\ Count(v, "total") = Newer(Count(r, "total"), Count(c, "total"))
    BY <2>2, OverlayCounts
  <2>4. SameCounts(v, c)
    BY <2>2, <2>3 DEF SameCounts, Newer, Count
  <2> HIDE DEF v
  <2>5. Totalled(v)
    BY <2>4 DEF SameCounts, Totalled
  <2>6. QED
    BY <2>1, <2>3, <2>4, <2>5 DEF SameCounts, Newer, v
<1>2. CASE Reports(u)
  <2> DEFINE m == Merged(k, u)
             i == Newer(u.input, Count(k, "input"))
             o == Newer(u.output, Count(k, "output"))
  <2>1. u \in [input : Counts, output : Counts] /\ u # NoUsage
    BY <1>2 DEF Reports, Count
  <2>2. r = m /\ MergeUsage(k, u) = m
    BY <1>2 DEF MergeUsage
  <2>3. m \in Usage
    BY <2>1, <1>2, <2>2, MergeType
  <2>4. /\ Count(m, "input") = i /\ Count(m, "output") = o
        /\ Count(m, "total") = IF Nil \in {i, o} THEN Count(k, "total") ELSE i + o
    BY <2>3, ProviderStreamAssumption DEF Merged, Count
  <2>5. /\ v \in Usage \cup {NoUsage}
        /\ Count(v, "input") = Newer(i, Count(c, "input"))
        /\ Count(v, "output") = Newer(o, Count(c, "output"))
        /\ Count(v, "total") = Newer(Count(m, "total"), Count(c, "total"))
    <3>1. c \in Usage \cup {NoUsage} /\ r \in Usage \cup {NoUsage}
      BY <2>2, <2>3
    <3> HIDE DEF i, o, m, HandsOn, KeepsUp
    <3>2. /\ v \in Usage \cup {NoUsage}
          /\ \A f \in {"input", "output", "total"} : Count(v, f) = Newer(Count(r, f), Count(c, f))
      BY <3>1, OverlayCounts
    <3> HIDE DEF v
    <3>3. QED
      BY <3>2, <2>2, <2>4
  <2>6. i = Newer(Count(u, "input"), Count(c, "input")) /\ o = Newer(Count(u, "output"), Count(c, "output"))
    BY <2>1 DEF SameCounts, Count
  <2>7. Count(v, "input") = i /\ Count(v, "output") = o
    BY <2>5, <2>6 DEF Newer
  <2>8. Nil \notin {i, o} => Count(m, "total") # Nil /\ i + o <= MaxUint64
    <3>1. i \in Counts /\ o \in Counts /\ m.total \in Counts
      BY <2>1, <2>3 DEF Newer, Count, Counts, Usage
    <3>2. Nil \notin {i, o} => ~(i > MaxUint64 - o)
      BY <1>2, <2>1 DEF Overflows, Count
    <3> HIDE DEF i, o, m, v
    <3>3. Nil \notin {i, o} => i + o \in 0..MaxUint64
      BY <3>1, <3>2, ProviderStreamAssumption DEF Counts
    <3>4. QED
      BY <2>4, <3>3, ProviderStreamAssumption
  <2>9. Count(v, "total") = Count(m, "total")
    <3> HIDE DEF i, o, m, v
    <3>1. CASE Nil \in {i, o}
      BY <3>1, <2>4, <2>5 DEF Newer, SameCounts
    <3>2. CASE Nil \notin {i, o}
      BY <3>2, <2>5, <2>8 DEF Newer
    <3>3. QED
      BY <3>1, <3>2
  <2> HIDE DEF i, o, m, v
  <2>10. QED
    BY <2>2, <2>4, <2>5, <2>6, <2>7, <2>8, <2>9 DEF Totalled, SameCounts, v
<1>3. QED
  BY <1>1, <1>2
-----------------------------------------------------------------------------
\* A call of Next for the event that is complete: it ends the stream only at the
\* provider's last event, and a chunk takes the usage of the event to the gateway.
LEMMA NextResult ==
  ASSUME Types, Accounting, Flowing, NEW doc \in Decoded(event.data)
  PROVE  LET next == Next_(stream, event.type, doc)
             usage == CarriedUsage(event.type, doc)
             v == Overlay(svc.usage, next.result.usage)
         IN
         /\ next.stream \in Streams
         /\ \/ next.result = More /\ next.stream.usage = stream.usage
            \/ next.result = Eof /\ LastEvent(event.type, doc)
            \/ next.result = Failed("internal")
            \/ /\ next.result.kind = "chunk"
               /\ {next.result.role, next.result.content, next.result.finish} \subseteq BOOLEAN
               /\ v \in Usage \cup {NoUsage} /\ Totalled(v)
               /\ Count(v, "input") = Newer(Count(usage, "input"), reported.input)
               /\ Count(v, "output") = Newer(Count(usage, "output"), reported.output)
               /\ dialect = "anthropic" => SameCounts(v, next.stream.usage)
<1> DEFINE next == Next_(stream, event.type, doc)
           usage == CarriedUsage(event.type, doc)
           v == Overlay(svc.usage, next.result.usage)
<1>1. /\ doc \in Documents[dialect] \cup Other /\ dialect \in Dialects
      /\ event.type \in MessageTypes /\ stream \in Streams
      /\ stream.usage \in Usage \cup {NoUsage} /\ svc.usage \in Usage \cup {NoUsage}
  BY DecodedDocument DEF Types, TypeOK, Events, Services, Streams
<1>2. /\ Totalled(svc.usage) /\ Count(svc.usage, "input") = reported.input
      /\ Count(svc.usage, "output") = reported.output
      /\ dialect = "anthropic" => SameCounts(svc.usage, stream.usage)
  BY DEF Accounting
<1>3. CASE dialect = "openai"
  <2>1. next.stream = stream /\ next.result = OpenAINext(doc)
    BY <1>3 DEF Next_
  <2>2. CASE next.result.kind = "chunk"
    <3>1. /\ doc \in Documents["openai"] /\ next.result.usage = NormalizeUsage(doc.usage)
          /\ ~(doc.usage # NoUsage /\ UsageMalformed(doc.usage))
          /\ {next.result.role, next.result.content, next.result.finish} \subseteq BOOLEAN
      BY <1>1, <1>3, <2>1, <2>2, OpenAIResult DEF More, Eof, Failed
    <3>2. doc \in OpenAIDocument /\ doc.kind = "json"
      BY <3>1, DocumentType
    <3>3. doc.usage \in Usage \cup {NoUsage} /\ usage = doc.usage
      BY <1>3, <3>2 DEF OpenAIDocument, CarriedUsage
    <3> HIDE DEF next, usage
    <3>4. /\ v \in Usage \cup {NoUsage} /\ Totalled(v)
          /\ Count(v, "input") = Newer(Count(usage, "input"), Count(svc.usage, "input"))
          /\ Count(v, "output") = Newer(Count(usage, "output"), Count(svc.usage, "output"))
      <4>1. /\ svc.usage \in Usage \cup {NoUsage} /\ usage \in Usage \cup {NoUsage}
            /\ ~(usage # NoUsage /\ UsageMalformed(usage)) /\ Totalled(svc.usage)
        BY <1>1, <1>2, <3>1, <3>3, Zenon
      <4>2. v = Overlay(svc.usage, NormalizeUsage(usage))
        BY <3>1, <3>3, Zenon
      <4> HIDE DEF v
      <4>3. QED
        BY <4>1, <4>2, OpenAIUsage, Zenon
    <3> HIDE DEF v
    <3>5. QED
      BY <1>1, <1>2, <1>3, <2>1, <2>2, <3>1, <3>4 DEF next, usage, v
  <2>3. CASE next.result.kind # "chunk"
    <3>1. \/ OpenAINext(doc) = More \/ OpenAINext(doc) = Failed("internal")
          \/ OpenAINext(doc) = Eof /\ doc = Terminator
      BY <1>1, <1>3, <2>1, <2>3, OpenAIResult
    <3>2. doc = Terminator => LastEvent(event.type, doc)
      BY <1>3 DEF LastEvent
    <3> HIDE DEF next
    <3>3. QED
      BY <1>1, <2>1, <3>1, <3>2 DEF next
  <2>4. QED
    BY <2>2, <2>3
<1>4. CASE dialect = "anthropic"
  <2>1. next = AnthropicNext(stream, event.type, doc)
    BY <1>4 DEF Next_
  <2>2. usage = AnthropicUsage(event.type, doc)
    BY <1>4 DEF CarriedUsage, AnthropicUsage
  <2> HIDE DEF next
  <2>3. AnthropicOutcome(stream, event.type, doc, next)
    BY <1>1, <1>4, <2>1, AnthropicResult
  <2>4. CASE next.result.kind = "chunk"
    <3>0. More.kind # "chunk" /\ Eof.kind # "chunk" /\ Failed("internal").kind # "chunk"
      BY DEF More, Eof, Failed
    <3>1. /\ next.stream \in Streams
          /\ next.stream.usage = MergeUsage(stream.usage, usage) /\ ~Overflows(stream.usage, usage)
          /\ next.result.usage = next.stream.usage \/ (next.result.usage = NoUsage /\ ~Reports(usage))
          /\ {next.result.role, next.result.content, next.result.finish} \subseteq BOOLEAN
      BY <2>2, <2>3, <2>4, <3>0 DEF AnthropicOutcome
    <3>2. usage \in [input : Counts, output : Counts] \cup {NoUsage}
      <4>1. doc.kind = "json" => doc \in AnthropicDocument
        <5>1. Terminator.kind = "done" /\ Malformed.kind = "malformed" /\ Empty.kind = "empty"
          BY DEF Terminator, Malformed, Empty
        <5>2. QED
          BY <1>1, <1>4, <5>1, DocumentType DEF Other
      <4>2. QED
        BY <2>2, <4>1 DEF AnthropicUsage, AnthropicDocument
    <3> HIDE DEF usage
    <3>3. /\ v \in Usage \cup {NoUsage} /\ Totalled(v) /\ SameCounts(v, next.stream.usage)
          /\ Count(v, "input") = Newer(Count(usage, "input"), Count(svc.usage, "input"))
          /\ Count(v, "output") = Newer(Count(usage, "output"), Count(svc.usage, "output"))
      <4>1. \/ next.result.usage = MergeUsage(stream.usage, usage)
            \/ next.result.usage = NoUsage /\ ~Reports(usage)
        BY <3>1, Zenon
      <4>2. /\ svc.usage \in Usage \cup {NoUsage} /\ stream.usage \in Usage \cup {NoUsage}
            /\ SameCounts(svc.usage, stream.usage) /\ Totalled(svc.usage)
        BY <1>1, <1>2, <1>4, Zenon
      <4>3. HandsOn(svc.usage, stream.usage, usage, next.result.usage)
        BY <3>1, <3>2, <4>1, <4>2 DEF HandsOn
      <4>4. KeepsUp(v, svc.usage, stream.usage, usage)
        BY <4>3, AnthropicUsageMerged, Zenon
      <4>. QED
        BY <3>1, <4>4, Zenon DEF KeepsUp
    <3> HIDE DEF v
    <3>4. QED
      BY <1>2, <2>4, <3>1, <3>3 DEF next, usage, v
  <2>5. CASE next.result.kind # "chunk"
    <3>1. next.stream \in Streams /\ (\/ next.result = More /\ next.stream.usage = stream.usage
                                      \/ next.result = Failed("internal")
                                      \/ next.result = Eof /\ LastEvent(event.type, doc))
      BY <1>4, <2>3, <2>5 DEF AnthropicOutcome, LastEvent
    <3>2. QED
      BY <3>1 DEF next
  <2>6. QED
    BY <2>4, <2>5
<1>5. QED
  BY <1>1, <1>3, <1>4 DEF Dialects
-----------------------------------------------------------------------------
\* Frames, and frames that something follows, as the client reads them.
LEMMA FramesOnly ==
  ASSUME NEW s \in Seq({"frame"})
  PROVE  IsStream(s) /\ ~HasDone(s)
<1>1. DOMAIN s = 1..Len(s) /\ \A i \in 1..Len(s) : s[i] = "frame"
  BY LenProperties
<1>2. QED
  BY <1>1 DEF IsStream, HasDone

\* Frames and one more item.
LEMMA FramesAndOne ==
  ASSUME NEW s \in Seq({"frame"}), NEW x \in {"frame", "done", "cut"}
  PROVE  LET t == Append(s, x) IN
         /\ t # <<>> /\ IsStream(t)
         /\ HasDone(t) => x = "done"
         /\ x = "frame" => t \in Seq({"frame"})
<1> DEFINE t == Append(s, x)
<1>1. /\ Len(s) \in Nat /\ DOMAIN s = 1..Len(s)
      /\ \A i \in 1..Len(s) : s[i] = "frame"
  BY LenProperties
<1>2. /\ t \in Seq({"frame", x}) /\ Len(t) = Len(s) + 1 /\ t[Len(s) + 1] = x
      /\ \A i \in 1..Len(s) : t[i] = s[i]
  <2>1. s \in Seq({"frame", x}) /\ x \in {"frame", x}
    <3>1. s \in [1..Len(s) -> {"frame", x}]
      BY <1>1, LenProperties
    <3>2. QED
      BY <1>1, <3>1, SeqDef
  <2>2. QED
    BY <2>1, AppendProperties, <1>1
<1>3. DOMAIN t = 1..(Len(s) + 1)
  BY <1>1, <1>2, LenProperties
<1> HIDE DEF t
<1>4. \A i \in DOMAIN t : t[i] = "frame" \/ (i = Len(t) /\ t[i] = x)
  BY <1>1, <1>2, <1>3
<1>5. IsStream(t) /\ (HasDone(t) => x = "done")
  BY <1>4 DEF IsStream, HasDone
<1>6. t # <<>> /\ (x = "frame" => t \in Seq({"frame"}))
  BY <1>1, <1>2, EmptySeq
<1>7. QED
  BY <1>5, <1>6 DEF t

\* What a stream's response is while its writes succeed, and after one failed.
LEMMA StreamResponse ==
  ASSUME streaming = TRUE, WroteFrames \/ WriteFailed
  PROVE  OneResponse /\ ~HasDone(wire)
<1>1. CASE WroteFrames
  BY <1>1, FramesOnly DEF WroteFrames, OneResponse
<1>2. CASE WriteFailed
  <2>1. CASE wire = <<>>
    BY <2>1, EmptySeq, FramesOnly, Zenon DEF OneResponse
  <2>2. CASE wire # <<>>
    <3>1. PICK s \in Seq({"frame"}), last \in {"frame", "cut"} : wire = Append(s, last)
      BY <1>2, <2>2 DEF WriteFailed
    <3>2. IsStream(wire) /\ ~HasDone(wire)
      BY <3>1, FramesAndOne
    <3>3. QED
      BY <1>2, <3>2 DEF OneResponse, WriteFailed
  <2>3. QED
    BY <2>1, <2>2
<1>3. QED
  BY <1>1, <1>2

\* A document, whole, cut or not at all.
Document(w, item) == w \in {<<>>, <<item>>, <<"cut">>}

\* WriteHeader sets the status of a response that has none.
LEMMA FirstStatus ==
  ASSUME NEW h \in Responses, h.status = 0, NEW code \in Nat
  PROVE  LET t == WithStatus(h, code) IN
         t \in Responses /\ t.status = code /\ t.outcome = h.outcome /\ t.committed = h.committed
  BY DEF WithStatus, Responses

\* No document looks like the end of a stream.
LEMMA NoDocumentIsDone ==
  ASSUME NEW item, item # "done", NEW w, Document(w, item)
  PROVE  ~HasDone(w)
  BY DEF Document, HasDone

-----------------------------------------------------------------------------
\* The errors of a provider call.
LEMMA StageErrorsAreErrors ==
  \A stage \in StreamStages \cup CompleteStages : StageErrors(stage) \subseteq Errors \ {"nil", "emit"}
  BY DEF StreamStages, CompleteStages, StageErrors, Errors

\* The gateway returns with an error before or instead of a stream.
LEMMA CallFails ==
  ASSUME IInv, pc = "call", NEW err \in Errors \ {"nil", "emit"}, Returns(err),
         dog' \in {"none", "stopped"}, body' \in {"none", "closed"},
         UNCHANGED <<dialect, event, stream, terminated, reported, responseVars,
                     streaming, left, idle, lines>>
  PROVE  IInv'
<1> USE DEF responseVars
<1>1. svc' \in Services /\ svc'.err = err /\ svc'.usage = svc.usage /\ pc' = "respond"
  BY DEF IInv, Types, Services, Returns
<1>2. Types'
  BY <1>1 DEF IInv, Types, TypeOK
<1>3. Resources'
  BY <1>1 DEF IInv, Resources, Over, Calling, Flowing
<1>4. Responding'
  <2>1. WroteFrames /\ wire = <<>> /\ metric = "" /\ http.outcome = ""
    BY DEF IInv, Responding, Calling, Ended
  <2>2. WroteFrames'
    BY <2>1 DEF WroteFrames
  <2>3. QED
    BY <1>1, <2>1, <2>2 DEF Responding, Calling, Flowing, Ended
<1>5. Accounting'
  BY <1>1 DEF IInv, Accounting, Totalled, Calling, Flowing
<1>6. QED
  BY <1>2, <1>3, <1>4, <1>5 DEF IInv

\* chatCompletions refuses the request.
LEMMA BadRequestStep == IInv /\ BadRequest => IInv'
<1> SUFFICES ASSUME IInv, BadRequest PROVE IInv'
  OBVIOUS
<1>1. /\ pc = "handler" /\ pc' = "trace" /\ svc' = [svc EXCEPT !.err = "rejected"]
      /\ UNCHANGED <<dialect, event, stream, body, dog, terminated, reported, metric,
                     streaming, left, idle, lines>>
  BY DEF BadRequest, providerVars
<1>0. \A code \in {400, 415} : code \in Nat /\ code >= 400
  OBVIOUS
<1>2. PICK code \in Nat, how \in Writes :
        /\ code >= 400
        /\ http' = WithStatus(http, code)
        /\ wire' = CASE how = "all" -> Append(wire, "error")
                     [] how = "some" -> Append(wire, "cut")
                     [] OTHER -> wire
        /\ dead' = (how # "all")
  BY <1>0 DEF BadRequest, WriteJSON, Send
<1>3. /\ wire = <<>> /\ metric = "" /\ http.outcome = "" /\ http \in Responses
      /\ http.status = 0
  BY <1>1 DEF IInv, Types, Responding, Calling, Ended, WroteFrames
<1>4. http' \in Responses /\ http'.status = code /\ http'.outcome = "" /\ http'.committed \in BOOLEAN
  <2>1. http.committed \in BOOLEAN
    BY <1>3 DEF Responses
  <2>2. QED
    BY <1>2, <1>3, <2>1, FirstStatus
<1>5. Document(wire', "error") /\ dead' \in BOOLEAN
  <2>1. wire' \in {Append(wire, "error"), Append(wire, "cut"), wire} /\ dead' \in BOOLEAN
    BY <1>2 DEF Writes
  <2>2. Append(<<>>, "error") = <<"error">> /\ Append(<<>>, "cut") = <<"cut">>
    OBVIOUS
  <2>3. QED
    BY <1>3, <2>1, <2>2 DEF Document
<1>6. ~HasDone(wire')
  BY <1>5, NoDocumentIsDone
<1>7. svc' \in Services /\ svc'.err = "rejected" /\ svc'.usage = svc.usage
  BY <1>1 DEF IInv, Types, Services, Errors
<1>8. Types'
  <2>1. TypeOK'
    BY <1>1, <1>4, <1>5 DEF IInv, Types, TypeOK
  <2>2. QED
    BY <1>1, <1>4, <1>7, <2>1 DEF IInv, Types
<1>9. Resources'
  BY <1>1, <1>7 DEF IInv, Resources, Over, Calling, Flowing
<1>10. Responding'
  <2>1. http'.status >= 400 /\ ~(http'.status < 400)
    <3>1. code >= 400
      BY <1>2
    <3>2. code >= 400 /\ ~(code < 400)
      BY <3>1
    <3>3. QED
      BY <1>4, <3>2
  <2>2. OneResponse'
    BY <1>5, <2>1 DEF OneResponse, Document
  <2>3. QED
    <3>1. ~Fine(http')
      BY <2>1 DEF Fine
    <3>2. Outcome'
      BY <1>6, <1>7, <2>2, <3>1 DEF Outcome
    <3>3. QED
      BY <1>1, <1>3, <3>2 DEF Responding, Calling, Flowing, Ended
<1>11. Accounting'
  BY <1>1, <1>7 DEF IInv, Accounting, Totalled, Calling, Flowing
<1>12. QED
  BY <1>8, <1>9, <1>10, <1>11 DEF IInv

\* It hands the request to the gateway.
LEMMA AcceptStep == IInv /\ Accept => IInv'
<1> SUFFICES ASSUME IInv, Accept PROVE IInv'
  OBVIOUS
<1>1. /\ pc = "handler" /\ pc' = "call"
      /\ UNCHANGED <<dialect, event, stream, body, dog, terminated, reported, http, wire, dead,
                     metric, streaming, svc, left, idle, lines>>
  BY DEF Accept, providerVars, responseVars
<1>2. Types' /\ Resources'
  BY <1>1 DEF IInv, Types, TypeOK, Resources, Over, Calling, Flowing
<1>3. Responding'
  BY <1>1 DEF IInv, Responding, WroteFrames, Calling, Flowing, Ended
<1>4. Accounting'
  BY <1>1 DEF IInv, Accounting, Totalled, Calling, Flowing
<1>5. QED
  BY <1>2, <1>3, <1>4 DEF IInv

\* The gateway returns before any call.
LEMMA RefuseStep == IInv /\ Refuse => IInv'
<1> SUFFICES ASSUME IInv, Refuse PROVE IInv'
  OBVIOUS
<1>1. PICK err \in {"rejected", "unmapped", "unavailable"} : Returns(err)
  BY DEF Refuse
<1>2. /\ pc = "call" /\ dog = "none" /\ body = "none"
      /\ UNCHANGED <<providerVars, responseVars, streaming, left, idle, lines>>
  BY DEF Refuse, IInv, Resources, Calling
<1>3. QED
  BY <1>1, <1>2, CallFails DEF Errors, providerVars

\* A call for a whole answer fails.
LEMMA CompleteFailsStep == IInv /\ CompleteFails => IInv'
<1> SUFFICES ASSUME IInv, CompleteFails PROVE IInv'
  OBVIOUS
<1>1. PICK stage \in CompleteStages : \E err \in StageErrors(stage) : Returns(err)
  BY DEF CompleteFails
<1>2. PICK err \in Errors \ {"nil", "emit"} : Returns(err)
  BY <1>1, StageErrorsAreErrors
<1>3. /\ pc = "call" /\ dog = "none" /\ body = "none"
      /\ UNCHANGED <<providerVars, responseVars, streaming, left, idle, lines>>
  BY DEF CompleteFails, IInv, Resources, Calling
<1>4. QED
  BY <1>2, <1>3, CallFails DEF providerVars

\* A stream cannot be opened: its watchdog is stopped on every path.
LEMMA OpenStreamFailsStep == IInv /\ OpenStreamFails => IInv'
<1> SUFFICES ASSUME IInv, OpenStreamFails PROVE IInv'
  OBVIOUS
<1>1. PICK stage \in StreamStages : OpenFails(stage) /\ \E err \in StageErrors(stage) : Returns(err)
  BY DEF OpenStreamFails
<1>2. PICK err \in Errors \ {"nil", "emit"} : Returns(err)
  BY <1>1, StageErrorsAreErrors
<1>3. dog' = "stopped" /\ body' \in {"none", "closed"}
  BY <1>1 DEF OpenFails
<1>4. /\ pc = "call"
      /\ UNCHANGED <<dialect, event, stream, terminated, reported, responseVars,
                     streaming, left, idle, lines>>
  BY DEF OpenStreamFails
<1>5. QED
  BY <1>2, <1>3, <1>4, CallFails

\* A stream is opened: from here its watchdog runs and its body is open.
LEMMA OpenStreamStep == IInv /\ OpenStream => IInv'
<1> SUFFICES ASSUME IInv, OpenStream PROVE IInv'
  OBVIOUS
<1>1. /\ pc = "call" /\ pc' = "reading" /\ streaming = TRUE /\ dog' = "running" /\ body' = "open"
      /\ UNCHANGED <<dialect, event, stream, terminated, reported, http, wire, dead, metric,
                     streaming, svc, left, idle, lines>>
  BY DEF OpenStream, Opens, responseVars, IInv, Types, TypeOK
<1>2. Types' /\ Resources'
  BY <1>1 DEF IInv, Types, TypeOK, Resources, Over, Calling, Flowing
<1>3. Responding'
  BY <1>1 DEF IInv, Responding, WroteFrames, Calling, Flowing, Ended
<1>4. Accounting'
  BY <1>1 DEF IInv, Accounting, Totalled, SameCounts, Calling, Flowing
<1>5. QED
  BY <1>2, <1>3, <1>4 DEF IInv

\* The client leaves, or the watchdog fires: only the context has ended.
LEMMA CancellationStep == IInv /\ (ClientLeaves \/ WatchdogFires \/ UNCHANGED vars) => IInv'
<1> SUFFICES ASSUME IInv, ClientLeaves \/ WatchdogFires \/ UNCHANGED vars PROVE IInv'
  OBVIOUS
<1>1. /\ UNCHANGED <<dialect, event, stream, body, dog, terminated, reported, http, wire, dead,
                     metric, pc, streaming, svc, lines>>
      /\ left' \in {left, TRUE} /\ idle' \in {idle, TRUE}
      /\ pc = "done" => left' = left
  BY DEF ClientLeaves, WatchdogFires, vars, serviceVars, providerVars, responseVars
<1>2. Types' /\ Resources'
  BY <1>1, Zenon DEF IInv, Types, TypeOK, Resources, Over, Calling, Flowing
<1>3. Responding'
  <2>1. /\ WroteFrames => WroteFrames'
        /\ WriteFailed => WriteFailed'
        /\ OneResponse => OneResponse'
    BY <1>1 DEF WroteFrames, WriteFailed, OneResponse
  <2>2. Outcome => Outcome'
    BY <1>1, <2>1 DEF Outcome
  <2>3. QED
    BY <1>1, <2>1, <2>2 DEF IInv, Responding, Calling, Flowing, Ended
<1>4. Accounting'
  BY <1>1 DEF IInv, Accounting, Totalled, SameCounts, Calling, Flowing
<1>5. QED
  BY <1>2, <1>3, <1>4 DEF IInv

\* TraceRequests counts the request under the outcome of the handler, or by the
\* status.
LEMMA TraceStep == IInv /\ Trace => IInv'
<1> SUFFICES ASSUME IInv, Trace PROVE IInv'
  OBVIOUS
<1>1. /\ UNCHANGED <<dialect, event, stream, body, dog, terminated, reported, http, wire, dead,
                     streaming, svc, left, idle, lines>>
      /\ pc = "trace" /\ pc' = "done" /\ metric' = RequestOutcome(left)
  BY DEF Trace, CountRequest, providerVars
<1>2. Types' /\ Resources'
  BY <1>1 DEF IInv, Types, TypeOK, Resources, Over, Calling, Flowing
<1>3. http.status \in Nat
  BY DEF IInv, Types, Responses
<1>4. metric' = "success" <=> Fine(http) /\ ~left
  <2>1. \A n \in Nat : ~(n >= 400) /\ ~(n >= 500) <=> n < 400
    OBVIOUS
  <2> DEFINE client == http.status >= 400
             server == http.status >= 500
  <2>2. Fine(http) <=> http.outcome = "" /\ ~client /\ ~server
    BY <1>3, <2>1, ZenonT(60) DEF Fine
  <2>3. http.outcome \in {"", "cancellation", "failure"} /\ (left = TRUE \/ left = FALSE)
    BY DEF IInv, Types, TypeOK, Responses
  <2>4. metric' = IF http.outcome # "" THEN http.outcome
                  ELSE IF left THEN "cancellation"
                  ELSE IF server THEN "server_error"
                  ELSE IF client THEN "client_error" ELSE "success"
    BY <1>1 DEF RequestOutcome
  <2> HIDE DEF client, server
  <2>5. QED
    BY <2>2, <2>3, <2>4
<1>5. Responding'
  <2>1. Outcome /\ OneResponse' /\ (left = TRUE \/ left = FALSE)
    BY <1>1 DEF IInv, Types, TypeOK, Responding, Ended, Outcome, OneResponse
  <2>2. Outcome'
    BY <1>1, <2>1 DEF Outcome
  <2>3. QED
    BY <1>1, <1>4, <2>1, <2>2 DEF Responding, Outcome, Calling, Flowing, Ended
<1>6. Accounting'
  BY <1>1 DEF IInv, Accounting, Totalled, SameCounts, Calling, Flowing
<1>7. QED
  BY <1>2, <1>5, <1>6 DEF IInv

\* The stream ends, at its last event or with an error: the watchdog is stopped
\* and the body closed.
LEMMA ReadingEnds ==
  ASSUME IInv, pc = "reading", NEW err \in Errors \ {"emit"}, Close, Returns(err),
         err = "nil" => terminated' = TRUE,
         event' \in Events(dialect), Size(event'.data) <= MaxEventSize,
         stream' \in Streams, terminated' \in BOOLEAN, lines' \in 0..MaxLines,
         UNCHANGED <<dialect, reported, responseVars, streaming, left, idle>>
  PROVE  IInv'
<1> USE DEF responseVars
<1>1. svc' \in Services /\ svc'.err = err /\ svc'.usage = svc.usage /\ pc' = "respond"
  BY DEF IInv, Types, Services, Returns
<1>2. Types'
  <2>1. event'.data \in Seq(Values(dialect)) /\ stream'.sentRole \in BOOLEAN
    BY DEF Events, Streams
  <2>2. TypeOK'
    BY <1>1, <2>1 DEF IInv, Types, TypeOK, Close
  <2>3. QED
    BY <1>1, <2>2 DEF IInv, Types
<1>3. Resources'
  BY <1>1 DEF IInv, Resources, Over, Calling, Flowing, Close
<1>4. Responding'
  <2>1. WroteFrames /\ metric = "" /\ http.outcome = "" /\ streaming = TRUE
    BY DEF IInv, Responding, Resources, Flowing, Ended
  <2>2. WroteFrames'
    BY <2>1 DEF WroteFrames
  <2>3. QED
    BY <1>1, <2>1, <2>2 DEF Responding, Calling, Flowing, Ended
<1>5. Accounting'
  BY <1>1 DEF IInv, Accounting, Totalled, Calling, Flowing
<1>6. QED
  BY <1>2, <1>3, <1>4, <1>5 DEF IInv

\* The body ends before the last event.
LEMMA BodyEndsStep == IInv /\ BodyEnds => IInv'
<1> SUFFICES ASSUME IInv, BodyEnds PROVE IInv'
  OBVIOUS
<1>1. /\ pc = "reading"
      /\ UNCHANGED <<dialect, event, stream, terminated, reported, responseVars,
                     streaming, left, idle, lines>>
  BY DEF BodyEnds
<1>2. PICK err \in Errors \ {"nil", "emit"} : Close /\ Returns(err)
  BY DEF BodyEnds, EndOfBody, ReadError, Failed, Handle, Errors
<1>3. /\ event' \in Events(dialect) /\ Size(event'.data) <= MaxEventSize
      /\ stream' \in Streams /\ terminated' \in BOOLEAN /\ lines' \in 0..MaxLines
  BY <1>1 DEF IInv, Types, TypeOK
<1>4. QED
  BY <1>1, <1>2, <1>3, ReadingEnds, Zenon

\* The response after a frame: status 200, and committed once bytes were written.
FrameHeader(h, b) == [WithStatus(h, 200) EXCEPT !.committed = @ \/ b]

\* What emit leaves in it.
LEMMA FrameStatus ==
  ASSUME NEW h \in Responses, h.status = 0 \/ h.status = 200, NEW b \in BOOLEAN
  PROVE  LET t == FrameHeader(h, b) IN
         /\ t \in Responses /\ t.status = 200 /\ t.outcome = h.outcome
         /\ t.committed = (h.committed \/ b) /\ t.committed \in BOOLEAN
<1> DEFINE w == WithStatus(h, 200)
           t == [w EXCEPT !.committed = @ \/ b]
<1>1. w \in Responses /\ w.status = 200 /\ w.outcome = h.outcome /\ w.committed = h.committed
  BY ZenonT(30) DEF WithStatus, Responses
<1> HIDE DEF w
<1>2. h.committed \in BOOLEAN
  BY DEF Responses
<1>3. t \in Responses /\ t.status = w.status /\ t.outcome = w.outcome
      /\ t.committed = (w.committed \/ b)
  BY <1>1, <1>2 DEF Responses
<1>4. QED
  BY <1>1, <1>2, <1>3 DEF w, FrameHeader

\* emit writes a frame and the stream goes on, or fails and the stream is closed.
LEMMA EmitStep == IInv /\ Emit => IInv'
<1> SUFFICES ASSUME IInv, Emit PROVE IInv'
  OBVIOUS
<1>1. /\ pc = "emit" /\ streaming = TRUE
      /\ UNCHANGED <<dialect, event, stream, terminated, reported, metric,
                     streaming, left, idle, lines>>
  BY DEF Emit, IInv, Resources, Flowing
<1>2. PICK how \in Writes :
        /\ EmitFrame(how)
        /\ how = "all" => pc' = "reading" /\ UNCHANGED <<svc, body, dog>>
        /\ how # "all" => Close /\ Returns("emit")
  BY DEF Emit
<1>3. /\ wire \in Seq({"frame"}) /\ metric = "" /\ http.outcome = "" /\ http \in Responses
      /\ wire = <<>> => http.status = 0 /\ http.committed = FALSE
      /\ wire # <<>> => http.status = 200 /\ http.committed = TRUE
  BY <1>1 DEF IInv, Types, Responding, WroteFrames, Flowing, Ended
<1>3a. wire \in Seq({"frame"})
  BY <1>3
<1>3b. /\ Append(wire, "frame") \in Seq({"frame"}) /\ Append(wire, "frame") # <<>>
       /\ Append(wire, "cut") # <<>>
  BY <1>3a, FramesAndOne
<1>3c. wire # <<>> => \E s \in Seq({"frame"}), last \in {"frame", "cut"} : wire = Append(s, last)
  BY <1>3a, SequenceEmptyOrAppend
<1>4. /\ http' \in Responses /\ http'.status = 200 /\ http'.outcome = ""
      /\ http'.committed = (http.committed \/ how # "none") /\ http'.committed \in BOOLEAN
  <2>1. http.status = 0 \/ http.status = 200
    BY <1>3
  <2>2. http' = FrameHeader(http, how # "none")
    BY <1>2 DEF EmitFrame, FrameHeader
  <2>3. http \in Responses /\ http.outcome = ""
    BY <1>3
  <2>4. CASE how = "none"
    <3>1. http' = FrameHeader(http, FALSE)
      BY <2>2, <2>4, Zenon
    <3>2. QED
      BY <2>1, <2>3, <2>4, <3>1, FrameStatus, ZenonT(30)
  <2>5. CASE how # "none"
    <3>1. http' = FrameHeader(http, TRUE)
      BY <2>2, <2>5, Zenon
    <3>2. QED
      BY <2>1, <2>3, <2>5, <3>1, FrameStatus, ZenonT(30)
  <2>6. QED
    BY <2>4, <2>5
<1>5. /\ how = "all" => wire' = Append(wire, "frame") /\ dead' = FALSE
      /\ how = "some" => wire' = Append(wire, "cut") /\ dead' = TRUE
      /\ how = "none" => wire' = wire /\ dead' = TRUE
  BY <1>2, Zenon DEF EmitFrame, Send
<1>6. CASE how = "all"
  <2>1. pc' = "reading" /\ UNCHANGED <<svc, body, dog>>
    BY <1>2, <1>6
  <2>2. WroteFrames'
    <3>1. wire' = Append(wire, "frame") /\ dead' = FALSE /\ http'.committed = TRUE
      BY <1>4, <1>5, <1>6
    <3>2. QED
      BY <1>4, <1>3b, <3>1 DEF WroteFrames
  <2>3. Types'
    BY <1>1, <1>4, <1>5, <1>6, <2>1 DEF IInv, Types, TypeOK
  <2>4. Resources'
    BY <1>1, <2>1 DEF IInv, Resources, Over, Calling, Flowing
  <2>5. Responding'
    BY <1>1, <1>3, <1>4, <2>1, <2>2 DEF Responding, Calling, Flowing, Ended
  <2>6. Accounting'
    BY <1>1, <2>1 DEF IInv, Accounting, Totalled, SameCounts, Calling, Flowing
  <2>7. QED
    BY <2>3, <2>4, <2>5, <2>6 DEF IInv
<1>7. CASE how # "all"
  <2>1. /\ svc' \in Services /\ svc'.err = "emit" /\ svc'.usage = svc.usage
        /\ pc' = "respond" /\ dog' = "stopped" /\ body' = "closed"
    BY <1>2, <1>7 DEF IInv, Types, Services, Returns, Close, Errors
  <2>2. WriteFailed'
    <3>1. CASE how = "some"
      <4>1. wire' = Append(wire, "cut") /\ dead' = TRUE /\ http'.committed = TRUE
        BY <1>4, <1>5, <3>1
      <4>2. QED
        BY <1>4, <1>3a, <1>3b, <4>1 DEF WriteFailed
    <3>2. CASE how = "none" /\ wire = <<>>
      BY <1>3, <1>4, <1>5, <3>2 DEF WriteFailed
    <3>3. CASE how = "none" /\ wire # <<>>
      <4>1. wire' = wire /\ dead' = TRUE /\ http'.committed = TRUE
        BY <1>3, <1>4, <1>5, <3>3
      <4>2. QED
        BY <1>4, <1>3c, <3>3, <4>1 DEF WriteFailed
    <3>4. QED
      BY <1>7, <3>1, <3>2, <3>3 DEF Writes
  <2>3. Types'
    <3>1. dead' = TRUE
      BY <1>5, <1>7 DEF Writes
    <3>2. TypeOK'
      BY <1>1, <1>4, <2>1, <3>1, ZenonT(30) DEF IInv, Types, TypeOK
    <3>3. QED
      BY <1>1, <1>4, <2>1, <3>2 DEF IInv, Types
  <2>4. Resources'
    BY <1>1, <2>1 DEF IInv, Resources, Over, Calling, Flowing
  <2>5. Responding'
    BY <1>1, <1>3, <1>4, <2>1, <2>2 DEF Responding, Calling, Flowing, Ended
  <2>6. Accounting'
    BY <1>1, <2>1 DEF IInv, Accounting, Totalled, Calling, Flowing
  <2>7. QED
    BY <2>3, <2>4, <2>5, <2>6 DEF IInv
<1>8. QED
  BY <1>6, <1>7

\* The usage of a whole answer is the one reported, with its total.
LEMMA CompleteUsageCounts ==
  ASSUME NEW u, dialect \in Dialects,
         dialect = "openai" => u \in Usage \cup {NoUsage},
         dialect = "anthropic" => u \in [input : Counts, output : Counts] \cup {NoUsage},
         ~(u # NoUsage /\ CompleteUsageMalformed(u))
  PROVE  LET v == CompleteUsage(u) IN
         /\ v \in Usage \cup {NoUsage} /\ Totalled(v)
         /\ Count(v, "input") = Count(u, "input")
         /\ Count(v, "output") = Count(u, "output")
<1>1. \A x : Newer(x, Count(NoUsage, "input")) = x /\ Newer(x, Count(NoUsage, "output")) = x
             /\ Newer(x, Count(NoUsage, "total")) = x
  BY DEF Newer, Count
<1>2. Totalled(NoUsage) /\ SameCounts(NoUsage, NoUsage)
  BY DEF Totalled, SameCounts, Count
<1>3. CASE dialect = "openai"
  <2> DEFINE n == NormalizeUsage(u)
             w == Overlay(NoUsage, n)
  <2>1. CompleteUsage(u) = n /\ ~(u # NoUsage /\ UsageMalformed(u)) /\ n \in Usage \cup {NoUsage}
    BY <1>3 DEF CompleteUsage, CompleteUsageMalformed, NormalizeUsage
  <2>2. /\ Totalled(w)
        /\ Count(w, "input") = Count(u, "input") /\ Count(w, "output") = Count(u, "output")
    <3>1. /\ u \in Usage \cup {NoUsage} /\ NoUsage \in Usage \cup {NoUsage}
          /\ ~(u # NoUsage /\ UsageMalformed(u))
      BY <1>3, <2>1, Zenon
    <3>2. /\ Totalled(w)
          /\ Count(w, "input") = Newer(Count(u, "input"), Count(NoUsage, "input"))
          /\ Count(w, "output") = Newer(Count(u, "output"), Count(NoUsage, "output"))
      BY <1>2, <3>1, OpenAIUsage, Zenon
    <3>. QED
      BY <1>1, <3>2, Zenon
  <2> HIDE DEF n
  <2>3. SameCounts(w, n)
    <3>1. NoUsage \in Usage \cup {NoUsage} /\ n \in Usage \cup {NoUsage}
      BY <2>1, Zenon
    <3>2. \A f \in {"input", "output", "total"} : Count(w, f) = Newer(Count(n, f), Count(NoUsage, f))
      BY <3>1, OverlayCounts, Zenon
    <3> HIDE DEF w
    <3>3. /\ Count(w, "input") = Newer(Count(n, "input"), Count(NoUsage, "input"))
          /\ Count(w, "output") = Newer(Count(n, "output"), Count(NoUsage, "output"))
          /\ Count(w, "total") = Newer(Count(n, "total"), Count(NoUsage, "total"))
      BY <3>2, Zenon
    <3>4. QED
      BY <1>1, <3>3, Zenon DEF SameCounts
  <2> HIDE DEF w
  <2>4. QED
    BY <2>1, <2>2, <2>3 DEF SameCounts, Totalled
<1>4. CASE dialect = "anthropic"
  <2> DEFINE m == MergeUsage(NoUsage, u)
             w == Overlay(NoUsage, m)
  <2>1. CompleteUsage(u) = m
    BY <1>4 DEF CompleteUsage
  <2>2. ~Overflows(NoUsage, u)
    BY <1>1, <1>4 DEF CompleteUsageMalformed, Overflows, Reports, Count, Newer
  <2>3. m \in Usage \cup {NoUsage}
    <3>1. CASE u = NoUsage
      BY <3>1 DEF MergeUsage, Reports, Count
    <3>2. CASE u \in [input : Counts, output : Counts]
      BY <2>2, <3>2, MergeType
    <3>3. QED
      BY <1>4, <3>1, <3>2
  <2> HIDE DEF m
  <2>4. /\ Totalled(w) /\ SameCounts(w, m)
        /\ Count(w, "input") = Newer(Count(u, "input"), Count(NoUsage, "input"))
        /\ Count(w, "output") = Newer(Count(u, "output"), Count(NoUsage, "output"))
    <3>1. m = MergeUsage(NoUsage, u) /\ NoUsage \in Usage \cup {NoUsage}
      BY DEF m
    <3>2. u \in [input : Counts, output : Counts] \cup {NoUsage}
      BY <1>4
    <3>3. HandsOn(NoUsage, NoUsage, u, m)
      BY <1>2, <2>2, <3>1, <3>2 DEF HandsOn
    <3>4. KeepsUp(w, NoUsage, NoUsage, u)
      BY <3>3, AnthropicUsageMerged, Zenon
    <3>5. QED
      BY <3>1, <3>4, Zenon DEF KeepsUp
  <2> HIDE DEF w
  <2>5. QED
    BY <1>1, <2>1, <2>3, <2>4 DEF SameCounts, Totalled
<1>5. QED
  BY <1>3, <1>4 DEF Dialects

\* A whole answer comes.
LEMMA CompleteAnswersStep == IInv /\ CompleteAnswers => IInv'
<1> SUFFICES ASSUME IInv, CompleteAnswers PROVE IInv'
  OBVIOUS
<1>1. /\ pc = "call" /\ streaming = FALSE /\ dialect \in Dialects /\ dog = "none" /\ body = "none"
      /\ svc.err = "nil"
      /\ UNCHANGED <<dialect, event, stream, body, dog, terminated, responseVars,
                     streaming, left, idle, lines>>
  BY DEF CompleteAnswers, IInv, Types, TypeOK, Resources, Calling
<1>2. PICK doc \in Documents[dialect] :
        IF doc.usage # NoUsage /\ CompleteUsageMalformed(doc.usage)
        THEN Returns("internal") /\ UNCHANGED reported
        ELSE /\ svc' = [svc EXCEPT !.usage = CompleteUsage(doc.usage)]
             /\ pc' = "respond"
             /\ reported' = [input |-> Count(doc.usage, "input"), output |-> Count(doc.usage, "output")]
  BY DEF CompleteAnswers
<1>3. CASE doc.usage # NoUsage /\ CompleteUsageMalformed(doc.usage)
  <2>1. Returns("internal") /\ UNCHANGED reported
    BY <1>2, <1>3
  <2>2. PICK err \in Errors \ {"nil", "emit"} : Returns(err)
    BY <2>1 DEF Errors
  <2>3. QED
    BY <1>1, <2>1, <2>2, CallFails
<1>4. CASE ~(doc.usage # NoUsage /\ CompleteUsageMalformed(doc.usage))
  <2> DEFINE u == doc.usage
             v == CompleteUsage(u)
  <2>1. /\ svc' = [svc EXCEPT !.usage = v] /\ pc' = "respond"
        /\ reported' = [input |-> Count(u, "input"), output |-> Count(u, "output")]
    BY <1>2, <1>4
  <2>2. /\ dialect = "openai" => u \in Usage \cup {NoUsage}
        /\ dialect = "anthropic" => u \in [input : Counts, output : Counts] \cup {NoUsage}
    BY DocumentType DEF OpenAIDocument, AnthropicDocument
  <2> HIDE DEF u
  <2>3. /\ v \in Usage \cup {NoUsage} /\ Totalled(v)
        /\ Count(v, "input") = Count(u, "input") /\ Count(v, "output") = Count(u, "output")
    BY <1>1, <1>4, <2>2, CompleteUsageCounts DEF u
  <2> HIDE DEF v
  <2>4. svc' \in Services /\ svc'.err = "nil" /\ svc'.usage = v
    BY <1>1, <2>1, <2>3 DEF IInv, Types, Services
  <2>5. /\ reported' \in [input : Counts, output : Counts]
        /\ reported'.input = Count(v, "input") /\ reported'.output = Count(v, "output")
    BY <2>1, <2>3 DEF Usage, Counts, Count
  <2>6. Types'
    BY <1>1, <2>1, <2>4, <2>5 DEF IInv, Types, TypeOK, responseVars
  <2>7. Resources'
    BY <1>1, <2>1, <2>4 DEF IInv, Resources, Over, Calling, Flowing
  <2>8. Responding'
    <3>1. WroteFrames /\ wire = <<>> /\ metric = "" /\ http.outcome = ""
      BY <1>1 DEF IInv, Responding, Calling, Ended
    <3>2. WroteFrames'
      BY <1>1, <3>1 DEF WroteFrames, responseVars
    <3>3. QED
      BY <1>1, <2>1, <2>4, <3>1, <3>2 DEF Responding, Calling, Flowing, Ended, responseVars
  <2>9. Accounting'
    BY <2>1, <2>3, <2>4, <2>5 DEF Accounting, Calling, Flowing
  <2>10. QED
    BY <2>6, <2>7, <2>8, <2>9 DEF IInv
<1>5. QED
  BY <1>3, <1>4

\* The status of an error.
LEMMA ErrorStatus ==
  \A err \in Errors \ {"nil"} : StatusOf(err) \in Nat /\ ~(StatusOf(err) < 400) /\ StatusOf(err) >= 400
<1>1. \A err \in Errors \ {"nil"} : StatusOf(err) \in {400, 429, 500, 502, 503, 504}
  BY DEF Errors, StatusOf
<1>2. \A code \in {400, 429, 500, 502, 503, 504} : code \in Nat /\ ~(code < 400) /\ code >= 400
  OBVIOUS
<1>3. QED
  BY <1>1, <1>2

\* The codes that a stream starts with.
LEMMA Codes == 200 < 400 /\ 200 # 0
  OBVIOUS

\* A response under 200 that has no outcome of its own is fine.
LEMMA FineStatus ==
  ASSUME NEW h, h.status = 200, h.outcome = ""
  PROVE  Fine(h)
  BY Codes DEF Fine

\* A response that starts with 200, or goes on.
LEMMA StatusOK ==
  ASSUME NEW h \in Responses, h.status = 0 \/ h.status = 200, h.outcome = ""
  PROVE  LET t == WithStatus(h, 200) IN
         t \in Responses /\ t.status = 200 /\ t.outcome = "" /\ Fine(t)
<1> DEFINE t == WithStatus(h, 200)
<1>1. t \in Responses /\ t.status = 200 /\ t.outcome = ""
  BY ZenonT(30) DEF WithStatus, Responses
<1> HIDE DEF t
<1>2. QED
  BY <1>1, FineStatus DEF t

\* The handler ends the response: with an answer or an error, with [DONE], or
\* with nothing more after a failure of a committed stream.
LEMMA RespondStep == IInv /\ Respond => IInv'
<1> SUFFICES ASSUME IInv, Respond PROVE IInv'
  OBVIOUS
<1>1. /\ pc = "respond" /\ pc' = "trace"
      /\ UNCHANGED <<dialect, event, stream, body, dog, terminated, reported, metric,
                     streaming, svc, left, idle, lines>>
  BY DEF Respond, providerVars
<1>2. PICK how \in Writes :
        IF streaming THEN EndStream(svc.err, left, how) ELSE EndCompletion(svc.err, how)
  BY DEF Respond
<1>3. /\ metric = "" /\ http.outcome = "" /\ http \in Responses /\ svc.err \in Errors
      /\ svc.err # "emit" => WroteFrames
      /\ svc.err = "emit" => WriteFailed
      /\ streaming = FALSE => wire = <<>> /\ svc.err # "emit"
  BY <1>1 DEF IInv, Types, TypeOK, Services, Responding, Ended
<1>4. SUFFICES /\ http' \in Responses /\ dead' \in BOOLEAN /\ Outcome'
  <2>1. Types'
    <3>1. http'.committed \in BOOLEAN
      BY DEF Responses
    <3>2. TypeOK'
      BY <1>1, <3>1 DEF IInv, Types, TypeOK
    <3>3. QED
      BY <1>1, <3>2 DEF IInv, Types
  <2>2. Resources'
    BY <1>1 DEF IInv, Resources, Over, Calling, Flowing
  <2>3. Responding'
    BY <1>1, <1>3 DEF Responding, Calling, Flowing, Ended
  <2>4. Accounting'
    BY <1>1 DEF IInv, Accounting, Totalled, Calling, Flowing
  <2>5. QED
    BY <2>1, <2>2, <2>3, <2>4 DEF IInv
<1>5. ASSUME wire = <<>>, WroteFrames, svc.err # "nil", WriteJSON(StatusOf(svc.err), "error", how)
      PROVE  http' \in Responses /\ dead' \in BOOLEAN /\ Outcome'
  <2>1. /\ StatusOf(svc.err) \in Nat /\ ~(StatusOf(svc.err) < 400) /\ StatusOf(svc.err) >= 400
    BY <1>3, <1>5, ErrorStatus
  <2>2. http' = WithStatus(http, StatusOf(svc.err)) /\ http.status = 0
    BY <1>5 DEF WriteJSON, WroteFrames
  <2>3. http' \in Responses /\ http'.status = StatusOf(svc.err)
    BY <1>3, <2>1, <2>2, FirstStatus
  <2>4. ~Fine(http') /\ http'.status >= 400
    BY <2>1, <2>3 DEF Fine
  <2>5. wire' \in {Append(wire, "error"), Append(wire, "cut"), wire} /\ dead' \in BOOLEAN
    BY <1>5 DEF WriteJSON, Send, Writes
  <2>6. Document(wire', "error")
    <3>1. Append(<<>>, "error") = <<"error">> /\ Append(<<>>, "cut") = <<"cut">>
      OBVIOUS
    <3>2. QED
      BY <1>5, <2>5, <3>1 DEF Document
  <2>7. OneResponse' /\ ~HasDone(wire')
    BY <2>4, <2>6, NoDocumentIsDone DEF OneResponse, Document
  <2>8. QED
    BY <1>1, <1>5, <2>3, <2>4, <2>5, <2>7 DEF Outcome
<1>6. CASE streaming = FALSE
  <2>1. wire = <<>> /\ WroteFrames
    BY <1>3, <1>6
  <2>2. CASE svc.err # "nil"
    <3>1. WriteJSON(StatusOf(svc.err), "error", how)
      BY <1>2, <1>6, <2>2 DEF EndCompletion
    <3>2. QED
      BY <1>5, <2>1, <2>2, <3>1
  <2>3. CASE svc.err = "nil"
    <3>1. WriteJSON(200, "answer", how)
      BY <1>2, <1>6, <2>3 DEF EndCompletion
    <3>2. http' = WithStatus(http, 200) /\ http.status = 0
      BY <2>1, <3>1 DEF WriteJSON, WroteFrames
    <3>3. http \in Responses /\ http.outcome = ""
      BY <1>3
    <3>4. http' \in Responses /\ http'.status = 200 /\ http'.outcome = "" /\ Fine(http')
      BY <3>2, <3>3, StatusOK, ZenonT(60)
    <3>5. wire' \in {Append(wire, "answer"), Append(wire, "cut"), wire} /\ dead' \in BOOLEAN
      BY <3>1 DEF WriteJSON, Send, Writes
    <3>6. Document(wire', "answer")
      <4>1. Append(<<>>, "answer") = <<"answer">> /\ Append(<<>>, "cut") = <<"cut">>
        OBVIOUS
      <4>2. QED
        BY <2>1, <3>5, <4>1 DEF Document
    <3>7. OneResponse' /\ ~HasDone(wire')
      <4>1. svc'.err = "nil"
        BY <1>1, <2>3
      <4>2. OneResponse'
        BY <3>4, <3>6, <4>1 DEF OneResponse, Document
      <4>3. "answer" # "done"
        OBVIOUS
      <4>4. QED
        BY <3>6, <4>2, <4>3, NoDocumentIsDone
    <3>8. QED
      BY <1>1, <2>3, <3>3, <3>4, <3>5, <3>7 DEF Outcome
  <2>4. QED
    BY <2>2, <2>3
<1>7. CASE streaming = TRUE
  <2>1. EndStream(svc.err, left, how)
    BY <1>2, <1>7
  <2>2. CASE svc.err # "nil" /\ ~http.committed
    <3>1. WriteJSON(StatusOf(svc.err), "error", how)
      BY <2>1, <2>2 DEF EndStream
    <3>2. CASE svc.err # "emit"
      <4>1. WroteFrames
        BY <1>3, <3>2
      <4>2. wire = <<>>
        BY <2>2, <4>1 DEF WroteFrames
      <4>3. QED
        BY <1>5, <2>2, <3>1, <4>1, <4>2
    <3>3. CASE svc.err = "emit"
      <4>1. dead = TRUE /\ http.status = 200 /\ wire = <<>>
        BY <1>3, <2>2, <3>3 DEF WriteFailed
      <4>2. wire' = wire /\ dead' = TRUE
        BY <3>1, <4>1, Zenon DEF WriteJSON, Send
      <4>3. http' = http /\ Fine(http)
        <5>1. http.status # 0 /\ http' = WithStatus(http, StatusOf(svc.err))
          BY <3>1, <4>1, Codes DEF WriteJSON
        <5>2. QED
          BY <1>3, <4>1, <5>1, FineStatus DEF WithStatus
      <4>4. OneResponse' /\ ~HasDone(wire')
        BY <4>1, <4>2, NoDocumentIsDone DEF OneResponse, Document
      <4>5. QED
        BY <1>1, <1>3, <3>3, <4>1, <4>2, <4>3, <4>4 DEF Outcome
    <3>4. QED
      BY <3>2, <3>3
  <2>3. CASE svc.err # "nil" /\ http.committed
    <3>1. /\ http' = [http EXCEPT !.outcome = IF left THEN "cancellation" ELSE "failure"]
          /\ wire' = wire /\ dead' = dead
      BY <2>1, <2>3 DEF EndStream
    <3>2. /\ http' \in Responses /\ http'.outcome # "" /\ http'.status = http.status
      BY <1>3, <3>1 DEF Responses
    <3>3. dead' \in BOOLEAN
      BY <3>1 DEF IInv, Types, TypeOK
    <3>4. OneResponse /\ ~HasDone(wire)
      BY <1>3, <1>7, StreamResponse
    <3>5. OneResponse'
      BY <1>1, <3>1, <3>2, <3>4 DEF OneResponse
    <3>6. QED
      BY <1>1, <2>3, <3>1, <3>2, <3>3, <3>4, <3>5 DEF Outcome, Fine
  <2>4. CASE svc.err = "nil"
    <3>1. http' = WithStatus(http, 200) /\ Send("done", how)
      BY <2>1, <2>4 DEF EndStream
    <3>2. wire \in Seq({"frame"}) /\ (http.status = 0 \/ http.status = 200)
      <4>1. WroteFrames
        BY <1>3, <2>4
      <4>2. QED
        BY <4>1 DEF WroteFrames
    <3>3. http \in Responses /\ http.outcome = ""
      BY <1>3
    <3>4. http' \in Responses /\ http'.status = 200 /\ http'.outcome = "" /\ Fine(http')
      BY <3>1, <3>2, <3>3, StatusOK, ZenonT(30)
    <3>5. wire' \in {Append(wire, "done"), Append(wire, "cut"), wire} /\ dead' \in BOOLEAN
      BY <3>1 DEF Send, Writes
    <3>6. OneResponse'
      <4>1. IsStream(wire) /\ IsStream(Append(wire, "done")) /\ IsStream(Append(wire, "cut"))
        BY <3>2, FramesOnly, FramesAndOne
      <4>2. IsStream(wire')
        BY <3>5, <4>1, Zenon
      <4>3. QED
        BY <1>1, <1>7, <3>4, <4>2 DEF OneResponse
    <3>7. QED
      BY <1>1, <1>7, <2>4, <3>3, <3>4, <3>5, <3>6 DEF Outcome
  <2>5. QED
    BY <2>2, <2>3, <2>4
<1>8. streaming = TRUE \/ streaming = FALSE
  BY DEF IInv, Types, TypeOK
<1>9. QED
  BY <1>6, <1>7, <1>8, Zenon

\* A chunk takes its usage to the gateway, and is handed to emit if visible.
LEMMA ChunkRead ==
  ASSUME IInv, pc = "reading", NEW result, result.kind = "chunk", Handle(result),
         {result.role, result.content, result.finish} \subseteq BOOLEAN,
         Overlay(svc.usage, result.usage) \in Usage \cup {NoUsage},
         Totalled(Overlay(svc.usage, result.usage)),
         reported' \in [input : Counts, output : Counts],
         Count(Overlay(svc.usage, result.usage), "input") = reported'.input,
         Count(Overlay(svc.usage, result.usage), "output") = reported'.output,
         dialect = "anthropic" => SameCounts(Overlay(svc.usage, result.usage), stream'.usage),
         event' \in Events(dialect), Size(event'.data) <= MaxEventSize,
         stream' \in Streams, terminated' \in BOOLEAN, lines' \in 0..MaxLines,
         UNCHANGED <<dialect, responseVars, streaming, left, idle>>
  PROVE  IInv'
<1> USE DEF responseVars
<1> DEFINE v == Overlay(svc.usage, result.usage)
<1>1. /\ svc' = [svc EXCEPT !.usage = v]
      /\ pc' = IF ClientVisible(result) THEN "emit" ELSE pc
      /\ UNCHANGED <<body, dog>>
  BY DEF Handle
<1> HIDE DEF v
<1>2. svc' \in Services /\ svc'.err = svc.err /\ svc'.usage = v /\ pc' \in {"reading", "emit"}
  <2>1. v \in Usage \cup {NoUsage}
    BY DEF v
  <2>2. QED
    BY <1>1, <2>1 DEF IInv, Types, Services
<1>3. Types'
  <2>1. event'.data \in Seq(Values(dialect)) /\ stream'.sentRole \in BOOLEAN
    BY DEF Events, Streams
  <2>2. TypeOK'
    BY <1>1, <1>2, <2>1 DEF IInv, Types, TypeOK
  <2>3. QED
    BY <1>2, <2>2 DEF IInv, Types
<1>4. Resources'
  BY <1>1, <1>2 DEF IInv, Resources, Over, Calling, Flowing
<1>5. Responding'
  <2>1. WroteFrames /\ metric = "" /\ http.outcome = ""
    BY DEF IInv, Responding, Flowing, Ended
  <2>2. WroteFrames'
    BY <2>1 DEF WroteFrames
  <2>3. QED
    BY <1>2, <2>1, <2>2 DEF Responding, Calling, Flowing, Ended
<1>6. Accounting'
  BY <1>2 DEF Accounting, Calling, Flowing, v
<1>7. QED
  BY <1>3, <1>4, <1>5, <1>6 DEF IInv

\* Next goes on to the next event.
LEMMA ReadsOn ==
  ASSUME IInv, pc = "reading", Handle(More), UNCHANGED reported, stream'.usage = stream.usage,
         event' \in Events(dialect), Size(event'.data) <= MaxEventSize,
         stream' \in Streams, terminated' \in BOOLEAN, lines' \in 0..MaxLines,
         UNCHANGED <<dialect, responseVars, streaming, left, idle>>
  PROVE  IInv'
<1> USE DEF responseVars
<1>1. UNCHANGED <<pc, svc, body, dog>>
  BY DEF Handle, More
<1>2. Types'
  <2>1. event'.data \in Seq(Values(dialect)) /\ stream'.sentRole \in BOOLEAN
    BY DEF Events, Streams
  <2>2. TypeOK'
    BY <1>1, <2>1 DEF IInv, Types, TypeOK
  <2>3. QED
    BY <1>1, <2>2 DEF IInv, Types
<1>3. Resources'
  BY <1>1 DEF IInv, Resources, Over, Calling, Flowing
<1>4. Responding'
  <2>1. WroteFrames /\ metric = "" /\ http.outcome = ""
    BY DEF IInv, Responding, Flowing, Ended
  <2>2. WroteFrames'
    BY <2>1 DEF WroteFrames
  <2>3. QED
    BY <1>1, <2>1, <2>2 DEF Responding, Calling, Flowing, Ended
<1>5. Accounting'
  BY <1>1 DEF IInv, Accounting, Totalled, SameCounts, Calling, Flowing
<1>6. QED
  BY <1>2, <1>3, <1>4, <1>5 DEF IInv

\* The event after a line that neither ends it nor makes it too large.
LEMMA LineAdded ==
  ASSUME Types, NEW line \in Lines(dialect),
         ~(line.field = "data" /\ Size(Append(event.data, line.value)) > MaxEventSize),
         NEW e, e = CASE line.field = "event" -> [event EXCEPT !.type = line.value]
                      [] line.field = "data" -> [event EXCEPT !.data = Append(@, line.value)]
                      [] OTHER -> event
  PROVE  e \in Events(dialect) /\ Size(e.data) <= MaxEventSize
<1>1. /\ event \in Events(dialect) /\ event.data \in Seq(Values(dialect))
      /\ Size(event.data) <= MaxEventSize /\ dialect \in Dialects
  BY DEF Types, TypeOK
<1>2. CASE line.field = "event"
  <2>1. line.value \in MessageTypes
    BY <1>1, <1>2, ProviderStreamAssumption DEF Lines
  <2>2. e = [event EXCEPT !.type = line.value]
    BY <1>2
  <2>3. e \in Events(dialect) /\ e.data = event.data
    BY <1>1, <2>1, <2>2 DEF Events
  <2>4. QED
    BY <1>1, <2>3
<1>3. CASE line.field = "data"
  <2> DEFINE d == Append(event.data, line.value)
  <2>1. line.value \in Values(dialect)
    BY <1>3 DEF Lines
  <2>2. d \in Seq(Values(dialect)) /\ Len(d) = Len(event.data) + 1 /\ Len(event.data) \in Nat
    BY <1>1, <2>1, AppendProperties, LenProperties
  <2>3. e = [event EXCEPT !.data = d]
    BY <1>3
  <2>4. Size(d) \in Nat
    <3>1. d # <<>>
      BY <2>2, EmptySeq
    <3> HIDE DEF d
    <3>2. QED
      BY <2>2, <3>1 DEF Size
  <2>5. ~(Size(d) > MaxEventSize)
    BY <1>3
  <2> HIDE DEF d
  <2>6. e \in Events(dialect) /\ e.data = d
    BY <1>1, <2>2, <2>3, Zenon DEF Events
  <2>7. Size(d) <= MaxEventSize
    BY <2>4, <2>5, ProviderStreamAssumption
  <2>8. QED
    BY <2>6, <2>7, Zenon
<1>4. CASE line.field \notin {"event", "data"}
  BY <1>1, <1>4
<1>5. QED
  BY <1>2, <1>3, <1>4

\* The event that SSEReader starts with.
LEMMA NoEventFits ==
  ASSUME NEW d
  PROVE  NoEvent \in Events(d) /\ Size(NoEvent.data) <= MaxEventSize
<1>1. NoEvent \in Events(d) /\ NoEvent.data = <<>>
  BY DEF NoEvent, Events, MessageTypes
<1>2. Size(<<>>) <= MaxEventSize
  BY ProviderStreamAssumption DEF Size
<1>3. QED
  BY <1>1, <1>2

\* A line is read, and the gateway's loop goes on with what Next returns.
LEMMA ReadStep == IInv /\ Read => IInv'
<1> SUFFICES ASSUME IInv, Read PROVE IInv'
  OBVIOUS
<1>1. /\ pc = "reading" /\ UNCHANGED <<dialect, responseVars, streaming, left, idle>>
      /\ Flowing /\ Types /\ Accounting
  BY DEF Read, IInv, Flowing
<1>2. lines' \in 0..MaxLines
  <2>1. lines \in 0..MaxLines
    BY <1>1 DEF Types, TypeOK
  <2>2. lines < MaxLines /\ lines' = lines + 1
    BY DEF Read
  <2>3. QED
    BY <2>1, <2>2, MaxLinesAssumption
<1>3. PICK line \in Lines(dialect), result \in Results :
        ReadLine(line, left \/ idle, result) /\ Handle(result)
  BY DEF Read
<1>4. /\ event \in Events(dialect) /\ Size(event.data) <= MaxEventSize
      /\ stream \in Streams /\ terminated \in BOOLEAN
      /\ reported \in [input : Counts, output : Counts]
  BY <1>1 DEF Types, TypeOK
<1> DEFINE TooLarge == line.field = "data" /\ Size(Append(event.data, line.value)) > MaxEventSize
           Complete == line.field = "blank" /\ event # NoEvent
<1>5. CASE TooLarge
  <2>1. result = ReadError(left \/ idle, TRUE) /\ UNCHANGED <<event, stream, terminated, reported>>
    BY <1>3, <1>5 DEF ReadLine
  <2>2. PICK err \in Errors \ {"nil", "emit"} : Close /\ Returns(err)
    BY <1>3, <2>1 DEF ReadError, Failed, Handle, Errors
  <2> HIDE DEF TooLarge, Complete
  <2>3. QED
    BY <1>1, <1>2, <1>4, <2>1, <2>2, ReadingEnds, Zenon
<1>6. CASE ~TooLarge /\ Complete
  <2>1. PICK doc \in Decoded(event.data) :
          LET next == Next_(stream, event.type, doc)
              usage == CarriedUsage(event.type, doc)
          IN
          /\ result = next.result
          /\ stream' = next.stream
          /\ event' = NoEvent
          /\ terminated' = LastEvent(event.type, doc)
          /\ reported' = IF result.kind = "chunk"
                         THEN [input |-> Newer(Count(usage, "input"), reported.input),
                               output |-> Newer(Count(usage, "output"), reported.output)]
                         ELSE reported
    BY <1>3, <1>6 DEF ReadLine
  <2> DEFINE next == Next_(stream, event.type, doc)
             usage == CarriedUsage(event.type, doc)
             v == Overlay(svc.usage, result.usage)
  <2> HIDE DEF TooLarge, Complete
  <2>2. /\ result = next.result /\ stream' = next.stream /\ event' = NoEvent
        /\ terminated' = LastEvent(event.type, doc)
        /\ result.kind = "chunk" =>
             reported' = [input |-> Newer(Count(usage, "input"), reported.input),
                          output |-> Newer(Count(usage, "output"), reported.output)]
        /\ result.kind # "chunk" => reported' = reported
    BY <2>1
  <2>3. /\ next.stream \in Streams
        /\ \/ next.result = More /\ next.stream.usage = stream.usage
           \/ next.result = Eof /\ LastEvent(event.type, doc)
           \/ next.result = Failed("internal")
           \/ /\ result.kind = "chunk"
              /\ {result.role, result.content, result.finish} \subseteq BOOLEAN
              /\ v \in Usage \cup {NoUsage} /\ Totalled(v)
              /\ Count(v, "input") = Newer(Count(usage, "input"), reported.input)
              /\ Count(v, "output") = Newer(Count(usage, "output"), reported.output)
              /\ dialect = "anthropic" => SameCounts(v, next.stream.usage)
    BY <1>1, <2>2, NextResult
  <2> HIDE DEF next, usage
  <2>4. event' \in Events(dialect) /\ Size(event'.data) <= MaxEventSize
    BY <2>2, NoEventFits
  <2>5. terminated' \in BOOLEAN /\ stream' \in Streams
    BY <2>2, <2>3 DEF LastEvent
  <2>6. /\ More.kind = "more" /\ Eof.kind = "eof"
        /\ Failed("internal").kind = "error" /\ Failed("internal").err = "internal"
    BY DEF More, Eof, Failed
  <2>7. CASE result = More /\ next.stream.usage = stream.usage
    BY <1>1, <1>2, <1>3, <2>2, <2>4, <2>5, <2>6, <2>7, ReadsOn
  <2>8. CASE result = Eof /\ LastEvent(event.type, doc)
    <3>1. Close /\ Returns("nil") /\ reported' = reported /\ terminated' = TRUE
      BY <1>3, <2>2, <2>6, <2>8, Zenon DEF Handle
    <3>2. "nil" \in Errors \ {"emit"}
      BY DEF Errors
    <3>3. QED
      BY <1>1, <1>2, <2>4, <2>5, <3>1, <3>2, ReadingEnds
  <2>9. CASE result = Failed("internal")
    <3>1. Close /\ Returns("internal") /\ reported' = reported
      BY <1>3, <2>2, <2>6, <2>9, Zenon DEF Handle
    <3>2. "internal" \in Errors \ {"emit"} /\ "internal" # "nil"
      BY DEF Errors
    <3>3. QED
      BY <1>1, <1>2, <2>4, <2>5, <3>1, <3>2, ReadingEnds, Zenon
  <2>10. CASE /\ result.kind = "chunk"
              /\ {result.role, result.content, result.finish} \subseteq BOOLEAN
              /\ v \in Usage \cup {NoUsage} /\ Totalled(v)
              /\ Count(v, "input") = Newer(Count(usage, "input"), reported.input)
              /\ Count(v, "output") = Newer(Count(usage, "output"), reported.output)
              /\ dialect = "anthropic" => SameCounts(v, next.stream.usage)
    <3>1. /\ reported' = [input |-> Count(v, "input"), output |-> Count(v, "output")]
          /\ v \in Usage \cup {NoUsage}
      BY <2>2, <2>10
    <3>2. Count(v, "input") \in Counts /\ Count(v, "output") \in Counts
      BY <3>1 DEF Count, Usage, Counts
    <3> HIDE DEF v
    <3>3. /\ reported'.input = Count(v, "input") /\ reported'.output = Count(v, "output")
          /\ reported' \in [input : Counts, output : Counts]
      BY <3>1, <3>2
    <3> USE DEF v
    <3>4. QED
      BY <1>1, <1>2, <1>3, <2>2, <2>4, <2>5, <2>10, <3>3, ChunkRead
  <2>11. QED
    BY <2>2, <2>3, <2>7, <2>8, <2>9, <2>10
<1>7. CASE ~TooLarge /\ ~Complete
  <2>1. /\ result = More /\ UNCHANGED <<stream, terminated, reported>>
        /\ event' = CASE line.field = "event" -> [event EXCEPT !.type = line.value]
                      [] line.field = "data" -> [event EXCEPT !.data = Append(@, line.value)]
                      [] OTHER -> event
    BY <1>3, <1>7, Zenon DEF ReadLine
  <2>2. event' \in Events(dialect) /\ Size(event'.data) <= MaxEventSize
    BY <1>1, <1>7, <2>1, LineAdded, Zenon
  <2> HIDE DEF TooLarge, Complete
  <2>3. QED
    BY <1>1, <1>2, <1>3, <1>4, <2>1, <2>2, ReadsOn
<1>8. QED
  BY <1>5, <1>6, <1>7
-----------------------------------------------------------------------------
\* A request starts with nothing open, nothing written and no usage.
LEMMA InitInv == Init => IInv
<1> SUFFICES ASSUME Init PROVE IInv
  OBVIOUS
<1>1. /\ dialect \in Dialects /\ event = NoEvent /\ body = "none" /\ dog = "none"
      /\ terminated = FALSE /\ dead = FALSE /\ left = FALSE /\ idle = FALSE
      /\ streaming \in BOOLEAN /\ pc = "handler" /\ metric = "" /\ wire = <<>>
  BY DEF Init, ProviderInit, ResponseInit
<1>2. lines = 0
  BY DEF Init
<1>3. stream \in Streams /\ stream.sentRole = FALSE /\ stream.usage = NoUsage
  BY DEF Init, ProviderInit, Streams
<1>4. svc \in Services /\ svc.err = "nil" /\ svc.usage = NoUsage
  BY DEF Init, Services, Errors
<1>5. http \in Responses /\ http.committed = FALSE /\ http.outcome = "" /\ http.status = 0
  BY DEF Init, ResponseInit, Responses
<1>6. /\ reported \in [input : Counts, output : Counts]
      /\ reported.input = Nil /\ reported.output = Nil
  BY DEF Init, ProviderInit, Counts
<1>7. Types
  <2>1. NoEvent \in Events(dialect) /\ Size(NoEvent.data) <= MaxEventSize
    BY NoEventFits
  <2>3. event.data \in Seq(Values(dialect))
    BY <1>1, <2>1 DEF Events
  <2>4. lines \in 0..MaxLines
    BY <1>2, MaxLinesAssumption
  <2>5. TypeOK
    BY <1>1, <1>3, <1>5, <2>1, <2>3, <2>4 DEF TypeOK
  <2>6. QED
    BY <1>1, <1>3, <1>4, <1>5, <1>6, <2>1, <2>5 DEF Types
<1>8. Resources
  BY <1>1, <1>4 DEF Resources, Over, Calling, Flowing
<1>9. Responding
  <2>1. <<>> \in Seq({"frame"})
    BY EmptySeq
  <2>2. WroteFrames
    BY <1>1, <1>5, <2>1 DEF WroteFrames
  <2>3. QED
    BY <1>1, <1>5, <2>2 DEF Responding, Calling, Flowing, Ended
<1>10. Accounting
  BY <1>1, <1>3, <1>4, <1>6 DEF Accounting, Totalled, Count, Calling, Flowing
<1>11. QED
  BY <1>7, <1>8, <1>9, <1>10 DEF IInv

\* The invariant holds of one request, whatever the provider sends, however the
\* writes to the client end, and whenever the client leaves or the watchdog fires.
THEOREM Invariance == Spec => []IInv
<1>1. IInv /\ [Next]_vars => IInv'
  BY BadRequestStep, AcceptStep, RefuseStep, CompleteFailsStep, CompleteAnswersStep,
     OpenStreamFailsStep, OpenStreamStep, ReadStep, BodyEndsStep, EmitStep, RespondStep,
     TraceStep, CancellationStep DEF Next
<1>2. QED
  BY InitInv, <1>1, PTL DEF Spec

\* What a client of a request has read at any time.
LEMMA ResponseSoFar == IInv => OneResponse /\ (HasDone(wire) => Ended)
<1> SUFFICES ASSUME IInv PROVE OneResponse /\ (HasDone(wire) => Ended)
  OBVIOUS
<1>1. Responding /\ Resources /\ TypeOK
  BY DEF IInv, Types
<1>2. CASE Ended
  BY <1>1, <1>2 DEF Responding, Outcome
<1>3. CASE wire = <<>>
  BY <1>3, NoDocumentIsDone DEF OneResponse, Document
<1>4. CASE ~Ended /\ wire # <<>>
  <2>1. streaming = TRUE /\ (WroteFrames \/ WriteFailed)
    BY <1>1, <1>4 DEF Responding, Resources, TypeOK, Calling, Flowing, Ended
  <2>2. QED
    BY <2>1, StreamResponse
<1>5. QED
  BY <1>2, <1>3, <1>4

\* A stream counts as completed only when the provider's last event was received
\* whole, [DONE] is written only then, and the metric agrees with how the request
\* ended (streamChatCompletions, Next of the adapters, TraceRequests).
THEOREM CompletionIsEarnedTheorem == Spec => []CompletionIsEarned
<1>1. IInv => CompletionIsEarned
  <2> SUFFICES ASSUME IInv PROVE CompletionIsEarned
    OBVIOUS
  <2>1. (streaming = TRUE \/ streaming = FALSE) /\ Resources /\ Responding
    BY DEF IInv, Types, TypeOK
  <2>2. Over /\ streaming /\ svc.err = "nil" => terminated
    BY <2>1 DEF Resources
  <2>3. HasDone(wire) => terminated /\ svc.err = "nil"
    BY <2>1, <2>2, ResponseSoFar DEF Responding, Outcome, Ended, Over
  <2>4. QED
    BY <2>1, <2>2, <2>3 DEF Responding, CompletionIsEarned
<1>2. QED
  BY <1>1, Invariance, PTL

\* The client reads one response: a document under its status, or frames that
\* nothing but [DONE] or a cut follows (writeJSON, emit and the end of
\* streamChatCompletions).
THEOREM OneResponseTheorem == Spec => []OneResponse
<1>1. IInv => OneResponse
  BY ResponseSoFar
<1>2. QED
  BY <1>1, Invariance, PTL

\* The usage accounted to the attempt is the one last reported, with the total
\* that goes with it (normalizeUsage and mergeUsage of the adapters, mergeUsage
\* of the gateway).
THEOREM UsageIsLatestTheorem == Spec => []UsageIsLatest
<1>1. IInv => UsageIsLatest
  <2> SUFFICES ASSUME IInv PROVE UsageIsLatest
    OBVIOUS
  <2>1. /\ Count(svc.usage, "input") = reported.input
        /\ Count(svc.usage, "output") = reported.output
        /\ Totalled(svc.usage)
    BY DEF IInv, Accounting
  <2>2. reported.input # Nil => svc.usage # NoUsage
    BY <2>1 DEF Count
  <2>3. svc.usage # NoUsage => Count(svc.usage, "total") = svc.usage.total
    BY DEF Count
  <2>4. QED
    BY <2>1, <2>2, <2>3 DEF UsageIsLatest, Totalled
<1>2. QED
  BY <1>1, Invariance, PTL

\* When the gateway has returned, the watchdog is stopped and the body closed, on
\* every path of Stream, Next and Close.
THEOREM NothingLeaksTheorem == Spec => []NothingLeaks
<1>1. IInv => NothingLeaks
  BY DEF IInv, Types, Resources, NothingLeaks
<1>2. QED
  BY <1>1, Invariance, PTL

-----------------------------------------------------------------------------
\* The watchdog beside the stream, which ChatStream knows by its state dog and
\* by idle, that it has cancelled the stream's context: in StreamIdle it is a
\* goroutine with a timer and a channel, and time passes.
CONSTANTS Timeout, MaxPending
VARIABLES upstream, pending, reader, activity, timer, fired, selecting, cancelled, parent,
          byTimer, sinceRead

Watchdog == INSTANCE StreamIdle WITH dog <- selecting

\* Unless there was a read that the watchdog has not heard of, the timer was last
\* started no earlier than the last read; a channel that holds a value belongs to
\* a timer that has run down.
TimerFollowsReads ==
  /\ Watchdog!TypeOK
  /\ ~activity /\ reader # "signalling" => sinceRead + timer >= Timeout
  /\ fired => timer = 0

\* The watchdog and its stream keep the timer behind the reads: each read
\* signals, a restart forgets an expiry, and the clock advances both counts.
LEMMA TimerFollowsReadsInductive ==
  ASSUME Timeout \in Nat \ {0}, MaxPending \in Nat \ {0}
  PROVE  /\ Watchdog!Init => TimerFollowsReads
         /\ TimerFollowsReads /\ [Watchdog!Next]_(Watchdog!vars) => TimerFollowsReads'
<1>1. ASSUME Watchdog!Init PROVE TimerFollowsReads
  <2>1. timer \in 0..Timeout /\ sinceRead \in 0..Timeout /\ pending \in 0..MaxPending
        /\ sinceRead + timer >= Timeout
    BY <1>1 DEF Watchdog!Init
  <2>2. ~fired /\ fired \in BOOLEAN /\ activity \in BOOLEAN /\ cancelled \in BOOLEAN
        /\ parent \in BOOLEAN /\ byTimer \in BOOLEAN
    BY <1>1, Zenon DEF Watchdog!Init
  <2>. QED
    BY <1>1, <2>1, <2>2 DEF Watchdog!Init, TimerFollowsReads, Watchdog!TypeOK
<1>. SUFFICES ASSUME TimerFollowsReads, [Watchdog!Next]_(Watchdog!vars)
              PROVE  TimerFollowsReads'
  BY <1>1
<1>. USE DEF TimerFollowsReads, Watchdog!TypeOK
<1>2. CASE UNCHANGED Watchdog!vars
  BY <1>2 DEF Watchdog!vars
<1>3. CASE Watchdog!Arrive
  BY <1>3 DEF Watchdog!Arrive
<1>4. CASE Watchdog!UpstreamEnds
  BY <1>4 DEF Watchdog!UpstreamEnds
<1>5. CASE Watchdog!ParentCancelled
  <2>1. parent' \in BOOLEAN /\ cancelled' \in BOOLEAN
    BY <1>5, Zenon DEF Watchdog!ParentCancelled
  <2>. QED
    BY <1>5, <2>1 DEF Watchdog!ParentCancelled
<1>6. CASE Watchdog!Tick
  BY <1>6 DEF Watchdog!Tick, Watchdog!Older
<1>7. ASSUME NEW chunk \in BOOLEAN, Watchdog!Signal(chunk)
      PROVE  TimerFollowsReads'
  <2>1. activity' /\ activity' \in BOOLEAN
    BY <1>7, Zenon DEF Watchdog!Signal
  <2>. QED
    BY <1>7, <2>1 DEF Watchdog!Signal
<1>8. ASSUME NEW ok \in BOOLEAN, Watchdog!EmitReturns(ok)
      PROVE  TimerFollowsReads'
  BY <1>8 DEF Watchdog!EmitReturns
<1>9. CASE Watchdog!Read \/ Watchdog!ReadFails
  BY <1>9 DEF Watchdog!Read, Watchdog!ReadFails
<1>10. CASE Watchdog!StopCancels
  <2>1. cancelled' \in BOOLEAN
    BY <1>10, Zenon DEF Watchdog!StopCancels
  <2>. QED
    BY <1>10, <2>1 DEF Watchdog!StopCancels
<1>11. CASE Watchdog!StopReturns
  BY <1>11 DEF Watchdog!StopReturns
<1>12. CASE Watchdog!DogStopped
  BY <1>12 DEF Watchdog!DogStopped
<1>13. CASE Watchdog!DogRestarts
  <2>1. ~fired' /\ fired' \in BOOLEAN /\ activity' \in BOOLEAN
    BY <1>13, Zenon DEF Watchdog!DogRestarts
  <2>. QED
    BY <1>13, <2>1 DEF Watchdog!DogRestarts
<1>14. CASE Watchdog!DogFires
  BY <1>14, Zenon DEF Watchdog!DogFires
<1>. QED
  BY <1>2, <1>3, <1>4, <1>5, <1>6, <1>7, <1>8, <1>9, <1>10, <1>11, <1>12, <1>13, <1>14,
     Zenon DEF Watchdog!Next, Watchdog!Dog

\* NeverFiresEarly, for every timeout: run gives up on a stream only when
\* nothing was read for all of it, or a read has not been noticed yet.
THEOREM NeverFiresEarlyTheorem ==
  ASSUME Timeout \in Nat \ {0}, MaxPending \in Nat \ {0}
  PROVE  Watchdog!Spec => Watchdog!NeverFiresEarly
<1>1. Watchdog!Spec => []TimerFollowsReads
  BY TimerFollowsReadsInductive, PTL DEF Watchdog!Spec
<1>2. TimerFollowsReads => Watchdog!TypeOK
  BY DEF TimerFollowsReads
<1>3. TimerFollowsReads /\ [Watchdog!Next]_(Watchdog!vars)
        => [byTimer' /\ ~byTimer =>
              sinceRead = Timeout \/ activity \/ reader = "signalling"]_(Watchdog!vars)
  <2>. SUFFICES ASSUME TimerFollowsReads, Watchdog!Next, byTimer' # byTimer
                PROVE  sinceRead = Timeout \/ activity \/ reader = "signalling"
    BY DEF Watchdog!vars
  <2>1. Watchdog!DogFires
    BY DEF Watchdog!Next, Watchdog!Arrive, Watchdog!UpstreamEnds, Watchdog!ParentCancelled,
           Watchdog!Tick, Watchdog!Read, Watchdog!Signal, Watchdog!ReadFails, Watchdog!EmitReturns,
           Watchdog!StopCancels, Watchdog!StopReturns, Watchdog!Dog, Watchdog!DogStopped,
           Watchdog!DogRestarts
  <2>2. fired
    BY <2>1 DEF Watchdog!DogFires
  <2>. QED
    BY <2>2 DEF TimerFollowsReads, Watchdog!TypeOK
<1>. QED
  BY <1>1, <1>2, <1>3, PTL DEF Watchdog!Spec, Watchdog!NeverFiresEarly
=============================================================================
