---------------------------- MODULE MCChatStream ----------------------------
EXTENDS ChatStream

Tokens(i, o, t) == [input |-> i, output |-> o, total |-> t]

OpenAIDoc(choice, role, content, finish, usage) ==
  [kind |-> "json", choice |-> choice, role |-> role, content |-> content,
   finish |-> finish, usage |-> usage]

OpenAIDocs ==
  { OpenAIDoc(TRUE, TRUE, FALSE, FALSE, NoUsage),
    OpenAIDoc(TRUE, FALSE, TRUE, FALSE, Tokens(1, 1, 2)),
    OpenAIDoc(TRUE, FALSE, FALSE, TRUE, Tokens(Nil, Nil, Nil)),
    OpenAIDoc(TRUE, FALSE, FALSE, FALSE, NoUsage),
    OpenAIDoc(FALSE, FALSE, FALSE, FALSE, Tokens(1, 2, 3)),
    OpenAIDoc(FALSE, FALSE, FALSE, FALSE, Tokens(2, 2, 0)),
    OpenAIDoc(FALSE, FALSE, FALSE, FALSE, Tokens(1, Nil, 1)),
    OpenAIDoc(FALSE, FALSE, FALSE, FALSE, NoUsage) }

AnthropicDoc(type, text, stop, usage) ==
  [kind |-> "json", type |-> type, text |-> text, stop |-> stop, usage |-> usage]

InOut(i, o) == [input |-> i, output |-> o]

AnthropicDocs ==
  { AnthropicDoc("message_start", "unsupported", FALSE, InOut(2, Nil)),
    AnthropicDoc("message_start", "unsupported", FALSE, NoUsage),
    AnthropicDoc("content_block_start", "empty", FALSE, NoUsage),
    AnthropicDoc("content_block_start", "some", FALSE, NoUsage),
    AnthropicDoc("content_block_delta", "some", FALSE, NoUsage),
    AnthropicDoc("content_block_delta", "empty", FALSE, NoUsage),
    AnthropicDoc("content_block_delta", "unsupported", FALSE, NoUsage),
    AnthropicDoc("message_delta", "unsupported", FALSE, InOut(Nil, 1)),
    AnthropicDoc("message_delta", "unsupported", TRUE, InOut(1, 2)),
    AnthropicDoc("message_delta", "unsupported", FALSE, InOut(Nil, 3)),
    AnthropicDoc("message_delta", "unsupported", FALSE, NoUsage),
    AnthropicDoc("message_stop", "unsupported", FALSE, NoUsage),
    AnthropicDoc("error", "unsupported", FALSE, NoUsage) }

MCDocuments == [d \in Dialects |-> IF d = "openai" THEN OpenAIDocs ELSE AnthropicDocs]

MCEventTypes ==
  [d \in Dialects |-> IF d = "openai" THEN {"ping"}
                      ELSE {"ping", "message_delta", "message_stop"}]
=============================================================================
