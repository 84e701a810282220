--------------------------- MODULE ProviderAdapters ---------------------------
(***************************************************************************)
(* What the provider adapters make of a request and of the upstream's      *)
(* reply, and what the services can answer with the result: providers/     *)
(* mock.py, ollama.py, openai_compatible.py and base.py, and the end of    *)
(* services/chat.py.  The adapters keep no state but an HTTP client: each  *)
(* is a function to a result, or to Raised.                                *)
(*                                                                         *)
(* Texts: a string, one too long for ChatMessage.content (100,000          *)
(* characters), something else than a string (null with a tool call), or   *)
(* absent.                                                                 *)
(***************************************************************************)

\* The registered adapters; the OpenAI-compatible one with its chat or its
\* responses API, and without an API key (the default setting).
Adapters == {"mock", "ollama", "openai", "openai_responses", "openai_no_key"}

\* The replies the adapters tell apart.  body: it is a 2xx and a JSON object,
\* and no HTTPError; choices: it has a choice with a message; counts: its token
\* counts can be read as integers; the items and the status are those of a
\* responses reply.
UpstreamReply ==
  [ body : BOOLEAN, choices : BOOLEAN, counts : BOOLEAN,
    text : {"string", "long", "other", "absent"},
    items : {"messages", "others"}, status : {"known", "unknown"} ]

Raised == [text |-> "raised", items |-> "none", status |-> "none"]

\* A result of a chat call, or of response_output_from_text.
FromText(text) == [text |-> text, items |-> "messages", status |-> "known"]

\* An absent content becomes an empty string; another one is passed on.
Content(reply) == IF reply.text = "absent" THEN "string" ELSE reply.text

\* It echoes the request; the echo may be too long.
MockChat(reply) == FromText(IF reply.text = "long" THEN "long" ELSE "string")

\* Also a reply without a message is an empty string.
OllamaChat(reply) ==
  IF reply.body /\ reply.counts THEN FromText(Content(reply)) ELSE Raised

OpenAIChat(reply) ==
  IF reply.body /\ reply.choices /\ reply.counts
    THEN FromText(Content(reply))
    ELSE Raised

\* The text is the reply's output_text, or what _extract_output_text collects.
OpenAIResponse(reply) ==
  IF reply.body /\ reply.counts
    THEN [text |-> "string", items |-> reply.items, status |-> reply.status]
    ELSE Raised

\* provider.chat: without an API key it raises before it calls anybody.
Chat(adapter, reply) ==
  CASE adapter = "mock"          -> MockChat(reply)
    [] adapter = "ollama"        -> OllamaChat(reply)
    [] adapter = "openai_no_key" -> Raised
    [] OTHER                     -> OpenAIChat(reply)

\* provider.respond: only the responses API takes the input as it is.  The
\* others make messages of it first, which raises when it does not fit into
\* messages (response_input_to_messages).
Respond(adapter, fits, reply) ==
  IF adapter = "openai_responses" THEN OpenAIResponse(reply)
  ELSE IF fits THEN Chat(adapter, reply)
  ELSE Raised

\* The answer that can be built from a result, once its success is recorded:
\* what the response schema does not admit is answered 500.
ChatAnswer(result) == IF result.text = "string" THEN 200 ELSE 500
ResponseAnswer(result) ==
  IF result.text \in {"string", "long"} /\ result.items = "messages"
                                        /\ result.status = "known"
    THEN 200
    ELSE 500
=============================================================================
