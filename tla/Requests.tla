------------------------------- MODULE Requests -------------------------------
(***************************************************************************)
(* How a conversation crosses dialects: the request of a client into the   *)
(* chat model of the gateway (request_to_internal of anthropic.rs,         *)
(* gemini.rs, responses.rs; ChatRequest::parse), and the chat model into   *)
(* the body of a provider (build_outbound).                                *)
(*                                                                         *)
(* A conversation is a sequence of turns, a turn a role and its items.  An *)
(* item is a text, an image, an audio, a file, a call of a tool or the     *)
(* result of one.  The names of models, the schemas of the tools and the   *)
(* defaults a provider is configured with are left out; a parameter is     *)
(* there or it is not.                                                     *)
(***************************************************************************)
EXTENDS Integers, Sequences, FiniteSets, SequencesExt

\* What providers speak, and the surfaces clients are served on.
Dialects == {"OpenAi", "Anthropic", "Gemini", "Bedrock", "Codex"}
Surfaces == {"OpenAi", "Anthropic", "Gemini", "Responses"}

None == ""
JsonSchemaTool == "json_schema"   \* the tool that stands for a response format
Torn == "torn"                    \* arguments that are not JSON
Identity == "claude code"
CodexPrompt == "codex"

\* remote: a medium that is not in the request but named there, by a url or as a file
\* kept elsewhere.  of: which call of the conversation a call is, or a result is about;
\* it is for the properties, no translator reads it.
Item == [kind |-> None, data |-> None, name |-> None, id |-> << >>, remote |-> FALSE,
         parts |-> << >>, of |-> 0]
Text(data) == [Item EXCEPT !.kind = "text", !.data = data]

EachOf(Op(_), items) == [i \in DOMAIN items |-> Op(items[i])]
OfKind(items, kinds) ==
  FlattenSeq(EachOf(LAMBDA item : IF item.kind \in kinds THEN <<item>> ELSE << >>, items))
Media == {"image", "audio", "file"}

\* The builders read of a document what is inline of it: of one by reference, nothing.
Inline(part) == IF part.kind = "file" /\ part.remote THEN [part EXCEPT !.data = None] ELSE part

Calls(items) == OfKind(items, {"call"})
Results(items) == OfKind(items, {"result"})
Content(items) == OfKind(items, {"text"} \cup Media)
Items(turns) == FlattenSeq(EachOf(LAMBDA turn : turn.items, turns))

\* A message of the chat model, and the answer to a call.
Message(role, content, calls) ==
  [role |-> role, content |-> content, calls |-> calls, result |-> Item]
ToolMessage(result) == [Message("tool", result.parts, << >>) EXCEPT !.result = result]
System == {"system", "developer"}

\* Content.as_text: what is text of a content.
AsText(content) == OfKind(content, {"text"})
SystemTexts(messages) ==
  FlattenSeq(EachOf(LAMBDA m : IF m.role \in System THEN AsText(m.content) ELSE << >>, messages))

\* The chat model of a request.  choice: auto, none, required or a tool; params: the
\* fields it has for what else a caller sets; extra: what it has no field for.
Fields == {"temperature", "top_p", "max_tokens", "stop", "n", "logprobs", "penalty", "seed",
           "user", "stream_options", "parallel_tool_calls"}
ChatRequest(messages, ask) ==
  [messages |-> messages, tools |-> ask.tools, choice |-> ask.choice, format |-> ask.format,
   params |-> ask.params, extra |-> ask.extra, dropped |-> {}, refused |-> FALSE]
Keywords == {None, "auto", "none", "required"}
Sampling == {"temperature", "top_p", "max_tokens", "stop"}

-----------------------------------------------------------------------------
(* Inbound. *)

SystemMessage(ask) ==
  IF ask.system = None THEN << >> ELSE <<Message("system", <<Text(ask.system)>>, << >>)>>

\* The messages of a client that speaks the chat model: the results one by one,
\* then what is said.  An answer that was empty is sent back empty.
OpenAiTurn(turn) ==
  LET said == Message(turn.role, Content(turn.items), Calls(turn.items))
  IN  EachOf(ToolMessage, Results(turn.items))
        \o IF turn.role = "assistant" \/ said.content # << >> THEN <<said>> ELSE << >>

OpenAiRequest(ask, said) ==
  ChatRequest(SystemMessage(ask) \o FlattenSeq(EachOf(OpenAiTurn, said)), ask)

\* The blocks of an Anthropic tool_result that are kept.
ResultParts(parts) == OfKind(parts, {"text", "image"})

\* The results of a turn come before the rest of it; a turn of nothing is none.
AnthropicTurn(turn) ==
  LET rest == Message(turn.role, Content(turn.items), Calls(turn.items))
      Answered(result) == ToolMessage([result EXCEPT !.parts = ResultParts(@)])
  IN  EachOf(Answered, Results(turn.items))
        \o IF rest.content = << >> /\ rest.calls = << >> THEN << >> ELSE <<rest>>

\* A tool_choice of none is not read, nor is any setting but those of sampling.
AnthropicRequest(ask, said) ==
  [ChatRequest(SystemMessage(ask) \o FlattenSeq(EachOf(AnthropicTurn, said)), ask) EXCEPT
     !.choice = IF @ = "none" THEN None ELSE @,
     !.format = None, !.params = @ \cap Sampling, !.extra = {}]

\* Which of the calls so far a result of this name is taken to answer.
Answers_First(calls, name) == Min({i \in DOMAIN calls : calls[i].name = name})
Answers(calls, name) == Max({i \in DOMAIN calls : calls[i].name = name})

\* Calls have no ids: a call takes the next number, a result the id of the last
\* call of its name so far.  What is inline is taken for an image; what is there by
\* reference is of no kind that is read.
GeminiPart(before, part) ==
  LET calls == Calls(before)
  IN  CASE part.kind = "text" -> part
        [] part.kind = "call" -> [part EXCEPT !.id = <<"call", Len(calls)>>]
        [] part.kind = "result" ->
             [part EXCEPT !.id = IF \E i \in DOMAIN calls : calls[i].name = part.name
                                 THEN <<"call", Answers(calls, part.name) - 1>> ELSE <<part.name>>]
        [] OTHER -> [part EXCEPT !.kind = IF part.remote THEN None ELSE "image"]

\* The results of a turn come before the rest of it; a turn of nothing is none.
\* before: what was said before it.
GeminiTurn(before, turn) ==
  LET parts == [j \in DOMAIN turn.items |->
                  GeminiPart(before \o SubSeq(turn.items, 1, j - 1), turn.items[j])]
      rest == Message(turn.role, Content(parts), Calls(parts))
  IN  EachOf(ToolMessage, Results(parts))
        \o IF rest.content = << >> /\ rest.calls = << >> THEN << >> ELSE <<rest>>

\* A tool that is named is one that is required.  The response format is not read, nor
\* any setting but those of sampling and the number of answers.
GeminiRequest(ask, said) ==
  LET turns == [k \in DOMAIN said |-> GeminiTurn(Items(SubSeq(said, 1, k - 1)), said[k])]
  IN  [ChatRequest(SystemMessage(ask) \o FlattenSeq(turns), ask) EXCEPT
         !.choice = IF @ \in Keywords THEN @ ELSE "required",
         !.format = None, !.params = @ \cap (Sampling \cup {"n"}), !.extra = {}]

\* Responses: a message, and every call and result an item of its own.
InputPart(content) == OfKind(content, {"text", "image", "file"})
InputItems(turn) ==
  LET parts == EachOf(Inline, turn.items)
      content == Content(parts)
      Output(result) == ToolMessage([result EXCEPT !.parts = AsText(@)])
      Called(call) == Message("assistant", << >>, <<call>>)
  IN  EachOf(Output, Results(parts))
        \o (IF content = << >> THEN << >> ELSE <<Message(turn.role, InputPart(content), << >>)>>)
        \o EachOf(Called, Calls(parts))

\* Tools the gateway has no translation for are left out and counted, those a
\* provider would have to run are refused.  Some settings are left out and counted,
\* others are not read.
ResponsesRequest(ask, said) ==
  [ChatRequest(SystemMessage(ask) \o FlattenSeq(EachOf(InputItems, said)), ask) EXCEPT
     !.format = IF @ = "text" THEN None ELSE @,
     !.params = @ \cap {"temperature", "top_p", "max_tokens", "parallel_tool_calls", "user"},
     !.extra = @ \cap {"reasoning_effort"},
     !.dropped = ask.builtins \cup (ask.extra \cap {"include", "metadata", "truncation", "service_tier"}),
     !.refused = ~(ask.builtins \subseteq {"web_search", "namespace"})]

RequestToInternal(ask, said) ==
  CASE ask.client = "OpenAi" -> OpenAiRequest(ask, said)
    [] ask.client = "Anthropic" -> AnthropicRequest(ask, said)
    [] ask.client = "Gemini" -> GeminiRequest(ask, said)
    [] ask.client = "Responses" -> ResponsesRequest(ask, said)

-----------------------------------------------------------------------------
(* Documents as images, for a backend that has no part for a document. *)

HasDocuments(req) ==
  \E i \in DOMAIN req.messages : OfKind(req.messages[i].content, {"file"}) # << >>

\* There is nothing to render of a document by reference: the request is the
\* client's to mend.
Unreadable(req) ==
  \E i \in DOMAIN req.messages :
    \E part \in Range(OfKind(req.messages[i].content, {"file"})) : part.remote

\* An image stands for the pages of a document, up to the ceiling.
RasterizeRequest(req) ==
  LET Page(part) == IF part.kind = "file" THEN [part EXCEPT !.kind = "image"] ELSE part
  IN  [req EXCEPT !.messages = EachOf(LAMBDA m : [m EXCEPT !.content = EachOf(Page, @)], @),
                  !.refused = @ \/ Unreadable(req)]
=============================================================================
