------------------------------- MODULE Outbound -------------------------------
(***************************************************************************)
(* The body of a provider, built from the chat model (build_outbound): the *)
(* build_request of anthropic.rs, gemini.rs and bedrock.rs, codex_request  *)
(* of subscription.rs, and the chat model itself for the providers that    *)
(* speak it.  What a provider has no place for is refused, left out and    *)
(* reported (dropped), or left out.                                        *)
(***************************************************************************)
EXTENDS Requests

\* A body.  turns: its messages, as roles and blocks; key: what the backend
\* caches prefixes under.
Body == [system |-> << >>, turns |-> << >>, tools |-> << >>, choice |-> None, format |-> None,
         params |-> {}, dropped |-> {}, key |-> << >>, refused |-> FALSE]

\* A block there is no way to build fails the request.
Unfit == [Item EXCEPT !.kind = "unfit"]
Fails(turns) == \E i \in DOMAIN turns : OfKind(turns[i].blocks, {"unfit"}) # << >>

ToolUse(call) == IF call.data = Torn THEN Unfit ELSE call
Answering(message) == [message.result EXCEPT !.kind = "result", !.parts = AsText(message.content)]

\* A turn of a body, if there is anything in it.
Turn(role, blocks) == IF blocks = << >> THEN << >> ELSE <<[role |-> role, blocks |-> blocks]>>
Filled(turns) == FlattenSeq(EachOf(LAMBDA turn : Turn(turn.role, turn.blocks), turns))
Blocks(turns) == FlattenSeq(EachOf(LAMBDA turn : turn.blocks, turns))

\* A turn joins the turn before it if that is of its role.
Pushed(out, turn) ==
  IF out # << >> /\ Last(out).role = turn.role
  THEN [out EXCEPT ![Len(out)].blocks = @ \o turn.blocks]
  ELSE Append(out, turn)

Merged(turns) ==
  LET out[i \in 0 .. Len(turns)] ==
        IF i = 0 THEN << >> ELSE Pushed(out[i - 1], turns[i])
  IN  out[Len(turns)]

-----------------------------------------------------------------------------
(* Anthropic. *)

AnthropicBlock(part) == IF part.kind = "audio" THEN Unfit ELSE Inline(part)

AnthropicSaid(m) ==
  CASE m.role \in System -> << >>
    [] m.role = "tool" -> <<[role |-> "user", blocks |-> <<Answering(m)>>]>>
    [] OTHER -> <<[role |-> m.role,
                   blocks |-> EachOf(AnthropicBlock, m.content) \o EachOf(ToolUse, m.calls)]>>

\* Turns that come to nothing are filtered at the end.
AnthropicMessages(messages) == Filled(Merged(FlattenSeq(EachOf(AnthropicSaid, messages))))

BuildAnthropic_Effortless(req, efforts) ==
  LET turns == AnthropicMessages(req.messages)
      emulated == req.format = "json_schema"
      tools == IF req.choice = "none" THEN << >> ELSE req.tools
      choice == IF req.choice = "none" THEN None ELSE req.choice
      effort == IF efforts THEN req.extra \cap {"reasoning_effort"} ELSE {}
      parallel == IF choice = None \/ emulated THEN {} ELSE {"parallel_tool_calls"}
  IN  [Body EXCEPT
         !.system = SystemTexts(req.messages), !.turns = turns,
         !.tools = IF emulated THEN Append(tools, JsonSchemaTool) ELSE tools,
         !.choice = IF emulated THEN JsonSchemaTool ELSE choice,
         !.params = (req.params \cap (Sampling \cup parallel))
                      \cup effort,
         !.dropped = (req.params \cap {"penalty", "seed", "stream_options"})
                       \cup (req.extra \ {"reasoning_effort"}),
         !.refused = req.params \cap {"n", "logprobs"} # {} \/ Fails(turns)]

\* efforts: whether the model takes a reasoning effort.
BuildAnthropic(req, efforts) ==
  LET turns == AnthropicMessages(req.messages)
      emulated == req.format = "json_schema"
      tools == IF req.choice = "none" THEN << >> ELSE req.tools
      choice == IF req.choice = "none" THEN None ELSE req.choice
      effort == IF efforts THEN req.extra \cap {"reasoning_effort"} ELSE {}
      parallel == IF choice = None \/ emulated THEN {} ELSE {"parallel_tool_calls"}
  IN  [Body EXCEPT
         !.system = SystemTexts(req.messages), !.turns = turns,
         !.tools = IF emulated THEN Append(tools, JsonSchemaTool) ELSE tools,
         !.choice = IF emulated THEN JsonSchemaTool ELSE choice,
         !.params = (req.params \cap (Sampling \cup parallel))
                      \cup effort,
         !.dropped = (req.params \cap {"penalty", "seed", "stream_options"})
                       \cup (req.extra \ effort),
         !.refused = req.params \cap {"n", "logprobs"} # {} \/ Fails(turns)]

\* A seat presents the identity of its own client before the caller's words.
PinClaudeIdentity(body) ==
  IF body.system # << >> /\ Head(body.system) = Text(Identity) THEN body
  ELSE [body EXCEPT !.system = <<Text(Identity)>> \o @]

-----------------------------------------------------------------------------
(* Gemini. *)

CallsMade(messages) == FlattenSeq(EachOf(LAMBDA m : m.calls, messages))

\* The name of the last call of an id, in the whole conversation.
CallName(calls, id) ==
  LET mine == {i \in DOMAIN calls : calls[i].id = id}
  IN  IF mine = {} THEN id[1] ELSE calls[Max(mine)].name

\* A result is told by the name of its call.
GeminiSaid(calls, m) ==
  CASE m.role \in System -> << >>
    [] m.role = "tool" ->
         Turn("user", <<[Answering(m) EXCEPT !.name = CallName(calls, m.result.id)]>>)
    [] OTHER -> Turn(m.role, EachOf(Inline, m.content) \o EachOf(ToolUse, m.calls))

GeminiMessages(messages) ==
  LET calls == CallsMade(messages)
  IN  Merged(FlattenSeq(EachOf(LAMBDA m : GeminiSaid(calls, m), messages)))

BuildGemini(req) ==
  LET turns == GeminiMessages(req.messages)
  IN  [Body EXCEPT
         !.system = SystemTexts(req.messages), !.turns = turns, !.tools = req.tools,
         !.choice = req.choice, !.format = IF req.format = "text" THEN None ELSE req.format,
         !.params = req.params \cap (Sampling \cup {"n"}),
         !.dropped = (req.params \cap {"penalty", "seed", "stream_options", "parallel_tool_calls"})
                       \cup req.extra,
         !.refused = "logprobs" \in req.params \/ Fails(turns)]

-----------------------------------------------------------------------------
(* Bedrock. *)

BedrockBlock(part) ==
  IF part.kind = "audio" \/ (part.kind = "image" /\ part.remote) THEN Unfit ELSE Inline(part)

BedrockSaid(m) ==
  CASE m.role \in System -> << >>
    [] m.role = "tool" -> Turn("user", <<Answering(m)>>)
    [] OTHER -> Turn(m.role, EachOf(BedrockBlock, m.content) \o EachOf(ToolUse, m.calls))

BedrockMessages(messages) == Merged(FlattenSeq(EachOf(BedrockSaid, messages)))

BuildBedrock(req) ==
  LET turns == BedrockMessages(req.messages)
      offers == req.choice # "none"
      format == IF req.format = None THEN {} ELSE {"response_format"}
  IN  [Body EXCEPT
         !.system = SystemTexts(req.messages), !.turns = turns,
         !.tools = IF offers THEN req.tools ELSE << >>,
         !.choice = IF offers THEN req.choice ELSE None,
         !.params = req.params \cap Sampling,
         !.dropped = (req.params \cap {"penalty", "seed", "stream_options", "parallel_tool_calls"})
                       \cup format \cup req.extra,
         !.refused = req.params \cap {"n", "logprobs"} # {} \/ Fails(turns)]

-----------------------------------------------------------------------------
(* Codex: system turns are instructions, calls and results lines of text. *)

\* What a part is in the words of the backend; audio is nothing.
CodexPart(part) ==
  CASE part.kind = "file" -> <<Unfit>>
    [] part.kind = "audio" -> << >>
    [] OTHER -> <<part>>

ImageParts(content) == OfKind(content, {"image"})

\* The images of a system turn, and of an assistant's, go to a user turn of
\* their own.
CodexSaid(m) ==
  LET said == FlattenSeq(EachOf(CodexPart, m.content))
  IN  CASE m.role \in System -> Turn("user", ImageParts(m.content))
        [] m.role = "tool" -> Turn("user", <<Answering(m)>> \o ImageParts(m.content))
        [] m.role = "assistant" ->
             Turn("user", ImageParts(m.content))
               \o Turn("assistant", OfKind(said, {"text", "unfit"}) \o m.calls)
        [] OTHER -> Turn("user", said)

SplitInput(messages) == FlattenSeq(EachOf(CodexSaid, messages))

Hint == Text("json hint")
MentionsJson(turn) ==
  \E j \in DOMAIN turn.blocks :
    \E words \in {turn.blocks[j]} \cup Range(turn.blocks[j].parts) :
      words.data \in {"json", Hint.data}

EnsureJsonMentioned_Anywhere(turns, system) ==
  IF (\E i \in DOMAIN turns : MentionsJson(turns[i])) \/ Text("json") \in Range(system) THEN turns
  ELSE Append(turns, [role |-> "user", blocks |-> <<Hint>>])

\* The word must be in the input; the instructions do not count.
EnsureJsonMentioned(turns, system) ==
  IF \E i \in DOMAIN turns : MentionsJson(turns[i]) THEN turns
  ELSE Append(turns, [role |-> "user", blocks |-> <<Hint>>])

CodexCacheKey_Turns(req, instructions, turns) ==
  IF "prompt_cache_key" \in req.extra THEN <<"supplied">> ELSE <<instructions, req.tools, turns>>

\* The key names the prefix that the turns of a conversation share.
CodexCacheKey(req, instructions, turns) ==
  IF "prompt_cache_key" \in req.extra THEN <<"supplied">> ELSE <<instructions, req.tools>>

CodexTextFormat(format) == IF format = "text" THEN None ELSE format
CodexToolChoice(req) == IF req.tools = << >> THEN None ELSE req.choice

CodexRequest(req) ==
  LET texts == SystemTexts(req.messages)
      instructions == IF texts = << >> THEN <<Text(CodexPrompt)>> ELSE texts
      input == SplitInput(req.messages)
      turns == IF req.format = "json_object" THEN EnsureJsonMentioned(input, texts) ELSE input
  IN  [Body EXCEPT
         !.system = instructions, !.turns = turns, !.tools = req.tools,
         !.choice = CodexToolChoice(req), !.format = CodexTextFormat(req.format),
         !.key = CodexCacheKey(req, instructions, turns),
         !.params = req.extra \cap {"reasoning_effort", "verbosity", "prompt_cache_key"},
         !.dropped = (req.params \cap Sampling)
                       \cup (req.extra \ {"reasoning_effort", "verbosity", "metadata",
                                          "prompt_cache_key"}),
         !.refused = Fails(turns)]

-----------------------------------------------------------------------------
\* A provider of the OpenAI dialect takes the chat model as it is.
ChatSaid(m) ==
  CASE m.role \in System -> << >>
    [] m.role = "tool" ->
         <<[role |-> m.role, blocks |-> <<[m.result EXCEPT !.parts = m.content]>>]>>
    [] OTHER -> <<[role |-> m.role, blocks |-> m.content \o m.calls]>>

ChatBody(req) ==
  [Body EXCEPT
     !.system = SystemTexts(req.messages), !.tools = req.tools,
     !.turns = FlattenSeq(EachOf(ChatSaid, req.messages)),
     !.choice = req.choice, !.format = req.format, !.params = req.params \cup req.extra]

\* target: the dialect of the provider, whether it is a Claude seat, and whether
\* its model takes a reasoning effort.
BuildOutbound(target, req) ==
  CASE target.dialect = "OpenAi" -> ChatBody(req)
    [] target.dialect = "Anthropic" ->
         LET built == BuildAnthropic(req, target.efforts)
         IN  IF target.seat THEN PinClaudeIdentity(built) ELSE built
    [] target.dialect = "Gemini" -> BuildGemini(req)
    [] target.dialect = "Bedrock" -> BuildBedrock(req)
    [] target.dialect = "Codex" -> CodexRequest(req)
=============================================================================
