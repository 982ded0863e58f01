------------------------------- MODULE Decoders -------------------------------
(***************************************************************************)
(* The stream translators of the providers: from the events of a provider  *)
(* to OpenAI chunks, the shape the gateway works in.  Each keeps what the  *)
(* single events leave out: which tool call a block is, what the finish    *)
(* was, whether the role has been announced, why the backend refused.      *)
(*                                                                         *)
(* Text and arguments are sequences of fragments.  The value of an event   *)
(* is a record with all fields there are; the ones it has no use for are   *)
(* empty.  Ids and the names of models are left out.                       *)
(***************************************************************************)
EXTENDS Framing

None == ""
JsonSchemaTool == "json_schema"   \* the tool that stands for a response format

\* An OpenAI chunk, with the pieces of tool calls it carries: their index,
\* their name where they begin, and a fragment of their arguments.
Chunk == [role |-> FALSE, text |-> << >>, calls |-> << >>, finish |-> None, usage |-> << >>,
          error |-> None]

\* A value of the wire of any provider.  block: the type of a block, item or
\* delta; usage: prompt and completion tokens, or the one of them it tells.
Value == [kind |-> None, index |-> 0, block |-> None, name |-> None, data |-> << >>,
          reason |-> None, usage |-> << >>, parts |-> << >>, chunk |-> Chunk]

RoleChunk == [Chunk EXCEPT !.role = TRUE]
TextChunk(text) == [Chunk EXCEPT !.text = text]
CallChunk(index, name, args) ==
  [Chunk EXCEPT !.calls = <<[index |-> index, name |-> name, args |-> args]>>]
FinishChunk(finish, usage) == [Chunk EXCEPT !.finish = finish, !.usage = usage]
ErrorChunk(code) == [Chunk EXCEPT !.error = code]

\* What a translator remembers, of any provider.
Decoder(emulated) ==
  [tools |-> << >>, next |-> 0, role |-> FALSE, input |-> 0, finish |-> None,
   emulated |-> emulated, failure |-> None]

Yield(d, chunks) == [d |-> d, chunks |-> chunks]

\* A block that begins a tool call takes the next of the call indices.
Numbered(d, block) == [d EXCEPT !.tools = (block :> d.next) @@ @, !.next = @ + 1]

SawCall(d) == d.next > 0

-----------------------------------------------------------------------------
(* Anthropic. *)

AnthropicFinish(d, reason) ==
  CASE d.emulated -> "stop"
    [] ~d.emulated /\ reason = "tool_use" -> "tool_calls"
    [] ~d.emulated /\ reason = "max_tokens" -> "length"
    [] OTHER -> "stop"

OpensCall(d, v) == v.block = "tool_use" /\ ~(d.emulated /\ v.name = JsonSchemaTool)

AnthropicDelta(d, v) ==
  CASE v.block = "text_delta" -> <<TextChunk(v.data)>>
    [] v.block = "input_json_delta" /\ v.index \in DOMAIN d.tools ->
         <<CallChunk(d.tools[v.index], None, v.data)>>
    [] v.block = "input_json_delta" /\ v.index \notin DOMAIN d.tools /\ d.emulated ->
         <<TextChunk(v.data)>>
    [] OTHER -> << >>

Anthropic(d, v) ==
  CASE v.kind = "message_start" ->
         Yield([d EXCEPT !.role = TRUE, !.input = v.usage[1]], <<RoleChunk>>)
    [] v.kind = "content_block_start" /\ OpensCall(d, v) ->
         Yield(Numbered(d, v.index), <<CallChunk(d.next, v.name, << >>)>>)
    [] v.kind = "content_block_delta" -> Yield(d, AnthropicDelta(d, v))
    [] v.kind = "message_delta" ->
         LET finish == AnthropicFinish(d, v.reason)
         IN  Yield([d EXCEPT !.finish = finish],
                   <<FinishChunk(finish, <<d.input, v.usage[1]>>)>>)
    [] OTHER -> Yield(d, << >>)

-----------------------------------------------------------------------------
(* Gemini: whole responses, with whole calls. *)

GeminiFinish(d, reason) ==
  CASE SawCall(d) -> "tool_calls"
    [] ~SawCall(d) /\ reason = "MAX_TOKENS" -> "length"
    [] ~SawCall(d) /\ reason = "SAFETY" -> "content_filter"
    [] OTHER -> "stop"

\* Arguments that are absent print as null.
Printed(args) == IF args = << >> THEN <<"null">> ELSE args

GeminiPart(at, part) ==
  IF part.name # None
  THEN Yield(Numbered(at.d, at.d.next),
             Append(at.chunks, CallChunk(at.d.next, part.name, Printed(part.data))))
  ELSE Yield(at.d, IF part.data = << >> THEN at.chunks ELSE Append(at.chunks, TextChunk(part.data)))

Gemini(d, v) ==
  LET begun == Yield([d EXCEPT !.role = TRUE], IF d.role THEN << >> ELSE <<RoleChunk>>)
      at[i \in 0 .. Len(v.parts)] ==
        IF i = 0 THEN begun ELSE GeminiPart(at[i - 1], v.parts[i])
      said == at[Len(v.parts)]
  IN  IF v.reason = None THEN said
      ELSE Yield(said.d, Append(said.chunks, FinishChunk(GeminiFinish(said.d, v.reason), v.usage)))

-----------------------------------------------------------------------------
(* Bedrock: the usage, and with it the finish, comes in a frame of its own. *)

BedrockFinish(d, reason) ==
  CASE reason = "tool_use" -> "tool_calls"
    [] reason = "max_tokens" -> "length"
    [] OTHER -> IF SawCall(d) THEN "tool_calls" ELSE "stop"

Bedrock(d, v) ==
  CASE v.kind = "messageStart" -> Yield([d EXCEPT !.role = TRUE], <<RoleChunk>>)
    [] v.kind = "contentBlockStart" /\ v.block = "toolUse" ->
         Yield(Numbered(d, v.index), <<CallChunk(d.next, v.name, << >>)>>)
    [] v.kind = "contentBlockDelta" /\ v.block = "text" -> Yield(d, <<TextChunk(v.data)>>)
    [] v.kind = "contentBlockDelta" /\ v.block = "toolUse" /\ v.index \in DOMAIN d.tools ->
         Yield(d, <<CallChunk(d.tools[v.index], None, v.data)>>)
    [] v.kind = "messageStop" -> Yield([d EXCEPT !.finish = BedrockFinish(d, v.reason)], << >>)
    [] v.kind = "metadata" ->
         Yield(d, <<FinishChunk(IF d.finish = None THEN "stop" ELSE d.finish, v.usage)>>)
    [] OTHER -> Yield(d, << >>)

-----------------------------------------------------------------------------
(* Codex: the Responses events of a seat, which may refuse within a 200. *)

\* The role is announced with the first content.
Opened(d) == [d EXCEPT !.role = TRUE]
OpenRole(d, chunk) == IF d.role THEN <<chunk>> ELSE <<RoleChunk, chunk>>

\* The first failure is kept, and told to the caller once.
NoteFailure(d, code) ==
  IF d.failure # None THEN Yield(d, << >>)
  ELSE Yield([d EXCEPT !.failure = code], <<ErrorChunk(code)>>)

CodexFinish(d, kind) ==
  CASE SawCall(d) -> "tool_calls"
    [] ~SawCall(d) /\ kind = "response.incomplete" -> "length"
    [] OTHER -> "stop"

\* A call is announced with its item, and its arguments follow; one that was
\* not announced comes whole with the end of its item.
CodexCall(d, v) ==
  CASE v.kind = "response.output_item.added" ->
         LET numbered == IF v.index \in DOMAIN d.tools THEN d ELSE Numbered(d, v.index)
         IN  Yield(Opened(numbered),
                   OpenRole(d, CallChunk(numbered.tools[v.index], v.name, << >>)))
    [] v.kind = "response.output_item.done" /\ v.index \notin DOMAIN d.tools ->
         Yield(Opened(Numbered(d, v.index)), OpenRole(d, CallChunk(d.next, v.name, v.data)))
    [] OTHER -> Yield(d, << >>)

Codex(d, v) ==
  CASE v.block = "function_call" -> CodexCall(d, v)
    [] v.kind = "response.output_text.delta" ->
         Yield(Opened(d), OpenRole(d, TextChunk(v.data)))
    [] v.kind = "response.function_call_arguments.delta" /\ v.index \in DOMAIN d.tools ->
         Yield(d, <<CallChunk(d.tools[v.index], None, v.data)>>)
    [] v.kind \in {"error", "response.failed"} -> NoteFailure(d, v.reason)
    [] v.kind \in {"response.completed", "response.incomplete"} ->
         Yield(d, <<FinishChunk(CodexFinish(d, v.kind), v.usage)>>)
    [] OTHER -> Yield(d, << >>)

-----------------------------------------------------------------------------
\* UpstreamStream.on_event: an event whose data is no value says nothing; an
\* OpenAI answer is made of chunks already, and ends with a mark.
OnEvent(dialect, d, event) ==
  IF Len(event.data) # 1 THEN Yield(d, << >>)
  ELSE LET v == event.data[1]
       IN  CASE dialect = "OpenAi" -> Yield(d, IF v.kind = "[DONE]" THEN << >> ELSE <<v.chunk>>)
             [] dialect = "Anthropic" -> Anthropic(d, v)
             [] dialect = "Gemini" -> Gemini(d, v)
             [] dialect = "Bedrock" -> Bedrock(d, v)
             [] dialect = "Codex" -> Codex(d, v)

\* All events of one chunk of bytes, in order.
OnEvents(dialect, d, events) ==
  LET at[i \in 0 .. Len(events)] ==
        IF i = 0 THEN Yield(d, << >>)
        ELSE LET next == OnEvent(dialect, at[i - 1].d, events[i])
             IN  Yield(next.d, at[i - 1].chunks \o next.chunks)
  IN  at[Len(events)]
=============================================================================
