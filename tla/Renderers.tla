------------------------------ MODULE Renderers ------------------------------
(***************************************************************************)
(* From OpenAI chunks to the frames of the client's own dialect, chunk by  *)
(* chunk and at the end; and the other road, of an answer that is whole:   *)
(* the provider's body to an OpenAI message, the message to the body the   *)
(* client asked for.                                                       *)
(***************************************************************************)
EXTENDS Decoders

\* A frame to the client.  index, block: the block or item it is about; done:
\* the items that response.completed lists.
Wire == [frame |-> None, index |-> 0, block |-> None, name |-> None, data |-> << >>,
         finish |-> None, usage |-> << >>, number |-> 0, done |-> << >>, parts |-> << >>,
         chunk |-> Chunk]

\* What a renderer remembers, of any dialect.  open: the block or item that is
\* open, none if its kind is empty; blocks: the place of each call; calls, text:
\* what has accumulated; number: frames so far (of the Responses surface).
NoBlock == [index |-> 0, block |-> None]
Renderer == [started |-> FALSE, open |-> NoBlock, next |-> 0, blocks |-> << >>, text |-> << >>,
             calls |-> << >>, told |-> {}, finish |-> None, usage |-> << >>, number |-> 0,
             done |-> << >>]

\* A call, or a text where there is no name, with its data.
Part(name, data) == [name |-> name, data |-> data]

Out(r, frames) == [r |-> r, frames |-> frames]
Emit(at, frame) == Out(at.r, Append(at.frames, frame))

Noted_Last(at, chunk) == [at EXCEPT !.r.usage = chunk.usage, !.r.finish = chunk.finish]

\* The last usage and the last finish are kept for the end.
Noted(at, chunk) ==
  [at EXCEPT !.r.usage = IF chunk.usage = << >> THEN @ ELSE chunk.usage,
             !.r.finish = IF chunk.finish = None THEN @ ELSE chunk.finish]

-----------------------------------------------------------------------------
(* Anthropic: blocks, one open at a time. *)

AnthropicStop(finish) ==
  CASE finish = "tool_calls" -> "tool_use"
    [] finish = "length" -> "max_tokens"
    [] OTHER -> "end_turn"

AnthropicStarted(at) ==
  IF at.r.started THEN at
  ELSE Emit([at EXCEPT !.r.started = TRUE], [Wire EXCEPT !.frame = "message_start"])

CloseBlock(at) ==
  IF at.r.open = NoBlock THEN at
  ELSE Emit([at EXCEPT !.r.open = NoBlock],
            [Wire EXCEPT !.frame = "content_block_stop", !.index = at.r.open.index])

OpenBlock(at, block, name) ==
  LET index == at.r.next
  IN  Emit([at EXCEPT !.r.open = [index |-> index, block |-> block], !.r.next = index + 1],
           [Wire EXCEPT !.frame = "content_block_start", !.index = index, !.block = block,
                        !.name = name])

BlockDelta(at, index, block, data) ==
  Emit(at, [Wire EXCEPT !.frame = "content_block_delta", !.index = index, !.block = block,
                        !.data = data])

AnthropicText(at, text) ==
  IF text = << >> THEN at
  ELSE LET open == IF at.r.open.block = "text" THEN at ELSE OpenBlock(CloseBlock(at), "text", None)
       IN  BlockDelta(open, open.r.open.index, "text", text)

AnthropicCall_Unclosed(at, call) ==
  LET begun == IF call.name = None THEN at
               ELSE LET open == OpenBlock(at, "tool_use", call.name)
                    IN  [open EXCEPT !.r.blocks = (call.index :> open.r.open.index) @@ @]
  IN  IF call.args # << >> /\ call.index \in DOMAIN begun.r.blocks
      THEN BlockDelta(begun, begun.r.blocks[call.index], "tool_use", call.args)
      ELSE begun

\* A call that is named begins a block, even where one is open.
AnthropicCall(at, call) ==
  LET begun == IF call.name = None THEN at
               ELSE LET open == OpenBlock(CloseBlock(at), "tool_use", call.name)
                    IN  [open EXCEPT !.r.blocks = (call.index :> open.r.open.index) @@ @]
  IN  IF call.args # << >> /\ call.index \in DOMAIN begun.r.blocks
      THEN BlockDelta(begun, begun.r.blocks[call.index], "tool_use", call.args)
      ELSE begun

AnthropicChunk(r, chunk) ==
  LET said == AnthropicText(AnthropicStarted(Out(r, << >>)), chunk.text)
      at[i \in 0 .. Len(chunk.calls)] ==
        IF i = 0 THEN said ELSE AnthropicCall(at[i - 1], chunk.calls[i])
  IN  Noted(at[Len(chunk.calls)], chunk)

\* The start named no tokens of the prompt, and the end tells those of the
\* completion only.
AnthropicEnd(r) ==
  LET closed == CloseBlock(Out(r, << >>))
  IN  Emit(Emit(closed, [Wire EXCEPT !.frame = "message_delta", !.finish = AnthropicStop(r.finish),
                                     !.usage = IF r.usage = << >> THEN <<0>> ELSE <<r.usage[2]>>]),
           [Wire EXCEPT !.frame = "message_stop"])

-----------------------------------------------------------------------------
(* Gemini: calls wait until their arguments are complete. *)

GeminiStop(finish) ==
  CASE finish = "length" -> "MAX_TOKENS"
    [] finish = "content_filter" -> "SAFETY"
    [] OTHER -> "STOP"

\* Whether the fragments spell a value; no arguments spell none.
Parses(args) == args # << >> /\ Last(args) \in {"}", "null"}

\* The pieces of a call add up under its index.
Pieced(calls, call) ==
  LET held == IF call.index \in DOMAIN calls THEN calls[call.index]
              ELSE Part(None, << >>)
  IN  (call.index :> Part(IF call.name = None THEN held.name ELSE call.name,
                          held.data \o call.args)) @@ calls

Ready_Again(calls, told) ==
  SetToSortSeq({i \in DOMAIN calls : calls[i].name # None /\ Parses(calls[i].data)}, <)

\* The calls that can be told and have not been, in the order of their indices.
Ready(calls, told) ==
  SetToSortSeq({i \in DOMAIN calls \ told : calls[i].name # None /\ Parses(calls[i].data)}, <)

GeminiChunk(r, chunk) ==
  LET calls == FoldLeft(Pieced, r.calls, chunk.calls)
      ready == Ready(calls, r.told)
      parts == (IF chunk.text = << >> THEN << >> ELSE <<Part(None, chunk.text)>>)
                 \o [i \in 1 .. Len(ready) |-> calls[ready[i]]]
      next == [r EXCEPT !.calls = calls, !.told = @ \cup ToSet(ready)]
  IN  IF parts = << >> /\ chunk.finish = None THEN Out(next, << >>)
      ELSE Out(next, <<[Wire EXCEPT
             !.frame = "generate", !.parts = parts,
             !.finish = IF chunk.finish = None THEN None ELSE GeminiStop(chunk.finish),
             !.usage = IF chunk.finish = None THEN << >> ELSE chunk.usage]>>)

-----------------------------------------------------------------------------
(* Responses: items, with their contents repeated when they are done. *)

\* Every event is numbered.
Number(at, frame) ==
  Emit([at EXCEPT !.r.number = @ + 1], [frame EXCEPT !.number = at.r.number])

ResponsesStarted(at) ==
  IF at.r.started THEN at
  ELSE Number([at EXCEPT !.r.started = TRUE], [Wire EXCEPT !.frame = "response.created"])

\* What the open item holds: the text, or the call of its index.
Held(r) ==
  IF r.open.block = "message" THEN Part(None, r.text)
  ELSE r.calls[r.open.index]

CloseItem(at) ==
  IF at.r.open = NoBlock THEN at
  ELSE LET item == Held(at.r)
           done == [Wire EXCEPT !.index = at.r.next, !.block = at.r.open.block,
                                !.name = item.name, !.data = item.data]
           told == Number(Number(at, [done EXCEPT !.frame = "done"]),
                          [done EXCEPT !.frame = "response.output_item.done"])
       IN  [told EXCEPT !.r.open = NoBlock, !.r.next = @ + 1, !.r.text = << >>,
                        !.r.done = Append(@, item)]

Added(at, block, index, name) ==
  Number([at EXCEPT !.r.open = [index |-> index, block |-> block]],
         [Wire EXCEPT !.frame = "response.output_item.added", !.index = at.r.next,
                      !.block = block, !.name = name])

Delta(at, block, data) ==
  Number(at, [Wire EXCEPT !.frame = "delta", !.index = at.r.next, !.block = block, !.data = data])

ResponsesText(at, text) ==
  IF text = << >> THEN at
  ELSE LET open == IF at.r.open.block = "message" THEN at
                   ELSE LET added == Added(CloseItem(at), "message", 0, None)
                        IN  Number(added, [Wire EXCEPT !.frame = "response.content_part.added",
                                                       !.index = added.r.next])
       IN  Delta([open EXCEPT !.r.text = @ \o text], "message", text)

\* The deltas of a call are sent under the index of the output there is now.
ResponsesCall(at, call) ==
  LET begun == IF call.name = None THEN at
               ELSE LET added == Added(CloseItem(at), "function_call", call.index, call.name)
                    IN  [added EXCEPT !.r.calls = (call.index :> Part(call.name, << >>)) @@ @]
  IN  IF call.args # << >> /\ call.index \in DOMAIN begun.r.calls
      THEN Delta([begun EXCEPT !.r.calls[call.index].data = @ \o call.args],
                 "function_call", call.args)
      ELSE begun

ResponsesChunk(r, chunk) ==
  LET said == ResponsesText(ResponsesStarted(Out(r, << >>)), chunk.text)
      at[i \in 0 .. Len(chunk.calls)] ==
        IF i = 0 THEN said ELSE ResponsesCall(at[i - 1], chunk.calls[i])
  IN  Noted(at[Len(chunk.calls)], chunk)

ResponsesStatus(finish) == IF finish = "length" THEN "incomplete" ELSE "completed"

ResponsesEnd(r) ==
  LET closed == CloseItem(Out(r, << >>))
  IN  Number(closed, [Wire EXCEPT !.frame = "response.completed", !.done = closed.r.done,
                                  !.finish = ResponsesStatus(r.finish), !.usage = r.usage])

-----------------------------------------------------------------------------
\* InboundStream.on_chunk and finish: the frames of a chunk and of the end.
OnChunk(target, r, chunk) ==
  CASE target = "OpenAi" -> Out(r, <<[Wire EXCEPT !.frame = "chunk", !.chunk = chunk]>>)
    [] target = "Anthropic" -> AnthropicChunk(r, chunk)
    [] target = "Gemini" -> GeminiChunk(r, chunk)
    [] target = "Responses" -> ResponsesChunk(r, chunk)

OnChunks(target, r, chunks) ==
  LET at[i \in 0 .. Len(chunks)] ==
        IF i = 0 THEN Out(r, << >>)
        ELSE LET next == OnChunk(target, at[i - 1].r, chunks[i])
             IN  Out(next.r, at[i - 1].frames \o next.frames)
  IN  at[Len(chunks)]

Finish(target, r) ==
  CASE target = "OpenAi" -> Out(r, <<[Wire EXCEPT !.frame = "[DONE]"]>>)
    [] target = "Anthropic" -> AnthropicEnd(r)
    [] target = "Gemini" -> Out(r, << >>)
    [] target = "Responses" -> ResponsesEnd(r)

-----------------------------------------------------------------------------
(* Whole answers.  A provider's body is its blocks, why it stopped and its *)
(* usage.                                                                  *)

Message(text, calls, finish, usage) ==
  [text |-> text, calls |-> calls, finish |-> finish, usage |-> usage]

\* Arguments are printed from the value the body holds; no arguments are the
\* empty object, or, of Gemini, none.
Object == <<"{", "}">>
Input(data) == IF data = << >> THEN Object ELSE data

Texts(blocks) == FlattenSeq([i \in 1 .. Len(blocks) |-> blocks[i].data])
Named(blocks) == SelectSeq(blocks, LAMBDA block : block.name # None)
Unnamed(blocks) == SelectSeq(blocks, LAMBDA block : block.name = None)
Mapped(blocks, Args(_)) ==
  [i \in 1 .. Len(blocks) |-> Part(blocks[i].name, Args(blocks[i].data))]

AnthropicBody(body, emulated) ==
  LET folded == [i \in 1 .. Len(body.blocks) |->
                   IF emulated /\ body.blocks[i].name = JsonSchemaTool
                   THEN Part(None, Input(body.blocks[i].data)) ELSE body.blocks[i]]
  IN  Message(Texts(Unnamed(folded)), Mapped(Named(folded), Input),
              AnthropicFinish(Decoder(emulated), body.reason), body.usage)

GeminiBody(body) ==
  LET calls == Named(body.blocks)
      seen == [Decoder(FALSE) EXCEPT !.next = Len(calls)]
  IN  Message(Texts(Unnamed(body.blocks)), Mapped(calls, Printed),
              GeminiFinish(seen, body.reason), body.usage)

BedrockBody(body) ==
  Message(Texts(Unnamed(body.blocks)), Mapped(Named(body.blocks), Input),
          CASE body.reason = "tool_use" -> "tool_calls"
            [] body.reason = "max_tokens" -> "length"
            [] body.reason = "content_filtered" -> "content_filter"
            [] OTHER -> "stop", body.usage)

\* aggregate_chunks: the chunks of a stream folded back into a message; pieces
\* of a call are put together under its index, which may leave gaps before it.
Gathered(calls, call) ==
  LET padded == calls \o [i \in 1 .. (call.index + 1 - Len(calls)) |-> Part(None, << >>)]
  IN  [padded EXCEPT ![call.index + 1] =
         Part(IF call.name = None THEN @.name ELSE call.name, @.data \o call.args)]

Aggregate(chunks) ==
  FoldLeft(LAMBDA m, chunk :
             Message(m.text \o chunk.text, FoldLeft(Gathered, m.calls, chunk.calls),
                     IF chunk.finish = None THEN m.finish ELSE chunk.finish,
                     IF chunk.usage = << >> THEN m.usage ELSE chunk.usage),
           Message(<< >>, << >>, "stop", << >>), chunks)

\* response_to_openai: the body of each dialect, or the refusal in it.
ToOpenAi(dialect, body, emulated) ==
  CASE dialect = "OpenAi" -> Message(Texts(Unnamed(body.blocks)), Named(body.blocks),
                                     body.reason, body.usage)
    [] dialect = "Anthropic" -> AnthropicBody(body, emulated)
    [] dialect = "Gemini" -> GeminiBody(body)
    [] dialect = "Bedrock" -> BedrockBody(body)

\* Codex answers with a stream, which is read here at once.
ReadWhole(bytes) == OnEvents("Codex", Decoder(FALSE), Push("Codex", << >>, bytes).events)

\* render_for: calls are told before the text on the Responses surface, and
\* arguments that do not parse are the empty object where they are a value.
Argument(args) == IF Parses(args) THEN args ELSE Object

AnthropicWhole(m) == [m EXCEPT !.calls = Mapped(@, Argument), !.finish = AnthropicStop(@)]
GeminiWhole(m) == [m EXCEPT !.calls = Mapped(@, Argument), !.finish = GeminiStop(@)]
ResponsesWhole(m) == [m EXCEPT !.finish = ResponsesStatus(@)]

RenderFor(target, m) ==
  CASE target = "OpenAi" -> m
    [] target = "Anthropic" -> AnthropicWhole(m)
    [] target = "Gemini" -> GeminiWhole(m)
    [] target = "Responses" -> ResponsesWhole(m)
=============================================================================
