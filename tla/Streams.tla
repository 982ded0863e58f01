------------------------------- MODULE Streams -------------------------------
(***************************************************************************)
(* An answer on its way through the gateway when the provider speaks       *)
(* another dialect than the client (translated_response and                *)
(* translated_stream_body in proxy.rs): the bytes of the provider, cut by  *)
(* the network anywhere, are parsed, translated and rendered as they come; *)
(* or they are collected, for a client that asked for a whole answer.  The *)
(* connection may fail, the backend may refuse inside its answer, and the  *)
(* client may hang up.                                                     *)
(*                                                                         *)
(* The provider and the client are outside the gateway.  What a provider   *)
(* says is written down once, as an answer, and sent in its own dialect;   *)
(* the client reads its frames the way the SDKs of its dialect do.         *)
(***************************************************************************)
EXTENDS Renderers

CONSTANTS
  Exchanges,  \* what may be asked of whom
  Bursts      \* how many bytes the network delivers at once, besides all there are

Dialects == {"OpenAi", "Anthropic", "Gemini", "Bedrock", "Codex"}
Targets == {"OpenAi", "Anthropic", "Gemini", "Responses"}

\* items: pieces of the answer in order, a text, a call, or a thought; whole: a
\* call that is not announced but comes at once; stop: "end", "length" or
\* "filter"; refusal: the code the backend refuses with after the items, if any.
Piece == [kind : {"text", "call", "thought"}, name : STRING, data : Seq(STRING), whole : BOOLEAN]
Answer == [items : Seq(Piece), stop : {"end", "length", "filter"}, usage : Nat \X Nat,
           refusal : STRING, emulated : BOOLEAN]

\* An exchange: the dialect of the provider and the surface of the client, the
\* answer, whether the client streams, and how the provider writes its lines.
Exchange == [dialect : Dialects, target : Targets, answer : Answer, stream : BOOLEAN,
             crlf : BOOLEAN, comments : BOOLEAN]

ASSUME StreamsAssumption == Exchanges \subseteq Exchange

VARIABLES
  exchange,  \* the exchange under way
  got,       \* bytes of the answer that have arrived
  wire,      \* bytes that have not
  buffer,    \* what the parser holds
  decoder,
  renderer,
  pc,        \* "open", "ended", "gone"
  cut,       \* whether the connection failed
  held,      \* how often the seat was held out for this answer
  client     \* what the client has read

vars == <<exchange, got, wire, buffer, decoder, renderer, pc, cut, held, client>>

-----------------------------------------------------------------------------
(* What the providers send. *)

HasCall(answer) == \E i \in 1 .. Len(answer.items) : answer.items[i].kind = "call"

V(kind) == [Value EXCEPT !.kind = kind]

Reason(dialect, answer) ==
  CASE dialect = "OpenAi" -> CASE answer.stop = "length" -> "length"
                               [] answer.stop = "filter" -> "content_filter"
                               [] OTHER -> IF HasCall(answer) THEN "tool_calls" ELSE "stop"
    [] dialect = "Gemini" -> CASE answer.stop = "length" -> "MAX_TOKENS"
                               [] answer.stop = "filter" -> "SAFETY"
                               [] OTHER -> "STOP"
    [] OTHER -> CASE answer.stop = "length" -> "max_tokens"
                  [] answer.stop = "filter" -> "content_filtered"
                  [] OTHER -> IF HasCall(answer) THEN "tool_use" ELSE "end_turn"

EachFragment(data, Value1(_)) == [j \in 1 .. Len(data) |-> Value1(<<data[j]>>)]

\* The call indices of OpenAI count the calls.
CallIndex(items, i) == Cardinality({j \in 1 .. i - 1 : items[j].kind = "call"})

OpenAiItem(items, i) ==
  LET item == items[i]
      Say(chunk) == [Value EXCEPT !.kind = "chunk", !.chunk = chunk]
      TextOf(data) == Say(TextChunk(data))
      ArgsOf(data) == Say(CallChunk(CallIndex(items, i), None, data))
  IN  IF item.kind = "text" THEN EachFragment(item.data, TextOf)
      ELSE <<Say(CallChunk(CallIndex(items, i), item.name, IF item.whole THEN item.data ELSE << >>))>>
             \o (IF item.whole THEN << >> ELSE EachFragment(item.data, ArgsOf))

AnthropicItem(items, i) ==
  LET item == items[i]
      at == [V("content_block_start") EXCEPT !.index = i - 1]
      D(type, data) == [at EXCEPT !.kind = "content_block_delta", !.block = type, !.data = data]
      TextOf(data) == D("text_delta", data)
      ArgsOf(data) == D("input_json_delta", data)
      ThoughtOf(data) == D("thinking_delta", data)
  IN  <<[at EXCEPT !.block = IF item.kind = "call" THEN "tool_use" ELSE item.kind, !.name = item.name]>>
        \o (CASE item.kind = "text" -> EachFragment(item.data, TextOf)
              [] item.kind = "call" -> EachFragment(item.data, ArgsOf)
              [] item.kind = "thought" -> EachFragment(item.data, ThoughtOf))
        \o <<[V("content_block_stop") EXCEPT !.index = i - 1]>>

BedrockItem(items, i) ==
  LET item == items[i]
      at == [V("contentBlockStart") EXCEPT !.index = i - 1]
      TextOf(data) == [at EXCEPT !.kind = "contentBlockDelta", !.block = "text", !.data = data]
      ArgsOf(data) == [at EXCEPT !.kind = "contentBlockDelta", !.block = "toolUse", !.data = data]
  IN  (IF item.kind = "text" THEN EachFragment(item.data, TextOf)
       ELSE <<[at EXCEPT !.block = "toolUse", !.name = item.name]>> \o EachFragment(item.data, ArgsOf))
        \o <<[V("contentBlockStop") EXCEPT !.index = i - 1]>>

\* Every item has its number in the output, thoughts and texts included.
CodexItem(items, i) ==
  LET item == items[i]
      at == [V("response.output_item.added") EXCEPT
               !.index = i - 1, !.name = item.name,
               !.block = IF item.kind = "call" THEN "function_call" ELSE item.kind]
      TextOf(data) == [V("response.output_text.delta") EXCEPT !.index = i - 1, !.data = data]
      ArgsOf(data) ==
        [V("response.function_call_arguments.delta") EXCEPT !.index = i - 1, !.data = data]
  IN  (IF item.whole THEN << >> ELSE <<at>>)
        \o (CASE item.kind = "text" -> EachFragment(item.data, TextOf)
              [] item.kind = "call" /\ ~item.whole -> EachFragment(item.data, ArgsOf)
              [] OTHER -> << >>)
        \o <<[at EXCEPT !.kind = "response.output_item.done", !.data = item.data]>>

All(items, Item(_, _)) == FlattenSeq([i \in 1 .. Len(items) |-> Item(items, i)])

\* The answer in the values of each dialect.  A refusal takes the place of the
\* end: Anthropic and Codex have an event for it, Bedrock an exception.
Values(dialect, answer) ==
  LET reason == Reason(dialect, answer)
      refused == answer.refusal # None
  IN  CASE dialect = "OpenAi" ->
             <<[V("chunk") EXCEPT !.chunk = RoleChunk]>> \o All(answer.items, OpenAiItem)
               \o <<[V("chunk") EXCEPT !.chunk = FinishChunk(reason, << >>)],
                    [V("chunk") EXCEPT !.chunk = [Chunk EXCEPT !.usage = answer.usage]],
                    V("[DONE]")>>
        [] dialect = "Anthropic" ->
             <<[V("message_start") EXCEPT !.usage = <<answer.usage[1]>>], V("ping")>>
               \o All(answer.items, AnthropicItem)
               \o (IF refused THEN <<[V("error") EXCEPT !.reason = answer.refusal]>>
                   ELSE <<[V("message_delta") EXCEPT !.reason = reason, !.usage = <<answer.usage[2]>>],
                          V("message_stop")>>)
        [] dialect = "Gemini" ->
             [i \in 1 .. Len(answer.items) |->
                [V("generate") EXCEPT !.parts = <<Part(answer.items[i].name, answer.items[i].data)>>]]
               \o <<[V("generate") EXCEPT !.reason = reason, !.usage = answer.usage]>>
        [] dialect = "Bedrock" ->
             <<V("messageStart")>> \o All(answer.items, BedrockItem)
               \o (IF refused THEN <<[V("exception") EXCEPT !.reason = answer.refusal]>>
                   ELSE <<[V("messageStop") EXCEPT !.reason = reason],
                          [V("metadata") EXCEPT !.usage = answer.usage]>>)
        [] dialect = "Codex" ->
             <<V("response.created")>> \o All(answer.items, CodexItem)
               \o (IF refused THEN <<[V("error") EXCEPT !.reason = answer.refusal],
                                     [V("response.failed") EXCEPT !.reason = answer.refusal]>>
                   ELSE <<[V(IF answer.stop = "length" THEN "response.incomplete"
                             ELSE "response.completed") EXCEPT !.usage = answer.usage]>>)

\* The bytes of a value: its lines with breaks of either kind, and a comment
\* after it where the provider keeps the connection alive with those.
Bytes(e, value) ==
  IF e.dialect = "Bedrock" THEN Frame(value, TRUE)
  ELSE LET break == IF e.crlf THEN <<CR, LF>> ELSE <<LF>>
       IN  (IF e.dialect \in {"Anthropic", "Codex"} THEN <<<<"event", value.kind>>>> \o break
            ELSE << >>)
             \o <<<<"data", value>>>> \o break \o break
             \o (IF e.comments THEN <<<<"comment">>>> \o break \o break ELSE << >>)

Spoken(e) ==
  LET values == Values(e.dialect, e.answer)
  IN  FlattenSeq([i \in 1 .. Len(values) |-> Bytes(e, values[i])])

\* The body of a whole answer.
Body(e) ==
  LET said == SelectSeq(e.answer.items, LAMBDA item : item.kind # "thought")
  IN  [blocks |-> [i \in 1 .. Len(said) |-> Part(said[i].name, said[i].data)],
       reason |-> Reason(e.dialect, e.answer), usage |-> e.answer.usage]

-----------------------------------------------------------------------------
(* What the client reads. *)

\* ok: whether every frame was one its dialect allows where it came; piece: what
\* the open block or item holds so far; items: those that are done.
Blank == [started |-> FALSE, open |-> NoBlock, count |-> 0, text |-> << >>, calls |-> << >>,
          finish |-> None, usage |-> << >>, error |-> None, ended |-> FALSE, ok |-> TRUE,
          number |-> 0, piece |-> Part(None, << >>), items |-> << >>]

Must(c, condition) == [c EXCEPT !.ok = @ /\ condition /\ ~c.ended]

\* The fragments of text and of the arguments of the last call.
Heard(c, name, data) ==
  IF name = None THEN [c EXCEPT !.text = @ \o data]
  ELSE [c EXCEPT !.calls[Len(c.calls)].data = @ \o data]

ReadCall(c, call) ==
  IF call.name # None
  THEN [Must(c, call.index = Len(c.calls)) EXCEPT !.calls = Append(@, Part(call.name, call.args))]
  ELSE IF call.index < Len(c.calls)
  THEN [c EXCEPT !.calls[call.index + 1].data = @ \o call.args]
  ELSE [c EXCEPT !.ok = FALSE]

ReadChunk(c, f) ==
  LET chunk == f.chunk
      begun == [c EXCEPT !.started = @ \/ chunk.role, !.text = @ \o chunk.text]
      read == FoldLeft(ReadCall, begun, chunk.calls)
      content == chunk.text # << >> \/ chunk.calls # << >>
  IN  [Must(read, /\ chunk.role => ~c.started
                  /\ content => begun.started /\ c.finish = None
                  /\ chunk.finish # None => c.finish = None
                  /\ chunk.error # None => c.error = None)
       EXCEPT !.finish = IF chunk.finish = None THEN @ ELSE chunk.finish,
              !.usage = IF chunk.usage = << >> THEN @ ELSE chunk.usage,
              !.error = IF chunk.error = None THEN @ ELSE chunk.error]

\* Where an item or a block begins, goes on and ends.
Begins(c, index, block, name) ==
  [Must(c, c.started /\ c.open = NoBlock /\ index = c.count /\ c.finish = None) EXCEPT
     !.open = [index |-> index, block |-> block], !.count = @ + 1,
     !.calls = IF name = None THEN @ ELSE Append(@, Part(name, << >>)),
     !.piece = Part(name, << >>)]

GoesOn(c, index, block, data) ==
  LET fits == c.open = [index |-> index, block |-> block]
  IN  IF ~fits THEN [c EXCEPT !.ok = FALSE]
      ELSE [Must(Heard(c, c.piece.name, data), TRUE) EXCEPT !.piece.data = @ \o data]

Ends(c, index) ==
  [Must(c, c.open # NoBlock /\ c.open.index = index) EXCEPT
     !.open = NoBlock, !.items = Append(@, c.piece)]

Stops(c, f) == [Must(c, c.open = NoBlock /\ c.finish = None) EXCEPT
                  !.finish = f.finish, !.usage = f.usage]

ReadAnthropic(c, f) ==
  CASE f.frame = "message_start" -> [Must(c, ~c.started) EXCEPT !.started = TRUE]
    [] f.frame = "content_block_start" -> Begins(c, f.index, f.block, f.name)
    [] f.frame = "content_block_delta" -> GoesOn(c, f.index, f.block, f.data)
    [] f.frame = "content_block_stop" -> Ends(c, f.index)
    [] f.frame = "message_delta" -> Stops(Must(c, c.started), f)
    [] f.frame = "message_stop" -> [Must(c, c.finish # None) EXCEPT !.ended = TRUE]

ReadPart(c, part) ==
  IF part.name = None THEN [c EXCEPT !.text = @ \o part.data]
  ELSE [c EXCEPT !.calls = Append(@, part)]

ReadGemini(c, f) ==
  [Must(FoldLeft(ReadPart, c, f.parts), c.finish = None) EXCEPT
     !.started = TRUE, !.finish = f.finish, !.usage = f.usage]

ReadResponses(c, f) ==
  LET next == [Must(c, f.number = c.number) EXCEPT !.number = @ + 1]
      Repeats(item) == c.open.index = f.index /\ item = Part(f.name, f.data)
  IN  CASE f.frame = "response.created" -> [Must(next, ~c.started) EXCEPT !.started = TRUE]
        [] f.frame = "response.output_item.added" -> Begins(next, f.index, f.block, f.name)
        [] f.frame = "response.content_part.added" ->
             Must(next, c.open = [index |-> f.index, block |-> "message"])
        [] f.frame = "delta" -> GoesOn(next, f.index, f.block, f.data)
        [] f.frame = "done" -> Must(next, Repeats(c.piece))
        [] f.frame = "response.output_item.done" -> Ends(Must(next, Repeats(c.piece)), f.index)
        [] f.frame = "response.completed" ->
             [Stops(Must(next, c.started /\ f.done = c.items), f) EXCEPT !.ended = TRUE]

Read(target, c, f) ==
  CASE f.frame = "error" -> [Must(c, c.error = None) EXCEPT !.error = f.name]
    [] f.frame = "[DONE]" -> [Must(c, TRUE) EXCEPT !.ended = TRUE]
    [] target = "OpenAi" /\ f.frame = "chunk" -> ReadChunk(c, f)
    [] target = "Anthropic" /\ f.frame # "error" -> ReadAnthropic(c, f)
    [] target = "Gemini" /\ f.frame # "error" -> ReadGemini(c, f)
    [] target = "Responses" /\ f.frame # "error" -> ReadResponses(c, f)

ReadAll(target, c, frames) ==
  LET at[i \in 0 .. Len(frames)] ==
        IF i = 0 THEN c ELSE Read(target, at[i - 1], frames[i])
  IN  at[Len(frames)]

-----------------------------------------------------------------------------
\* What is in the dialect of the client is passed through, and the Responses
\* surface is relayed to a provider of the OpenAI dialect.
Translated(dialect, target) ==
  dialect # target /\ ~(dialect = "OpenAi" /\ target = "Responses")

Init ==
  /\ exchange \in {e \in Exchanges : Translated(e.dialect, e.target)}
  /\ got = << >>
  /\ wire = Spoken(exchange)
  /\ buffer = << >>
  /\ decoder = Decoder(exchange.answer.emulated)
  /\ renderer = Renderer
  /\ pc = "open"
  /\ cut = FALSE
  /\ held = 0
  /\ client = Blank

\* StreamHold.settle, and what collecting does in its place: a seat whose
\* backend refused is held out.
Settled(failure) == held' = IF failure = None THEN held ELSE held + 1

\* A burst of bytes: every event it completes is translated and rendered before
\* anything else is read.
Arrive(n) ==
  LET pushed == Push(exchange.dialect, buffer, Upto(wire, n))
      decoded == OnEvents(exchange.dialect, decoder, pushed.events)
      out == OnChunks(exchange.target, renderer, decoded.chunks)
  IN  /\ pc = "open" /\ exchange.stream
      /\ n \in 1 .. Len(wire)
      /\ got' = got \o Upto(wire, n)
      /\ wire' = After(wire, n)
      /\ buffer' = pushed.rest
      /\ decoder' = decoded.d
      /\ renderer' = out.r
      /\ client' = ReadAll(exchange.target, client, out.frames)
      /\ UNCHANGED <<exchange, pc, cut, held>>

Close_Unsettled ==
  LET out == Finish(exchange.target, renderer)
  IN  /\ pc = "open" /\ exchange.stream
      /\ pc' = "ended"
      /\ renderer' = out.r
      /\ client' = ReadAll(exchange.target, client, out.frames)
      /\ held' = held
      /\ UNCHANGED <<exchange, got, wire, buffer, decoder>>

\* The upstream ends, or fails: the seat is settled and the stream finished.
Close ==
  LET out == Finish(exchange.target, renderer)
  IN  /\ pc = "open" /\ exchange.stream
      /\ pc' = "ended"
      /\ renderer' = out.r
      /\ client' = ReadAll(exchange.target, client, out.frames)
      /\ Settled(decoder.failure)
      /\ UNCHANGED <<exchange, got, wire, buffer, decoder>>

EndOfStream == wire = << >> /\ Close /\ UNCHANGED cut
BreakOff == wire # << >> /\ Close /\ cut' = TRUE

\* The client hangs up: the body is dropped, with what it would have settled.
HangUp ==
  /\ pc = "open"
  /\ pc' = "gone"
  /\ UNCHANGED <<exchange, got, wire, buffer, decoder, renderer, cut, held, client>>

\* The client asked for a whole answer: it is collected, a refusal in it counts
\* against the seat and is told (to the client, or to the next attempt), and an
\* answer is translated and rendered at once.
Answered(failure, message) ==
  /\ pc' = "ended"
  /\ wire' = << >>
  /\ Settled(failure)
  /\ client' = IF failure # None THEN [client EXCEPT !.error = failure]
               ELSE LET m == RenderFor(exchange.target, message)
                    IN  [client EXCEPT !.text = m.text, !.calls = m.calls, !.finish = m.finish,
                                       !.usage = m.usage]

Collect ==
  LET e == exchange
      read == ReadWhole(wire)
  IN  /\ pc = "open" /\ ~e.stream
      /\ got' = wire
      /\ \/ e.dialect = "Codex" /\ Answered(read.d.failure, Aggregate(read.chunks))
         \/ e.dialect # "Codex" /\ Answered(None, ToOpenAi(e.dialect, Body(e), e.answer.emulated))
      /\ UNCHANGED <<exchange, buffer, decoder, renderer, cut>>

\* A body that fails, or is larger than the cap, is an error of the provider.
CollectFails ==
  /\ pc = "open" /\ ~exchange.stream
  /\ pc' = "ended"
  /\ cut' = TRUE
  /\ client' = [client EXCEPT !.error = "upstream_error"]
  /\ UNCHANGED <<exchange, got, wire, buffer, decoder, renderer, held>>

Next ==
  \/ \E n \in Bursts \cup {Len(wire)} : Arrive(n)
  \/ EndOfStream \/ BreakOff \/ HangUp \/ Collect \/ CollectFails

Spec == Init /\ [][Next]_vars

-----------------------------------------------------------------------------
Refusal == exchange.answer.refusal
Regular == pc = "ended" /\ ~cut /\ Refusal = None

\* The state stays in its types, and the parser never holds back an event that
\* is complete: what it buffers is less than one.
TypeOK ==
  /\ exchange \in Exchanges
  /\ got \o wire = Spoken(exchange)
  /\ Push(exchange.dialect, buffer, << >>) = [events |-> << >>, rest |-> buffer]
  /\ decoder.next = Cardinality(DOMAIN decoder.tools)
  /\ renderer.started \in BOOLEAN /\ renderer.number \in Nat
  /\ pc \in {"open", "ended", "gone"}
  /\ cut \in BOOLEAN
  /\ held \in 0 .. 1

\* SseParser.push, EventStreamParser.push and the translators: where the network
\* cuts the bytes cannot be seen.  Whatever the bursts were, the parser, the
\* translator, the renderer and the client are where the bytes, arriving at once,
\* would have put them.
SplitsUnseen ==
  pc = "open" =>
    LET pushed == Push(exchange.dialect, << >>, got)
        decoded == OnEvents(exchange.dialect, Decoder(exchange.answer.emulated), pushed.events)
        out == OnChunks(exchange.target, Renderer, decoded.chunks)
    IN  /\ buffer = pushed.rest
        /\ decoder = decoded.d
        /\ renderer = out.r
        /\ client = ReadAll(exchange.target, Blank, out.frames)

\* OpenAiToAnthropicStream, ChunksToResponses and the OpenAI chunks: every frame
\* is one the client's dialect allows where it comes.  A role precedes content,
\* one block is open at a time, a delta belongs to the open block, what is done
\* repeats what was streamed, the events are numbered without a gap, the end comes
\* once and nothing after it.  Only a stream that fails before its first event is
\* ended without having been started.
FramesOrdered == client.ok \/ (cut /\ ~renderer.started)

\* What the answer says: its text, and its calls with their arguments; the tool
\* that stands for a response format speaks as text.
Saying(item) ==
  item.kind = "text" \/ (exchange.answer.emulated /\ item.name = JsonSchemaTool)
SaidText == Texts(SelectSeq(exchange.answer.items, Saying))
SaidCalls ==
  SelectSeq(exchange.answer.items, LAMBDA item : item.kind = "call" /\ ~Saying(item))

\* Calls without arguments are told to a Gemini client only where the provider
\* spells them as a value.
Untold(item) ==
  exchange.target = "Gemini" /\ exchange.stream /\ item.data = << >> /\ exchange.dialect # "Gemini"

\* StreamToOpenAi, aggregate_chunks, response_to_openai and the renderers: what a
\* client that stays to the end has read is what the provider said, each fragment
\* once and in its place, and until then it is a beginning of that.
SaidIsHeard ==
  LET told == SelectSeq(SaidCalls, LAMBDA item : ~Untold(item))
      Meant(data) == IF data = << >> /\ exchange.dialect = "Gemini" THEN Printed(data) ELSE Argument(data)
      Same(heard, said) == heard.name = said.name /\ Argument(heard.data) = Meant(said.data)
  IN  /\ IsPrefix(client.text, SaidText)
      /\ Len(client.calls) <= Len(told)
      /\ \A i \in 1 .. Len(client.calls) : client.calls[i].name = told[i].name
      /\ Regular =>
           /\ client.error = None
           /\ client.text = SaidText
           /\ Len(client.calls) = Len(told)
           /\ \A i \in 1 .. Len(told) : Same(client.calls[i], told[i])

\* A stream of Bedrock ends an answer that was filtered like one that was not.
Filtered == exchange.dialect = "Bedrock" /\ exchange.stream /\ exchange.answer.stop = "filter"

\* Two roads lead from the answer of a provider to the finish and the usage: by
\* the chunks of its stream, and by its whole body.  They end in the same place,
\* but for what streams leave out: to an Anthropic client the tokens of the prompt,
\* to a Gemini client a usage that does not come with the finish, and from Bedrock
\* that the answer was filtered (bedrock.rs:375 and 278).
RoadsMeet ==
  LET told == IF Filtered THEN [exchange EXCEPT !.answer.stop = "end"] ELSE exchange
      whole == RenderFor(exchange.target,
                         IF exchange.dialect = "Codex" THEN Aggregate(ReadWhole(got).chunks)
                         ELSE ToOpenAi(exchange.dialect, Body(told), exchange.answer.emulated))
  IN  Regular =>
        /\ client.finish = whole.finish
        /\ \/ client.usage = (IF exchange.target = "Anthropic" /\ exchange.stream
                              THEN <<whole.usage[2]>> ELSE whole.usage)
           \/ exchange.target = "Gemini" /\ exchange.dialect = "OpenAi" /\ client.usage = << >>

\* StreamHold.settle, hold_out_refused_seat: a seat whose backend refused inside
\* its 200 has been held out when the answer is over, once, and no other has; the
\* client that hangs up first forgoes it.
HeldOut ==
  pc = "ended" /\ ~cut => held = IF exchange.dialect = "Codex" /\ Refusal # None THEN 1 ELSE 0

\* The promise of docs/api/03-streaming.md for what goes wrong after the first
\* byte: the client that has read some of the answer is told, by the terminal
\* error of its dialect.
FailureTold ==
  pc = "ended" /\ client.text # << >> /\ (cut \/ Refusal # None) => client.error # None
=============================================================================
