----------------------------- MODULE Conversation -----------------------------
(***************************************************************************)
(* A conversation of a client with models, through the gateway: each turn  *)
(* the client sends all that has been said, the gateway walks the plan of  *)
(* the model (run_chat and run_responses of proxy.rs), and for each target *)
(* relays the body or translates it; the answer becomes the next turn.     *)
(* What happens to an attempt is in Dispatch, what happens to an answer on *)
(* its way back in Streams: here an attempt fails or is answered.          *)
(***************************************************************************)
EXTENDS Outbound

CONSTANTS
  Asks,       \* requests: the dialect and the settings a client keeps to
  Plans,      \* sequences of targets
  Openings,   \* what a client has to say at first, by the dialect it speaks
  Replies,    \* what a model may answer
  FollowUps,  \* what a client adds
  MaxTurns    \* turns of a conversation

\* What a client may say of its own, a model answer, and a plan try.
Contents == [kind : {"text"} \cup Media, data : STRING, name : STRING, id : {<< >>},
             remote : BOOLEAN, parts : {<< >>}, of : {0}]
Outputs == [kind : {"text", "call"}, data : STRING, name : STRING, id : {<< >>},
            remote : BOOLEAN, parts : {<< >>}, of : {0}]
Turns == [role : {"user", "assistant"} \cup System, items : Seq(Contents)]
Providers == [dialect : Dialects, seat : BOOLEAN, efforts : BOOLEAN]

ASSUME ConversationAssumption ==
  /\ \A a \in Asks :
       a.client \in Surfaces /\ a.tools \in Seq(STRING) /\ a.params \subseteq Fields
  /\ Plans \subseteq Seq(Providers) \ {<< >>}
  /\ Openings \in [Surfaces -> SUBSET Seq(Turns)]
  /\ Replies \subseteq Seq(Outputs)
  /\ FollowUps \subseteq Seq(Contents)
  /\ MaxTurns \in Nat

VARIABLES
  ask,       \* the settings of the client
  plan,      \* the targets of its model
  said,      \* the conversation, as the client keeps it
  pc,        \* idle, routing, sent, refused, failed
  target,    \* the target that is tried
  internal,  \* the request parsed, once it has been
  rendered,  \* the same, its documents rendered
  sent       \* the body the target was sent

vars == <<ask, plan, said, pc, target, internal, rendered, sent>>

Target == plan[target]

\* Whether the body goes as it came: what is in the dialect of the target, and
\* Responses to a provider that speaks it.  Codex does if the client streams, keeps
\* nothing there, and has attached no document.
RelaysResponses(t) ==
  \/ t.dialect = "OpenAi"
  \/ /\ t.dialect = "Codex" /\ ask.stream /\ ~ask.stateful
     /\ OfKind(Items(said), {"file"}) = << >>
Relays(t) == IF ask.client = "Responses" THEN RelaysResponses(t) ELSE t.dialect = ask.client

Instructed == IF ask.system = None THEN << >> ELSE <<Text(ask.system)>>
PassthroughBody(turns) ==
  [Body EXCEPT !.system = Instructed, !.tools = ask.tools, !.choice = ask.choice,
               !.format = ask.format, !.params = ask.params \cup ask.extra,
               !.turns = EachOf(LAMBDA t : [role |-> t.role, blocks |-> t.items], turns)]

\* Codex demands instructions.
CodexRelayBody(turns) ==
  [PassthroughBody(turns) EXCEPT !.system = IF @ = << >> THEN <<Text(CodexPrompt)>> ELSE @]

NeedsImages(t, req) == t.dialect = "Codex" /\ HasDocuments(req)
BodyFor(t, turns) ==
  LET req == RequestToInternal(ask, turns)
  IN  BuildOutbound(t, IF NeedsImages(t, req) THEN RasterizeRequest(req) ELSE req)

\* What a target is sent, given the request and its rendering, if they are there.
Parsed(cached, turns) == IF cached = << >> THEN RequestToInternal(ask, turns) ELSE Head(cached)
Rendered(cached, req) == IF cached = << >> THEN RasterizeRequest(req) ELSE Head(cached)

\* Only a provider that keeps state can be asked to.
Stateless(t) == ~(ask.client = "Responses" /\ ask.stateful)

-----------------------------------------------------------------------------
Init ==
  /\ ask \in Asks
  /\ plan \in Plans
  /\ said \in Openings[ask.client]
  /\ pc = "routing"
  /\ target = 1
  /\ internal = << >>
  /\ rendered = << >>
  /\ sent = Body

Relay ==
  /\ pc = "routing" /\ Relays(Target)
  /\ pc' = "sent"
  /\ sent' = IF Target.dialect = "Codex" THEN CodexRelayBody(said) ELSE PassthroughBody(said)
  /\ UNCHANGED <<ask, plan, said, target, internal, rendered>>

Translate_InPlace ==
  LET req == Parsed(internal, said)
      fit == IF NeedsImages(Target, req) THEN Rendered(rendered, req) ELSE req
      body == BuildOutbound(Target, fit)
  IN  /\ pc = "routing" /\ ~Relays(Target)
      /\ Stateless(Target) /\ ~fit.refused /\ ~body.refused
      /\ pc' = "sent"
      /\ internal' = <<fit>>
      /\ rendered' = IF NeedsImages(Target, req) THEN <<fit>> ELSE rendered
      /\ sent' = body
      /\ UNCHANGED <<ask, plan, said, target>>

\* The request is parsed for the first target that is translated to, and its
\* documents rendered for the first that cannot carry one; both are kept.
Translate ==
  LET req == Parsed(internal, said)
      fit == IF NeedsImages(Target, req) THEN Rendered(rendered, req) ELSE req
      body == BuildOutbound(Target, fit)
  IN  /\ pc = "routing" /\ ~Relays(Target)
      /\ Stateless(Target) /\ ~fit.refused /\ ~body.refused
      /\ pc' = "sent"
      /\ internal' = <<req>>
      /\ rendered' = IF NeedsImages(Target, req) THEN <<fit>> ELSE rendered
      /\ sent' = body
      /\ UNCHANGED <<ask, plan, said, target>>

\* What the target cannot be asked is the client's to mend: no other is tried.  Nor
\* is one when a document cannot be rendered, for itself or for the renderer.
Refuse ==
  LET req == Parsed(internal, said)
      fit == IF NeedsImages(Target, req) THEN Rendered(rendered, req) ELSE req
  IN  /\ pc = "routing" /\ ~Relays(Target)
      /\ \/ ~Stateless(Target) \/ fit.refused \/ BuildOutbound(Target, fit).refused
         \/ NeedsImages(Target, req) /\ rendered = << >>
      /\ pc' = "refused"
      /\ UNCHANGED <<ask, plan, said, target, internal, rendered, sent>>

\* The attempts on a target have failed: the next is tried, if there is one.  A
\* client that sends the request again begins it anew.
Advance ==
  /\ pc = "sent"
  /\ IF target < Len(plan) THEN target' = target + 1 /\ pc' = "routing"
     ELSE target' = target /\ pc' = "failed"
  /\ UNCHANGED <<ask, plan, said, internal, rendered, sent>>

\* The ids of the calls in an answer: those of the provider, and where it has
\* none the place in the answer (among its calls, if it is streamed).
Identified(reply) ==
  LET before == Len(Calls(Items(said)))
      Nth(i) == Len(Calls(SubSeq(reply, 1, i)))
      Id(i) == IF Target.dialect = "Gemini"
               THEN <<"call", (IF ask.stream THEN Nth(i) ELSE i) - 1>>
               ELSE <<"id", before + Nth(i)>>
  IN  [i \in DOMAIN reply |->
         IF reply[i].kind # "call" THEN reply[i]
         ELSE [reply[i] EXCEPT !.id = Id(i), !.of = before + Nth(i)]]

\* The model answers, and the client keeps the answer.
Answer(reply) ==
  /\ pc = "sent" /\ Len(said) < MaxTurns
  /\ Calls(reply) = << >> \/ ask.tools # << >>
  /\ pc' = "idle"
  /\ said' = Append(said, [role |-> "assistant", items |-> Identified(reply)])
  /\ internal' = << >> /\ rendered' = << >> /\ sent' = Body /\ target' = 1
  /\ UNCHANGED <<ask, plan>>

\* The client gives the results of all calls, in order, and says more.
ResultOf(call) ==
  [call EXCEPT !.kind = "result", !.data = None,
               !.parts = <<Text("r")>> \o IF ask.client = "Anthropic"
                                          THEN <<[Item EXCEPT !.kind = "image", !.data = "shot"]>>
                                          ELSE << >>]
Say(more) ==
  LET results == EachOf(ResultOf, Calls(Last(said).items))
  IN  /\ pc = "idle" /\ results \o more # << >>
      /\ pc' = "routing"
      /\ said' = Append(said, [role |-> "user", items |-> results \o more])
      /\ UNCHANGED <<ask, plan, target, internal, rendered, sent>>

Next ==
  \/ Relay \/ Translate \/ Refuse \/ Advance
  \/ \E reply \in Replies : Answer(reply)
  \/ \E more \in FollowUps : Say(more)

Spec == Init /\ [][Next]_vars

-----------------------------------------------------------------------------
Translated == pc = "sent" /\ ~Relays(Target)

\* The state stays in its types, and what is cached for the targets of a request
\* is that request, whatever the targets before it needed done to it.
TypeOK ==
  /\ ask \in Asks /\ plan \in Plans
  /\ Len(said) \in 1 .. MaxTurns + 1
  /\ pc \in {"idle", "routing", "sent", "refused", "failed"}
  /\ target \in 1 .. Len(plan)
  /\ internal \in {<< >>, <<RequestToInternal(ask, said)>>}
  /\ rendered \in {<< >>, <<RasterizeRequest(RequestToInternal(ask, said))>>}

\* What of a turn reaches a target.  A document is one, but for Codex and the Gemini
\* surface, where it is an image.  What is lost of it is told here: media of a result
\* and of a system turn but for Codex; audio for Codex, and from the Responses surface,
\* which has none; and of what is there by reference all media of the Gemini surface,
\* and a document but for a provider that speaks the chat model.
Form(item) ==
  IF ask.client = "Gemini" \/ (Target.dialect = "Codex" /\ item.kind = "file") THEN "image"
  ELSE item.kind
Unread(item) ==
  item.remote /\ \/ ask.client = "Gemini"
                 \/ /\ item.kind = "file"
                    /\ ask.client = "Responses" \/ Target.dialect \in {"Anthropic", "Gemini", "Bedrock"}
Lost(item) ==
  \/ Form(item) = "audio" /\ (Target.dialect = "Codex" \/ ask.client = "Responses")
  \/ Unread(item)
Reach(item) ==
  CASE item.kind \in Media -> IF Lost(item) THEN << >> ELSE <<[item EXCEPT !.kind = Form(item)]>>
    [] item.kind = "result" /\ Target.dialect = "Codex" -> <<item>> \o OfKind(item.parts, {"image"})
    [] OTHER -> <<item>>
Due(turn) ==
  CASE turn.role \notin System -> turn.items
    [] turn.role \in System /\ Target.dialect = "Codex" -> OfKind(turn.items, Media)
    [] OTHER -> << >>
Reached == FlattenSeq(EachOf(LAMBDA turn : FlattenSeq(EachOf(Reach, Due(turn))), said))

\* What there is to an item of its kind: to a document that is empty nothing.  The
\* hint is the gateway's own.
Mark(item) ==
  CASE item.kind = "text" -> IF item.data \in {None, Hint.data} THEN << >> ELSE <<item.data>>
    [] item.kind \in Media -> IF item.data = None THEN << >> ELSE <<<<item.kind, item.data>>>>
    [] item.kind = "call" -> <<<<item.of, item.name, item.data>>>>
    [] item.kind = "result" -> <<<<item.of, AsText(item.parts)>>>>
Marks(items, kinds) ==
  FlattenSeq(EachOf(LAMBDA item : IF item.kind \in kinds THEN Mark(item) ELSE << >>, items))

\* translate_messages, split_system_and_input and request_to_internal: a target that
\* is sent the conversation is sent all of it but for what Reach names, in order, and
\* nothing twice: every text, every medium with what was inline of it, every call with
\* its arguments, every result with its words.
AllCarried ==
  Translated =>
    \A kinds \in {{"text"}, Media, {"call"}, {"result"}} :
      Marks(Blocks(sent.turns), kinds) = Marks(Reached, kinds)

\* docs/api/01-endpoints.md:42: a document is "translated where both dialects support
\* documents; precise `400` otherwise".  What a target is sent has every document.
DocumentsCarried ==
  Translated =>
    \A file \in Range(OfKind(Items(said), {"file"})) :
      \E block \in Range(Blocks(sent.turns)) :
        block.kind \in {"file", "image"} /\ block.data = file.data

\* request_to_internal of anthropic.rs keeps the images of a result, for without them a
\* model is handed "an empty result it could not act on": a target is sent them.
ResultImagesCarried ==
  Translated =>
    \A result \in Range(Results(Items(said))) :
      \A image \in Range(OfKind(result.parts, {"image"})) :
        \E block \in Range(Blocks(sent.turns)) : image \in {block} \cup Range(block.parts)

\* The call a provider takes the result at place p to answer: the last before it of
\* its id; for Gemini the one of its name that is next to be answered.
TakenFor(blocks, p) ==
  LET before == Calls(SubSeq(blocks, 1, p))
      id == blocks[p].id
      mine == SelectSeq(before, LAMBDA c : c.id = id)
      name == blocks[p].name
      named == SelectSeq(before, LAMBDA c : c.name = name)
      nth == Len(SelectSeq(Results(SubSeq(blocks, 1, p)), LAMBDA r : r.name = name))
  IN  CASE Target.dialect = "Gemini" /\ nth <= Len(named) -> named[nth].of
        [] Target.dialect # "Gemini" /\ mine # << >> -> Last(mine).of
        [] OTHER -> 0

ResultsFit ==
  LET blocks == Blocks(sent.turns)
  IN  \A p \in DOMAIN blocks : blocks[p].kind = "result" => TakenFor(blocks, p) = blocks[p].of

\* Two calls share an id and not a name; a Gemini client made two calls of one name
\* in one turn, which its dialect cannot tell apart.
Clash ==
  LET calls == Calls(Items(said))
  IN  \E i, j \in DOMAIN calls : calls[i].id = calls[j].id /\ calls[i].name # calls[j].name
Twins ==
  ask.client = "Gemini" /\
    \E i \in DOMAIN said :
      LET calls == Calls(said[i].items)
      IN  \E j, k \in DOMAIN calls : j # k /\ calls[j].name = calls[k].name

\* Ids on their way in and out: the target takes every result for the answer to the
\* call it answers, over all turns and whoever gave the calls their ids.
ResultsAnswered == Translated /\ ~Twins /\ ~(Target.dialect = "Gemini" /\ Clash) => ResultsFit

\* What the wires demand of a body, by the comments that state it: turns of one role
\* are merged and none is empty, the results of a turn's calls come in the very next
\* one, an assistant's turn has no image for Codex and its input mentions JSON where
\* JSON is asked for, a tool that is forced is one that is offered.  An answer that was
\* empty and comes back empty separates two user turns for Anthropic.
Mute == \E i \in DOMAIN said : said[i].role = "assistant" /\ said[i].items = << >>
BackendAccepts ==
  LET turns == sent.turns
      Ids(items) == {items[i].id : i \in DOMAIN items}
      Settled(i) == Ids(Calls(turns[i].blocks)) \subseteq Ids(Results(turns[i + 1].blocks))
  IN  Translated =>
        /\ \A i \in DOMAIN turns : turns[i].blocks # << >> \/ Target.dialect = "OpenAi"
        /\ Target.dialect \in {"Anthropic", "Gemini", "Bedrock"} =>
             \A i \in 1 .. Len(turns) - 1 :
               turns[i].role # turns[i + 1].role \/ (Target.dialect = "Anthropic" /\ Mute)
        /\ Target.dialect \in {"Anthropic", "Bedrock"} /\ ~Twins =>
             \A i \in 1 .. Len(turns) - 1 : Settled(i)
        /\ Target.dialect = "Codex" =>
             /\ sent.format = "json_object" => \E i \in DOMAIN turns : MentionsJson(turns[i])
             /\ \A i \in DOMAIN turns :
                  turns[i].role = "assistant" => OfKind(turns[i].blocks, {"image"}) = << >>
        /\ sent.choice \notin Keywords => sent.choice \in Range(sent.tools)

\* What a client is told was left out: to one of the Responses surface nothing that a
\* translator leaves out is (run_responses).
Reported == internal[1].dropped \cup IF ask.client = "Responses" THEN {} ELSE sent.dropped

\* What goes unreported: Unheard, of what a client set, what its surface does not read;
\* Uncounted, what a translator has no place for, and what run_responses is not told.
Unheard ==
  CASE ask.client = "OpenAi" -> {}
    [] ask.client = "Anthropic" -> (ask.params \ Sampling) \cup ask.extra
    [] ask.client = "Gemini" -> (ask.params \ (Sampling \cup {"n"})) \cup ask.extra
    [] ask.client = "Responses" ->
         (ask.params \ {"temperature", "top_p", "max_tokens", "parallel_tool_calls", "user"})
           \cup (ask.extra \ {"reasoning_effort", "include", "metadata", "truncation", "service_tier"})
Unreported ==
  [OpenAi |-> {}, Gemini |-> {"user"}, Bedrock |-> {"user"},
   Anthropic |-> {"user", "parallel_tool_calls"},
   Codex |-> {"user", "metadata", "n", "logprobs", "penalty", "seed", "stream_options",
              "parallel_tool_calls"}]
Uncounted ==
  Unreported[Target.dialect] \cup IF ask.client = "Responses" THEN sent.dropped ELSE {}

\* The translators keep the rule of docs/components/provider-adapters.md:57, "drop loudly
\* what doesn't fit", but for what is named above: all else a client set is carried,
\* refused or reported, and a schema its surface reads is asked for, emulated or reported.
Formatted ==
  \/ sent.format # None \/ JsonSchemaTool \in Range(sent.tools)
  \/ "response_format" \in Reported \cup Uncounted
Accounted ==
  Translated =>
    /\ ask.params \cup ask.extra \subseteq sent.params \cup Reported \cup Unheard \cup Uncounted
    /\ internal[1].format = "json_schema" => Formatted

\* The rule itself, docs/components/provider-adapters.md:57-59: "parameters the target
\* can't express are stripped with a `dropped_params` metric", never silently.
DroppedLoudly == Translated => ask.params \cup ask.extra \subseteq sent.params \cup Reported

\* codex_cache_key, and the prefix it stands for: what a target would have been sent
\* for an earlier state of the conversation begins what it is sent now, under the
\* same key.  Only the hint moves to the end.
Pieces(turns) ==
  FlattenSeq(EachOf(LAMBDA b : IF b.data = Hint.data THEN << >> ELSE <<b>>, Blocks(turns)))
PrefixKept ==
  LET Before(n) == BodyFor(Target, SubSeq(said, 1, n))
  IN  Translated /\ ~(Target.dialect = "Gemini" /\ Clash) =>
        \A n \in {i \in DOMAIN said : said[i].role = "user"} :
          /\ IsPrefix(Pieces(Before(n).turns), Pieces(sent.turns))
          /\ Before(n).key = sent.key /\ Before(n).system = sent.system
=============================================================================
