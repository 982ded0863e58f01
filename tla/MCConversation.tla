---------------------------- MODULE MCConversation ----------------------------
(***************************************************************************)
(* Requests of each surface, with what each can ask, over plans that cross *)
(* dialects.                                                               *)
(***************************************************************************)
EXTENDS Conversation

To(dialect) == [dialect |-> dialect, seat |-> FALSE, efforts |-> FALSE]
Claude == [To("Anthropic") EXCEPT !.seat = TRUE]
Thinker == [To("Anthropic") EXCEPT !.efforts = TRUE]

MCPlans ==
  {<<To("Codex"), Thinker>>, <<To("Gemini"), To("Bedrock")>>, <<To("OpenAi"), To("Codex")>>,
   <<Claude, To("Gemini")>>, <<To("Codex"), To("OpenAi")>>}

Asking(client) ==
  [client |-> client, stream |-> TRUE, stateful |-> FALSE, system |-> None,
   tools |-> <<"find", "look">>, builtins |-> {}, choice |-> None, format |-> None,
   params |-> {}, extra |-> {}]
Toolless(client) == [Asking(client) EXCEPT !.tools = << >>, !.system = "json"]

MCAsks ==
  {Asking(c) : c \in {"OpenAi", "Anthropic", "Gemini", "Responses"}}
   \cup {[Asking(c) EXCEPT !.stream = FALSE, !.system = "brief", !.choice = "find",
                           !.params = {"temperature", "max_tokens", "stop"}] :
           c \in {"OpenAi", "Anthropic", "Gemini"}}
   \cup {[Asking("OpenAi") EXCEPT !.choice = "required", !.format = "json_schema",
                                  !.params = {"parallel_tool_calls", "seed", "stream_options"},
                                  !.extra = {"reasoning_effort", "prompt_cache_key"}],
         [Toolless("OpenAi") EXCEPT !.format = "json_object", !.params = {"penalty", "user"},
                                    !.extra = {"verbosity", "metadata"}],
         [Toolless("OpenAi") EXCEPT !.params = {"n"}],
         [Toolless("Gemini") EXCEPT !.params = {"n", "seed"}, !.format = "json_schema"],
         [Toolless("OpenAi") EXCEPT !.params = {"logprobs"}],
         [Asking("Anthropic") EXCEPT !.choice = "none", !.params = {"parallel_tool_calls"},
                                     !.extra = {"thinking"}],
         [Asking("OpenAi") EXCEPT !.choice = "none", !.format = "text"],
         [Toolless("Responses") EXCEPT !.builtins = {"web_search", "namespace"}, !.stream = FALSE,
                                       !.format = "json_object", !.params = {"max_tokens", "user"},
                                       !.extra = {"reasoning_effort", "metadata", "verbosity"}],
         [Toolless("Responses") EXCEPT !.builtins = {"code_interpreter"}],
         [Toolless("Responses") EXCEPT !.stateful = TRUE]}

Part(kind, data) == [Item EXCEPT !.kind = kind, !.data = data]
User(items) == [role |-> "user", items |-> items]
Hi == <<User(<<Text("hi")>>)>>
Scan == <<User(<<Text("see"), Part("file", "chart"), Text("below")>>)>>
Seen == <<User(<<Part("image", "cat"), Text("what")>>)>>
Remote(kind, data) == [Part(kind, data) EXCEPT !.remote = TRUE]
Far == <<User(<<Remote("image", "cat"), Text("what")>>)>>
Linked == <<User(<<Text("read"), Remote("file", "report")>>)>>
Sung == <<User(<<Part("audio", "song")>>)>>
Shown == <<[role |-> "system", items |-> <<Text("rules"), Part("image", "map")>>], User(<<Text("a")>>),
           [role |-> "assistant", items |-> <<Text("b"), Part("image", "plot")>>], User(<<Text("c")>>)>>

MCOpenings ==
  [OpenAi |-> {Hi, Scan, Sung, Shown, Linked}, Anthropic |-> {Hi, Scan, Far, Linked},
   Gemini |-> {Hi, Scan, Sung, Linked}, Responses |-> {Hi, Scan, Seen, Linked}]

Call(name, data) == [Item EXCEPT !.kind = "call", !.name = name, !.data = data]
Find == Call("find", "{}")
Look == Call("look", "{1}")
MCReplies ==
  {<<Text("ok")>>, << >>, <<Text("so"), Find>>, <<Look, Find>>, <<Look>>, <<Call("look", Torn)>>}
MCFollowUps == {<< >>, <<Text("more")>>}
=============================================================================
