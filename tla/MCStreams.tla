------------------------------ MODULE MCStreams ------------------------------
(***************************************************************************)
(* Answers of each shape, from every provider to every client.             *)
(***************************************************************************)
EXTENDS Streams

Text(data) == [kind |-> "text", name |-> None, data |-> data, whole |-> FALSE]
Thought == [kind |-> "thought", name |-> None, data |-> <<"hm">>, whole |-> FALSE]
Call(name, data) == [kind |-> "call", name |-> name, data |-> data, whole |-> FALSE]
AtOnce(call) == [call EXCEPT !.whole = TRUE]

Said(items, stop) ==
  [items |-> items, stop |-> stop, usage |-> <<5, 7>>, refusal |-> None, emulated |-> FALSE]
Refused(items) == [Said(items, "end") EXCEPT !.refusal = "server_is_overloaded"]

Hello == Text(<<"a", "b">>)
Find == Call("find", <<"{", "}">>)
Look == Call("look", <<"{", "1", "}">>)
Bare == Call("bare", << >>)

Plain == {Said(<<Text(<<"a">>), Find, Look>>, "end"),
          Said(<<Find, Text(<<"z">>), Look>>, "end"), Said(<<Find, Bare>>, "end"),
          Said(<<Hello, Find>>, "length"), Said(<<Hello>>, "length"), Said(<< >>, "end")}
Answers ==
  [OpenAi |-> Plain \cup {Said(<<Hello, AtOnce(Find), Look>>, "end"), Said(<<Hello>>, "filter")},
   Anthropic |-> Plain \cup {Said(<<Thought, Hello, Find>>, "end"), Refused(<<Hello, Find>>),
                             [Said(<<Call(JsonSchemaTool, <<"{", "}">>)>>, "end")
                                EXCEPT !.emulated = TRUE]},
   Gemini |-> {Said(<<Text(<<"a">>), Text(<<"b">>), Find, Look>>, "end"),
               Said(<<Find, Text(<<"z">>), Bare>>, "end"), Said(<<Text(<<"a">>)>>, "length"),
               Said(<<Text(<<"a">>)>>, "filter"), Said(<< >>, "end")},
   Bedrock |-> Plain \cup {Said(<<Hello>>, "filter"), Said(<<Hello, Find>>, "filter"),
                           Refused(<<Hello, Find>>)},
   Codex |-> Plain \cup {Said(<<Thought, Text(<<"a">>), Find, AtOnce(Look)>>, "end"),
                         Said(<<AtOnce(Find), Text(<<"z">>), Look>>, "end"),
                         Refused(<< >>), Refused(<<Hello, Find>>)}]

Asked(d, answers, stream, fancy) ==
  [dialect : {d}, target : Targets, answer : answers, stream : {stream}, crlf : {fancy},
   comments : {fancy}]

MCExchanges ==
  UNION {Asked(d, Answers[d], TRUE, FALSE) : d \in Dialects}
    \cup UNION {Asked(d, Answers[d], TRUE, TRUE) : d \in {"Gemini", "Codex"}}
    \cup Asked("Codex", Answers["Codex"], FALSE, TRUE)
    \cup UNION {Asked(d, {a \in Answers[d] : a.refusal = None}, FALSE, FALSE) :
                 d \in Dialects \ {"Codex"}}
=============================================================================
