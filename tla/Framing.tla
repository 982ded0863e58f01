------------------------------- MODULE Framing -------------------------------
(***************************************************************************)
(* How the bytes of an answer become events, wherever the network cuts     *)
(* them: server-sent events (sse.rs) and the AWS event stream that Bedrock *)
(* speaks (eventstream.rs).  Both parsers keep what is not yet an event    *)
(* and give back what a chunk of bytes completes.                          *)
(*                                                                         *)
(* A byte is a tuple.  <<"cr">> and <<"lf">> are the two of a line break;  *)
(* the bytes of a line are one, <<"data", value>>, <<"event", name>> or    *)
(* <<"comment">>.  A frame of the event stream is its prelude, with the    *)
(* length it declares, its payload and its checksum.                       *)
(***************************************************************************)
EXTENDS Integers, Sequences, FiniteSets, SequencesExt

CR == <<"cr">>
LF == <<"lf">>

Upto(s, n) == SubSeq(s, 1, n)
After(s, n) == SubSeq(s, n + 1, Len(s))

\* An event of the wire: its name, if it has one, and its lines of data.
NoName == ""
Event(name, data) == [event |-> name, data |-> data]

-----------------------------------------------------------------------------
(* Server-sent events. *)

LineBreak_Hasty(buffer, i) ==
  IF i > Len(buffer) \/ buffer[i] \notin {CR, LF} THEN 0
  ELSE IF buffer[i] = CR /\ i < Len(buffer) /\ buffer[i + 1] = LF THEN 2 ELSE 1

\* Length of the line break at place i; none elsewhere.  A carriage return
\* that ends the buffer may be half of one: it is none yet.
LineBreak(buffer, i) ==
  IF i > Len(buffer) \/ buffer[i] \notin {CR, LF} \/ (buffer[i] = CR /\ i = Len(buffer)) THEN 0
  ELSE IF buffer[i] = CR /\ buffer[i + 1] = LF THEN 2 ELSE 1

\* Where a line break is followed by another.
Terminators(buffer) ==
  {i \in 1 .. Len(buffer) :
     LineBreak(buffer, i) > 0 /\ LineBreak(buffer, i + LineBreak(buffer, i)) > 0}

ReadLine(event, line) ==
  CASE line[1] = "event" -> [event EXCEPT !.event = line[2]]
    [] line[1] = "data" -> [event EXCEPT !.data = Append(@, line[2])]
    [] OTHER -> event

ReadLines(block) ==
  LET at[i \in 0 .. Len(block)] ==
        IF i = 0 THEN Event(NoName, << >>) ELSE ReadLine(at[i - 1], block[i])
  IN  at[Len(block)]

\* The event a block of lines spells; nothing if they are all comments.
Spelled(block) ==
  IF ReadLines(block) = Event(NoName, << >>) THEN << >> ELSE <<ReadLines(block)>>

\* What is taken off the head of the buffer: the event there, unless it is none,
\* and how many bytes; no bytes where nothing is whole yet.
Taken(events, bytes) == [events |-> events, bytes |-> bytes]

NextBlock(buffer) ==
  IF Terminators(buffer) = {} THEN Taken(<< >>, 0)
  ELSE LET i == Min(Terminators(buffer))
           end == i + LineBreak(buffer, i)
       IN  Taken(Spelled(Upto(buffer, i - 1)), end + LineBreak(buffer, end) - 1)

-----------------------------------------------------------------------------
(* The AWS event stream. *)

PreludeLen == 1
FrameLen == 3

Frame(payload, sound) == <<<<"prelude", FrameLen>>, <<"payload", payload>>, <<"sum", sound>>>>

\* Whether the bytes at the head of the buffer can be the prelude of a frame.
Framed(buffer) == buffer[1][1] = "prelude" /\ buffer[1][2] > PreludeLen

\* The payload of a frame whose checksum fits.
DecodeFrame(frame) ==
  IF Last(frame) = <<"sum", TRUE>>
  THEN <<Event(frame[2][2].kind, <<frame[2][2]>>)>>
  ELSE << >>

\* A frame that is spoiled is dropped, up to the boundary it declares; where
\* there can be no frame, all that is buffered is.
NextFrame(buffer) ==
  CASE Len(buffer) < PreludeLen -> Taken(<< >>, 0)
    [] Len(buffer) >= PreludeLen /\ ~Framed(buffer) -> Taken(<< >>, Len(buffer))
    [] OTHER -> IF Len(buffer) < buffer[1][2] THEN Taken(<< >>, 0)
                ELSE Taken(DecodeFrame(Upto(buffer, buffer[1][2])), buffer[1][2])

-----------------------------------------------------------------------------
NextOf(dialect, buffer) == IF dialect = "Bedrock" THEN NextFrame(buffer) ELSE NextBlock(buffer)

\* What a buffer comes to: the events it holds, and what is left.
Holds(events, rest) == [events |-> events, rest |-> rest]
Ahead(events, held) == Holds(events \o held.events, held.rest)

\* Every event that is whole is taken off the buffer.  last[n] is what its last n
\* bytes come to.
Parse(dialect, buffer) ==
  LET last[n \in 0 .. Len(buffer)] ==
        LET rest == After(buffer, Len(buffer) - n)
            next == NextOf(dialect, rest)
        IN  IF next.bytes = 0 THEN Holds(<< >>, rest)
            ELSE Ahead(next.events, last[n - next.bytes])
  IN  last[Len(buffer)]

Push(dialect, buffer, bytes) == Parse(dialect, buffer \o bytes)
=============================================================================
