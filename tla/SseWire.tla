------------------------------- MODULE SseWire -------------------------------
(***************************************************************************)
(* Server-sent events on the wire: what sendEvent writes                   *)
(* (src/src/server/transport/sse.ts) and what _readStream and parseSSE     *)
(* make of it (src/src/client/transport/sse.ts).  An event is its text and *)
(* two line feeds, and a chunk may end after any of the three.             *)
(***************************************************************************)
EXTENDS Naturals, Sequences, FiniteSets

CONSTANT NL  \* a line feed

Encode(f) == <<f, NL, NL>>

\* Where the events of a text end: no event has more line feeds than that.
Ends(text) == {i \in 2..Len(text) : text[i] = NL /\ text[i - 1] = NL}

\* The end of the last whole event, or 0.
LastEnd(text) ==
  IF Ends(text) = {} THEN 0
  ELSE CHOOSE i \in Ends(text) : \A j \in Ends(text) : j <= i

\* The data lines of a part, joined, are a frame or nothing that parses: what
\* stands at i is a frame if it is the only data of its part.
parseSSE(text, i) ==
  /\ text[i] # NL
  /\ \A j \in 1..LastEnd(text) :
       text[j] # NL /\ (\A e \in Ends(text) : e < i <=> e < j) => j = i

\* The element of S with k - 1 smaller ones.
Nth(S, k) == CHOOSE i \in S : Cardinality({j \in S : j < i}) = k - 1

\* The frames of the whole events, in order.
FramesOf(text) ==
  LET data == {i \in 1..LastEnd(text) : parseSSE(text, i)} IN
  [k \in 1..Cardinality(data) |-> text[Nth(data, k)]]

\* A reader that takes every chunk for whole events.
ReadNoRest(text) == [frames |-> FramesOf(text), rest |-> <<>>]

\* text.split("\n\n"): the frames of all parts but the last, which is kept.
Read(text) ==
  [frames |-> FramesOf(text),
   rest |-> SubSeq(text, LastEnd(text) + 1, Len(text))]

=============================================================================
