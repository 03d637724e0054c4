-------------------------- MODULE SseServerProofs --------------------------
(***************************************************************************)
(* Proofs about SseServer, for any number of streams, sends and events.    *)
(***************************************************************************)
EXTENDS SseServer, SequenceTheorems, TLAPS

\* A send that is still pushing has not produced its last frame.
PushesLeft ==
  \A r \in Sends :
    /\ pc[r] \in {"idle", "body"} => pushed[r] = 0
    /\ pc[r] = "pushing" => pushed[r] < Events

IInv ==
  /\ TypeOK
  /\ PushesLeft
  /\ RegistryLive
  /\ OnlyStaleCancelOrphans

\* No stream is open and none is registered.
LEMMA InitIInv == Init => IInv
<1> SUFFICES ASSUME Init
             PROVE  IInv
  OBVIOUS
<1> USE SseAssumption DEF Init
<1>1. TypeOK
  <2>1. /\ queue \in [Conns -> Seq(Frame)]
        /\ received \in [Conns -> Seq(Frame)]
    OBVIOUS
  <2>2. staleCancel \in BOOLEAN
    OBVIOUS
  <2>3. /\ registry \in Conns \cup {NoConn}
        /\ state \in [Conns -> {"none", "open", "closing", "closed"}]
        /\ pc \in [Sends -> {"idle", "body", "pushing", "OK", "NO_STREAM",
                             "INVALID_BODY"}]
        /\ held \in [Sends -> Conns \cup {NoConn}]
        /\ \A r \in Sends : pc[r] = "idle"
        /\ pushed \in [Sends -> 0..Events]
    OBVIOUS
  <2> QED  BY <2>1, <2>2, <2>3 DEF TypeOK
<1>2. PushesLeft /\ RegistryLive
  BY DEF PushesLeft, RegistryLive
<1>3. OnlyStaleCancelOrphans
  <2> SUFFICES ASSUME NEW c \in Conns
               PROVE  state[c] # "open" /\ registry # c
    BY DEF OnlyStaleCancelOrphans
  <2> QED  OBVIOUS
<1> QED  BY <1>1, <1>2, <1>3 DEF IInv

\* Replacing the connection leaves one open stream, the registered one.
LEMMA OpenIInv ==
  ASSUME IInv, NEW c \in Conns, OpenStream(c)
  PROVE  IInv'
<1> USE SseAssumption DEF IInv, OpenStream
<1>1. <<Connected>> \in Seq(Frame)
  BY DEF Frame
<1>2. TypeOK'
  BY <1>1 DEF TypeOK, Closed
<1>3. RegistryLive'
  BY DEF TypeOK, RegistryLive
<1>4. OnlyStaleCancelOrphans'
  BY DEF TypeOK, RegistryLive, OnlyStaleCancelOrphans, Closed
<1>5. PushesLeft'
  BY DEF PushesLeft
<1> QED  BY <1>2, <1>3, <1>4, <1>5

\* Draining closes only streams that are no longer registered.
LEMMA PullIInv ==
  ASSUME IInv, NEW c \in Conns, Pull(c)
  PROVE  IInv'
<1> USE SseAssumption DEF IInv, Pull
<1>1. /\ Tail(queue[c]) \in Seq(Frame)
      /\ Append(received[c], Head(queue[c])) \in Seq(Frame)
  BY DEF TypeOK
<1>2. TypeOK'
  BY <1>1 DEF TypeOK
<1>3. (RegistryLive /\ OnlyStaleCancelOrphans)'
  BY DEF TypeOK, RegistryLive, OnlyStaleCancelOrphans
<1>4. PushesLeft'
  BY DEF PushesLeft
<1> QED  BY <1>2, <1>3, <1>4

\* A cancel unregisters an open stream only if it came late.
LEMMA CancelIInv ==
  ASSUME IInv, NEW c \in Conns, Cancel(c)
  PROVE  IInv'
<1> USE SseAssumption DEF IInv, Cancel
<1>1. TypeOK'
  BY DEF TypeOK
<1>2. RegistryLive'
  BY DEF RegistryLive
<1>3. OnlyStaleCancelOrphans'
  <2> SUFFICES ASSUME ~staleCancel, registry \in {c, NoConn}
               PROVE  \A d \in Conns : state'[d] # "open"
    BY DEF OnlyStaleCancelOrphans
  <2> QED  BY DEF TypeOK, OnlyStaleCancelOrphans
<1>4. PushesLeft'
  BY DEF PushesLeft
<1> QED  BY <1>1, <1>2, <1>3, <1>4

\* Sends neither open nor close nor register a stream.
LEMMA SendIInv ==
  ASSUME IInv, NEW r \in Sends, SendBegin(r) \/ SendBody(r) \/ Push(r)
  PROVE  IInv'
<1> USE SseAssumption DEF IInv
<1>1. UNCHANGED <<registry, state, received, staleCancel>>
  BY DEF SendBegin, SendBody, Push
<1>2. (RegistryLive /\ OnlyStaleCancelOrphans)'
  BY <1>1 DEF RegistryLive, OnlyStaleCancelOrphans
<1>3. CASE SendBegin(r) \/ SendBody(r)
  <2>1. /\ pc' \in [Sends -> {"idle", "body", "pushing", "OK", "NO_STREAM",
                             "INVALID_BODY"}]
        /\ held' \in [Sends -> Conns \cup {NoConn}]
        /\ UNCHANGED <<queue, pushed>>
    BY <1>3, ZenonT(30) DEF SendBegin, SendBody, TypeOK
  <2>2. \A q \in Sends : pc'[q] \in {"body", "pushing", "OK"}
                           => held'[q] \in Conns
    BY <1>3 DEF SendBegin, SendBody, TypeOK
  <2>3. TypeOK'
    BY <1>1, <2>1, <2>2 DEF TypeOK
  <2>4. PushesLeft'
    BY <1>3, <2>1 DEF SendBegin, SendBody, PushesLeft, TypeOK
  <2> QED  BY <1>2, <2>3, <2>4
<1>4. CASE Push(r)
  <2>1. held[r] \in Conns
    BY <1>4 DEF Push, TypeOK
  <2>2. pushed[r] + 1 \in 1..Events
    BY <1>4 DEF Push, PushesLeft, TypeOK
  <2>3. Append(queue[held[r]], <<r, pushed[r] + 1>>) \in Seq(Frame)
    BY <2>1, <2>2 DEF TypeOK, Frame
  <2>4. TypeOK'
    BY <1>1, <1>4, <2>1, <2>2, <2>3 DEF Push, Enqueue, TypeOK
  <2>5. PushesLeft'
    BY <1>4, <2>2 DEF Push, PushesLeft, TypeOK
  <2> QED  BY <1>2, <2>4, <2>5
<1> QED  BY <1>3, <1>4

\* Every step preserves the invariant.
LEMMA NextIInv == IInv /\ [Next]_vars => IInv'
<1> SUFFICES ASSUME IInv, [Next]_vars
             PROVE  IInv'
  OBVIOUS
<1>1. CASE UNCHANGED vars
  BY <1>1 DEF vars, IInv, TypeOK, PushesLeft, RegistryLive, OnlyStaleCancelOrphans
<1> QED  BY <1>1, OpenIInv, PullIInv, CancelIInv, SendIInv DEF Next

\* The invariant holds in every reachable state of the transport.
THEOREM Inductive == Spec => []IInv
  BY InitIInv, NextIInv, PTL DEF Spec

\* Types, for every instance.
THEOREM TypeCorrect == Spec => []TypeOK
<1>1. IInv => TypeOK  BY DEF IInv
<1> QED  BY <1>1, Inductive, PTL

\* The registry never holds a stream that cannot take frames.
THEOREM RegistersLive == Spec => []RegistryLive
<1>1. IInv => RegistryLive  BY DEF IInv
<1> QED  BY <1>1, Inductive, PTL

\* The late cancel of a replaced stream is the only way to lose a connection.
THEOREM OrphansExplained == Spec => []OnlyStaleCancelOrphans
<1>1. IInv => OnlyStaleCancelOrphans  BY DEF IInv
<1> QED  BY <1>1, Inductive, PTL

-----------------------------------------------------------------------------
(* What the client sees of a send.                                         *)

\* What a concatenation holds, and where.
LEMMA Joined ==
  ASSUME NEW F, NEW s \in Seq(F), NEW t \in Seq(F), NEW p, p = s \o t
  PROVE  /\ p \in Seq(F)
         /\ Len(s) \in Nat /\ Len(t) \in Nat /\ Len(p) \in Nat
         /\ Len(p) = Len(s) + Len(t)
         /\ \A i \in 1..Len(s) : p[i] = s[i]
         /\ \A i \in 1..Len(t) : p[Len(s) + i] = t[i]
<1>1. Len(s) \in Nat /\ Len(t) \in Nat
  OBVIOUS
<1>2. /\ p \in Seq(F)
      /\ Len(p) = Len(s) + Len(t)
      /\ \A i \in 1..Len(s) + Len(t) :
           p[i] = IF i <= Len(s) THEN s[i] ELSE t[i - Len(s)]
  BY ConcatProperties
<1>3. \A i \in 1..Len(s) : i \in 1..Len(s) + Len(t) /\ i <= Len(s)
  BY <1>1
<1>4. \A i \in 1..Len(t) : /\ Len(s) + i \in 1..Len(s) + Len(t)
                           /\ ~(Len(s) + i <= Len(s))
                           /\ Len(s) + i - Len(s) = i
  BY <1>1
<1> QED  BY <1>1, <1>2, <1>3, <1>4

\* Moving the head of a queue to the end of what precedes it changes nothing.
LEMMA Shifted ==
  ASSUME NEW F, NEW s \in Seq(F), NEW q \in Seq(F), q # <<>>
  PROVE  Append(s, Head(q)) \o Tail(q) = s \o q
<1>1. Head(q) \in F /\ Tail(q) \in Seq(F) /\ <<Head(q)>> \in Seq(F)
  OBVIOUS
<1> DEFINE h == Head(q)
           r == Tail(q)
<1>2. q = <<h>> \o r
  BY <1>1, LenProperties, HeadTailProperties, ConcatProperties, SeqEqual
<1>3. Append(s, h) = s \o <<h>>
  BY <1>1, AppendIsConcat
<1> HIDE DEF h, r
<1>4. (s \o <<h>>) \o r = s \o (<<h>> \o r)
  BY <1>1, ConcatAssociative DEF h, r
<1> QED  BY <1>2, <1>3, <1>4 DEF h, r

\* Appending to the queue appends to the whole.
LEMMA Extended ==
  ASSUME NEW F, NEW s \in Seq(F), NEW q \in Seq(F), NEW f \in F
  PROVE  s \o Append(q, f) = Append(s \o q, f)
<1>1. <<f>> \in Seq(F) /\ s \o q \in Seq(F)
  BY ConcatProperties
<1>2. Append(q, f) = q \o <<f>> /\ Append(s \o q, f) = (s \o q) \o <<f>>
  BY <1>1, AppendIsConcat
<1>3. (s \o q) \o <<f>> = s \o (q \o <<f>>)
  BY <1>1, ConcatAssociative
<1> QED  BY <1>2, <1>3
\* The frames of each stream, those the client has and those still queued.
Pipe == [c \in Conns |-> received[c] \o queue[c]]

\* The frame is in s.
Has(s, r, n) == \E i \in 1..Len(s) : s[i] = <<r, n>>

\* The frame stands in s at i, after all the frames of its send before it.
InTurn(s, i, r, n) ==
  /\ \A m \in 1..n - 1 : \E j \in 1..i - 1 : s[j] = <<r, m>>
  /\ \A j \in 1..i - 1 : s[j] # <<r, n>>

\* Every frame in a pipe is in turn, was produced, and is of a send that holds
\* the stream.
PipesInTurn ==
  \A r \in Sends, c \in Conns, n \in 1..Events :
    \A i \in 1..Len(Pipe[c]) : Pipe[c][i] = <<r, n>> =>
      c = held[r] /\ n <= pushed[r] /\ InTurn(Pipe[c], i, r, n)

\* As long as its stream is open, all that a send has produced is in the pipe.
PipesWhole ==
  \A r \in Sends : pc[r] \in {"pushing", "OK"} /\ state[held[r]] = "open" =>
    \A n \in 1..pushed[r] : Has(Pipe[held[r]], r, n)

\* A stream that has not been opened holds nothing and is held by nobody.
FreshEmpty ==
  /\ \A c \in Conns : state[c] = "none" => queue[c] = <<>> /\ received[c] = <<>>
  /\ \A r \in Sends : pc[r] \in {"body", "pushing", "OK"} => state[held[r]] # "none"
  /\ \A r \in Sends : pc[r] \notin {"body", "pushing", "OK"} => pushed[r] = 0

GInv == IInv /\ PipesInTurn /\ PipesWhole /\ FreshEmpty

\* A pipe is a sequence of frames, what was received being its first part.
LEMMA PipeFacts ==
  ASSUME TypeOK, NEW c \in Conns
  PROVE  /\ Pipe[c] \in Seq(Frame)
         /\ Len(Pipe[c]) = Len(received[c]) + Len(queue[c])
         /\ Len(Pipe[c]) \in Nat /\ Len(received[c]) \in Nat
         /\ Len(received[c]) <= Len(Pipe[c])
         /\ \A i \in 1..Len(received[c]) : Pipe[c][i] = received[c][i]
<1>1. received[c] \in Seq(Frame) /\ queue[c] \in Seq(Frame)
  BY DEF TypeOK
<1> DEFINE p == Pipe[c]
           s == received[c]
           t == queue[c]
<1>2. p = s \o t
  BY DEF Pipe
<1> HIDE DEF p, s, t
<1>3. s \in Seq(Frame) /\ t \in Seq(Frame)
  BY <1>1 DEF s, t
<1>4. /\ p \in Seq(Frame)
      /\ Len(s) \in Nat /\ Len(t) \in Nat /\ Len(p) \in Nat
      /\ Len(p) = Len(s) + Len(t)
      /\ \A i \in 1..Len(s) : p[i] = s[i]
  BY <1>2, <1>3, Joined
<1>5. Len(s) <= Len(p)
  BY <1>4
<1> QED  BY <1>4, <1>5, ZenonT(30) DEF p, s, t

\* Frames that stay where they are stay in turn.
LEMMA StaysInTurn ==
  ASSUME NEW s, NEW t, NEW i \in Nat, NEW r, NEW n \in Nat, InTurn(s, i, r, n),
         \A j \in 1..i - 1 : t[j] = s[j]
  PROVE  InTurn(t, i, r, n)
  BY DEF InTurn

\* Nothing has been received and nothing is queued.
LEMMA InitGInv == Init => GInv
<1> SUFFICES ASSUME Init
             PROVE  GInv
  OBVIOUS
<1>1. IInv
  BY InitIInv
<1>2. FreshEmpty /\ PipesWhole
  BY DEF Init, FreshEmpty, PipesWhole
<1>3. PipesInTurn
  <2>1. \A c \in Conns : Len(received[c]) = 0 /\ Len(queue[c]) = 0
    BY DEF Init
  <2>2. ASSUME NEW c \in Conns  PROVE 1..Len(Pipe[c]) = {}
    <3>1. Len(Pipe[c]) = Len(received[c]) + Len(queue[c])
      BY <1>1, PipeFacts DEF IInv
    <3>2. Len(received[c]) = 0 /\ Len(queue[c]) = 0
      BY <2>1
    <3>3. Len(Pipe[c]) = 0
      BY <3>1, <3>2
    <3> QED  BY <3>3
  <2> QED  BY <2>2 DEF PipesInTurn
<1> QED  BY <1>1, <1>2, <1>3 DEF GInv

\* Steps that leave the pipes and the sends alone, and open no stream.
LEMMA SamePipes ==
  ASSUME GInv, IInv', UNCHANGED <<pc, held, pushed>>,
         \A c \in Conns : Pipe'[c] = Pipe[c],
         \A c \in Conns : state'[c] = "open" => state[c] = "open",
         FreshEmpty'
  PROVE  GInv'
<1>1. PipesInTurn'
  BY DEF GInv, PipesInTurn
<1>2. PipesWhole'
  <2>1. \A r \in Sends : pc[r] \in {"pushing", "OK"} => held[r] \in Conns
    BY DEF GInv, IInv, TypeOK
  <2>2. PipesWhole
    BY DEF GInv
  <2> QED  BY <2>1, <2>2 DEF PipesWhole
<1> QED  BY <1>1, <1>2 DEF GInv

\* A new stream starts with an empty pipe but for the greeting.
LEMMA OpenGInv ==
  ASSUME GInv, IInv', NEW c \in Conns, OpenStream(c)
  PROVE  GInv'
<1> USE SseAssumption DEF GInv, IInv
<1>1. /\ UNCHANGED <<pc, held, pushed, received>>
      /\ \A d \in Conns \ {c} : queue'[d] = queue[d]
      /\ \A d \in Conns \ {c} : state'[d] = "open" => state[d] = "open"
      /\ \A d \in Conns \ {c} : state'[d] = "none" <=> state[d] = "none"
      /\ state'[c] = "open" /\ queue'[c] = <<Connected>>
      /\ state[c] = "none" /\ received[c] = <<>>
  BY DEF OpenStream, TypeOK, FreshEmpty, Closed, RegistryLive
<1>2. /\ \A d \in Conns \ {c} : Pipe'[d] = Pipe[d]
      /\ Pipe'[c] = <<Connected>>
  <2>1. <<Connected>> \in Seq(Frame)
    BY DEF Frame
  <2>2. <<>> \o <<Connected>> = <<Connected>>
    BY <2>1, ConcatEmptySeq
  <2> QED  BY <1>1, <2>2 DEF Pipe
<1>3. \A r \in Sends : pc[r] \in {"body", "pushing", "OK"} => held[r] \in Conns \ {c}
  BY <1>1 DEF TypeOK, FreshEmpty
<1>4. PipesInTurn'
  <2> SUFFICES ASSUME NEW r \in Sends, NEW d \in Conns, NEW n \in 1..Events,
                      NEW i \in 1..Len(Pipe'[d]), Pipe'[d][i] = <<r, n>>
               PROVE  /\ d = held'[r] /\ n <= pushed'[r]
                      /\ InTurn(Pipe'[d], i, r, n)
    BY DEF PipesInTurn
  <2>1. d # c
    <3>1. <<r, n>> # Connected
      OBVIOUS
    <3>2. ASSUME d = c  PROVE Pipe'[d][i] = Connected
      <4>1. Pipe'[d] = <<Connected>>
        BY <1>2, <3>2
      <4>2. i \in 1..1
        BY <4>1
      <4> QED  BY <4>1, <4>2
    <3> QED  BY <3>1, <3>2
  <2> QED  BY <1>1, <1>2, <2>1 DEF PipesInTurn
<1>5. PipesWhole'
  <2>1. PipesWhole
    OBVIOUS
  <2>2. \A r \in Sends : pc[r] \in {"pushing", "OK"}
          => /\ held'[r] = held[r] /\ pushed'[r] = pushed[r]
             /\ Pipe'[held[r]] = Pipe[held[r]]
             /\ state'[held[r]] = "open" => state[held[r]] = "open"
    BY <1>1, <1>2, <1>3
  <2>3. UNCHANGED pc
    BY <1>1
  <2> HIDE DEF GInv, IInv
  <2> SUFFICES ASSUME NEW r \in Sends, pc[r] \in {"pushing", "OK"},
                      state'[held[r]] = "open", NEW n \in 1..pushed[r]
               PROVE  Has(Pipe[held[r]], r, n)
    BY <2>2, <2>3 DEF PipesWhole
  <2> QED  BY <2>1, <2>2 DEF PipesWhole
<1>6. FreshEmpty'
  BY <1>1, SMTT(30) DEF FreshEmpty, TypeOK
<1> QED  BY <1>4, <1>5, <1>6

\* Pulling moves a frame within its pipe.
LEMMA PullGInv ==
  ASSUME GInv, IInv', NEW c \in Conns, Pull(c)
  PROVE  GInv'
<1> USE DEF GInv, IInv
<1>1. \A d \in Conns : Pipe'[d] = Pipe[d]
  <2>1. CASE queue[c] # <<>> /\ queue[c] \in Seq(Frame) /\ received[c] \in Seq(Frame)
    <3>1. Append(received[c], Head(queue[c])) \o Tail(queue[c])
            = received[c] \o queue[c]
      BY <2>1, Shifted
    <3> QED  BY <3>1 DEF Pull, Pipe, TypeOK
  <2> QED  BY <2>1 DEF Pull, TypeOK
<1>2. /\ UNCHANGED <<pc, held, pushed>>
      /\ \A d \in Conns : state'[d] = "open" => state[d] = "open"
      /\ \A d \in Conns : state'[d] = "none" <=> state[d] = "none"
      /\ state[c] # "none"
      /\ \A d \in Conns \ {c} : queue'[d] = queue[d] /\ received'[d] = received[d]
  BY DEF Pull, TypeOK
<1>3. FreshEmpty'
  BY <1>2 DEF FreshEmpty, TypeOK
<1> QED  BY <1>1, <1>2, <1>3, SamePipes

\* Cancelling cuts a pipe down to what was received, and closes its stream.
LEMMA CancelGInv ==
  ASSUME GInv, IInv', NEW c \in Conns, Cancel(c)
  PROVE  GInv'
<1> USE DEF GInv, IInv
<1>1. /\ UNCHANGED <<pc, held, pushed, received>>
      /\ \A d \in Conns \ {c} : queue'[d] = queue[d] /\ state'[d] = state[d]
      /\ state[c] # "none" /\ state'[c] = "closed" /\ queue'[c] = <<>>
  BY DEF Cancel, TypeOK
<1>2. /\ \A d \in Conns \ {c} : Pipe'[d] = Pipe[d]
      /\ Pipe'[c] = received[c]
  <2>1. received[c] \o <<>> = received[c]
    BY ConcatEmptySeq DEF TypeOK
  <2> QED  BY <1>1, <2>1 DEF Pipe
<1>3. PipesInTurn'
  <2> SUFFICES ASSUME NEW r \in Sends, NEW d \in Conns, NEW n \in 1..Events,
                      NEW i \in 1..Len(Pipe'[d]), Pipe'[d][i] = <<r, n>>
               PROVE  /\ d = held[r] /\ n <= pushed[r]
                      /\ InTurn(Pipe'[d], i, r, n)
    BY <1>1 DEF PipesInTurn
  <2>1. CASE d # c
    BY <1>1, <1>2, <2>1 DEF PipesInTurn
  <2>2. CASE d = c
    <3>1. /\ i \in 1..Len(received[c]) /\ i \in 1..Len(Pipe[c])
          /\ \A j \in 1..i : Pipe'[c][j] = Pipe[c][j]
      <4>1. i \in 1..Len(received[c])
        BY <1>2, <2>2
      <4>2. /\ Len(Pipe[c]) \in Nat /\ Len(received[c]) \in Nat
            /\ Len(received[c]) <= Len(Pipe[c])
            /\ \A j \in 1..Len(received[c]) : Pipe[c][j] = received[c][j]
        BY PipeFacts
      <4> QED  BY <1>2, <4>1, <4>2
    <3>2. d = held[r] /\ n <= pushed[r] /\ InTurn(Pipe[c], i, r, n)
      BY <2>2, <3>1 DEF PipesInTurn
    <3>3. InTurn(Pipe'[c], i, r, n)
      <4>1. i \in Nat /\ n \in Nat /\ \A j \in 1..i - 1 : Pipe'[c][j] = Pipe[c][j]
        BY <3>1
      <4> QED  BY <3>2, <4>1, StaysInTurn
    <3> QED  BY <2>2, <3>2, <3>3
  <2> QED  BY <2>1, <2>2
<1>4. PipesWhole'
  <2>1. PipesWhole
    OBVIOUS
  <2>2. \A r \in Sends : pc[r] \in {"pushing", "OK"} /\ state'[held[r]] = "open"
          => /\ state[held[r]] = "open"
             /\ Pipe'[held[r]] = Pipe[held[r]]
    BY <1>1, <1>2 DEF TypeOK
  <2> HIDE DEF GInv, IInv
  <2> SUFFICES ASSUME NEW r \in Sends, pc[r] \in {"pushing", "OK"},
                      state'[held[r]] = "open", NEW n \in 1..pushed[r]
               PROVE  Has(Pipe[held[r]], r, n)
    BY <1>1, <2>2 DEF PipesWhole
  <2> QED  BY <2>1, <2>2 DEF PipesWhole
<1>5. FreshEmpty'
  BY <1>1 DEF FreshEmpty, TypeOK
<1> QED  BY <1>3, <1>4, <1>5

\* A send begins on an open stream, with nothing produced.
LEMMA BeginGInv ==
  ASSUME GInv, IInv', NEW r \in Sends, SendBegin(r) \/ SendBody(r)
  PROVE  GInv'
<1> USE DEF GInv, IInv
<1>1. /\ UNCHANGED <<state, queue, received, pushed>>
      /\ \A q \in Sends \ {r} : pc'[q] = pc[q] /\ held'[q] = held[q]
      /\ pushed[r] = 0
      /\ pc'[r] \in {"body", "pushing", "OK"} => state[held'[r]] # "none"
  BY SseAssumption
     DEF SendBegin, SendBody, TypeOK, PushesLeft, FreshEmpty, RegistryLive
<1>2. \A c \in Conns : Pipe'[c] = Pipe[c]
  BY <1>1 DEF Pipe
<1>3. PipesInTurn'
  BY <1>1, <1>2 DEF PipesInTurn
<1>4. PipesWhole'
  <2>1. PipesWhole
    OBVIOUS
  <2>2. \A q \in Sends \ {r} : pc'[q] = pc[q] /\ held'[q] = held[q]
    BY <1>1
  <2>3. Pipe' = Pipe
    BY <1>1 DEF Pipe
  <2>4. 1..pushed'[r] = {}
    BY <1>1
  <2> HIDE DEF GInv, IInv
  <2> SUFFICES ASSUME NEW q \in Sends \ {r}, pc[q] \in {"pushing", "OK"},
                      state[held[q]] = "open", NEW n \in 1..pushed[q]
               PROVE  Has(Pipe[held[q]], q, n)
    BY <1>1, <2>2, <2>3, <2>4 DEF PipesWhole
  <2> QED  BY <2>1 DEF PipesWhole
<1>5. FreshEmpty'
  BY <1>1 DEF FreshEmpty
<1> QED  BY <1>3, <1>4, <1>5

\* What a send pushes comes after all it has pushed before, or is dropped on a
\* stream that will take no more.
LEMMA PushGInv ==
  ASSUME GInv, IInv', NEW r \in Sends, Push(r)
  PROVE  GInv'
<1> USE DEF GInv, IInv
<1> DEFINE h == held[r]
           k == pushed[r] + 1
<1>1. /\ UNCHANGED <<state, received, held>>
      /\ \A q \in Sends \ {r} : pc'[q] = pc[q] /\ pushed'[q] = pushed[q]
      /\ pushed'[r] = k /\ pc[r] = "pushing" /\ pc'[r] \in {"pushing", "OK"}
      /\ h \in Conns /\ k \in 1..Events /\ Events \in Nat
  BY SseAssumption DEF Push, TypeOK, PushesLeft
<1>2. FreshEmpty'
  <2>1. \A c \in Conns : state[c] = "none" => queue'[c] = queue[c]
    BY <1>1 DEF Push, Enqueue, FreshEmpty, TypeOK
  <2> QED  BY <1>1, <2>1 DEF FreshEmpty
<1>3. CASE state[h] # "open"
  <2>1. \A c \in Conns : Pipe'[c] = Pipe[c]
    BY <1>1, <1>3 DEF Push, Enqueue, Pipe
  <2>2. \A q \in Sends : pushed[q] <= pushed'[q] /\ pushed[q] \in Nat
                         /\ pushed'[q] \in Nat
    <3>1. \A q \in Sends : pushed[q] \in Nat
      BY <1>1 DEF TypeOK
    <3> HIDE DEF GInv, IInv
    <3> QED  BY <1>1, <3>1
  <2>3. PipesInTurn'
    BY <1>1, <2>1, <2>2, SMTT(30) DEF PipesInTurn
  <2>4. PipesWhole'
    <3>1. PipesWhole /\ Pipe' = Pipe
      BY <1>1, <1>3 DEF Push, Enqueue, Pipe
    <3> HIDE DEF GInv, IInv
    <3> QED  BY <1>1, <1>3, <3>1 DEF PipesWhole
  <2> QED  BY <1>2, <2>3, <2>4
<1>4. CASE state[h] = "open"
  <2>1. /\ \A c \in Conns \ {h} : Pipe'[c] = Pipe[c]
        /\ Pipe'[h] = Append(Pipe[h], <<r, k>>)
    <3>1. received[h] \in Seq(Frame) /\ queue[h] \in Seq(Frame) /\ <<r, k>> \in Frame
      BY <1>1 DEF TypeOK, Frame
    <3>2. queue' = [queue EXCEPT ![h] = Append(queue[h], <<r, k>>)]
      BY <1>4 DEF Push, Enqueue
    <3>3. received[h] \o Append(queue[h], <<r, k>>)
            = Append(received[h] \o queue[h], <<r, k>>)
      <4>1. \A f \in Frame : received[h] \o Append(queue[h], f)
                             = Append(received[h] \o queue[h], f)
        <5> DEFINE s == received[h]
                   t == queue[h]
        <5>1. s \in Seq(Frame) /\ t \in Seq(Frame)
          BY <3>1
        <5> HIDE DEF s, t
        <5>2. \A f \in Frame : s \o Append(t, f) = Append(s \o t, f)
          BY <5>1, Extended
        <5> QED  BY <5>2 DEF s, t
      <4> QED  BY <3>1, <4>1
    <3> QED  BY <1>1, <3>2, <3>3 DEF Pipe, TypeOK
  <2>2. /\ Pipe[h] \in Seq(Frame) /\ Len(Pipe[h]) \in Nat
        /\ Len(Pipe'[h]) = Len(Pipe[h]) + 1
        /\ \A i \in 1..Len(Pipe[h]) : Pipe'[h][i] = Pipe[h][i]
        /\ Pipe'[h][Len(Pipe[h]) + 1] = <<r, k>>
    <3>1. Pipe[h] \in Seq(Frame) /\ <<r, k>> \in Frame
      BY <1>1, PipeFacts DEF Frame
    <3> HIDE DEF h, k, GInv, IInv
    <3> QED  BY <2>1, <3>1, AppendProperties
  <2>3. \A n \in 1..pushed[r] : \E i \in 1..Len(Pipe[h]) : Pipe[h][i] = <<r, n>>
    BY <1>1, <1>4 DEF PipesWhole, Has
  <2>4. PipesInTurn'
    <3> SUFFICES ASSUME NEW q \in Sends, NEW c \in Conns, NEW n \in 1..Events,
                        NEW i \in 1..Len(Pipe'[c]), Pipe'[c][i] = <<q, n>>
                 PROVE  /\ c = held[q] /\ n <= pushed'[q]
                        /\ InTurn(Pipe'[c], i, q, n)
      BY <1>1 DEF PipesInTurn
    <3>1. \A p \in Sends : pushed[p] \in Nat /\ pushed'[p] \in Nat
                           /\ pushed[p] <= pushed'[p]
      <4>1. \A p \in Sends : pushed[p] \in Nat
        BY <1>1 DEF TypeOK
      <4> HIDE DEF GInv, IInv
      <4> QED  BY <1>1, <4>1
    <3>2. CASE c # h
      <4>1. c = held[q] /\ n <= pushed[q] /\ InTurn(Pipe[c], i, q, n)
        BY <2>1, <3>2 DEF PipesInTurn
      <4> QED  BY <2>1, <3>1, <3>2, <4>1
    <3>3. CASE c = h /\ i \in 1..Len(Pipe[h])
      <4>1. Pipe[h][i] = <<q, n>>
        BY <2>2, <3>3
      <4>2. h = held[q] /\ n <= pushed[q] /\ InTurn(Pipe[h], i, q, n)
        BY <1>1, <3>3, <4>1 DEF PipesInTurn
      <4>3. \A j \in 1..i - 1 : Pipe'[h][j] = Pipe[h][j]
        BY <2>2, <3>3, SMTT(30)
      <4>4. InTurn(Pipe'[h], i, q, n)
        <5>1. i \in Nat /\ n \in Nat
          BY <2>2, <3>3
        <5> HIDE DEF h, k, GInv, IInv
        <5> QED  BY <4>2, <4>3, <5>1, StaysInTurn
      <4> QED  BY <3>1, <3>3, <4>2, <4>4
    <3>4. CASE c = h /\ i = Len(Pipe[h]) + 1
      <4>1. q = r /\ n = k
        BY <2>2, <3>4
      <4>2. \A m \in 1..k - 1 : \E j \in 1..i - 1 : Pipe'[h][j] = <<r, m>>
        <5> SUFFICES ASSUME NEW m \in 1..pushed[r]
                     PROVE  \E j \in 1..Len(Pipe[h]) : Pipe'[h][j] = <<r, m>>
          <6>1. k - 1 = pushed[r] /\ i - 1 = Len(Pipe[h])
            BY <2>2, <3>1, <3>4
          <6> QED  BY <6>1
        <5>1. PICK j \in 1..Len(Pipe[h]) : Pipe[h][j] = <<r, m>>
          BY <2>3
        <5> HIDE DEF h, k, GInv, IInv
        <5> QED  BY <2>2, <5>1
      <4>3. \A j \in 1..i - 1 : Pipe'[h][j] # <<r, k>>
        <5> SUFFICES ASSUME NEW j \in 1..Len(Pipe[h]), Pipe[h][j] = <<r, k>>
                     PROVE  FALSE
          <6>1. i - 1 = Len(Pipe[h])
            BY <2>2, <3>4
          <6> HIDE DEF h, k, GInv, IInv
          <6> QED  BY <2>2, <6>1
        <5>1. k <= pushed[r]
          BY <1>1 DEF PipesInTurn
        <5> QED  BY <3>1, <5>1
      <4>4. InTurn(Pipe'[h], i, r, k)
        BY <4>2, <4>3 DEF InTurn
      <4>5. k <= pushed'[r] /\ h = held[r]
        BY <1>1, <3>1
      <4> QED  BY <3>4, <4>1, <4>4, <4>5
    <3> QED  BY <2>2, <3>2, <3>3, <3>4
  <2>5. PipesWhole'
    <3> SUFFICES ASSUME NEW q \in Sends, pc'[q] \in {"pushing", "OK"},
                        state[held[q]] = "open", NEW n \in 1..pushed'[q]
                 PROVE  Has(Pipe'[held[q]], q, n)
      BY <1>1 DEF PipesWhole
    <3>1. CASE q = r /\ n = k
      <4>1. Len(Pipe[h]) + 1 \in 1..Len(Pipe'[h])
        BY <2>2
      <4>2. Pipe'[h][Len(Pipe[h]) + 1] = <<q, n>> /\ held[q] = h
        BY <2>2, <3>1
      <4> HIDE DEF h, k, GInv, IInv
      <4> QED  BY <4>1, <4>2 DEF Has
    <3>2. CASE ~(q = r /\ n = k)
      <4>1. pc[q] \in {"pushing", "OK"} /\ n \in 1..pushed[q] /\ held[q] \in Conns
        BY <1>1, <3>2 DEF TypeOK
      <4>2. PICK i \in 1..Len(Pipe[held[q]]) : Pipe[held[q]][i] = <<q, n>>
        BY <4>1 DEF PipesWhole, Has
      <4>3. CASE held[q] = h
        BY <2>2, <4>2, <4>3, SMTT(30) DEF Has
      <4>4. CASE held[q] # h
        BY <2>1, <4>1, <4>2, <4>4 DEF Has
      <4> QED  BY <4>3, <4>4
    <3> QED  BY <3>1, <3>2
  <2> QED  BY <1>2, <2>4, <2>5
<1> QED  BY <1>3, <1>4

\* Every step keeps the pipes in turn and whole.
LEMMA NextGInv == GInv /\ [Next]_vars => GInv'
<1> SUFFICES ASSUME GInv, [Next]_vars
             PROVE  GInv'
  OBVIOUS
<1>1. IInv'
  BY NextIInv DEF GInv
<1>2. CASE UNCHANGED vars
  <2>1. /\ UNCHANGED <<pc, held, pushed, state, queue, received>>
        /\ Pipe' = Pipe
    BY <1>2 DEF vars, Pipe
  <2>2. PipesInTurn' /\ FreshEmpty'
    BY <2>1 DEF GInv, PipesInTurn, FreshEmpty
  <2>3. PipesWhole'
    <3>1. PipesWhole
      BY DEF GInv
    <3> QED  BY <2>1, <3>1 DEF PipesWhole
  <2> QED  BY <1>1, <2>2, <2>3 DEF GInv
<1> QED  BY <1>1, <1>2, OpenGInv, PullGInv, CancelGInv, BeginGInv, PushGInv DEF Next

\* What a client has of a send is a prefix, in order, on one stream, for any
\* streams, sends and number of events.
THEOREM NoGaps == Spec => []GapFree
<1>1. GInv => GapFree
  <2> SUFFICES ASSUME GInv, NEW r \in Sends, NEW c \in Conns, NEW n \in 1..Events,
                      NEW i \in 1..Len(received[c]), received[c][i] = <<r, n>>
               PROVE  c = held[r] /\ InTurn(received[c], i, r, n)
    BY DEF GapFree, InTurn
  <2>1. /\ i \in 1..Len(Pipe[c]) /\ Pipe[c][i] = <<r, n>>
        /\ \A j \in 1..i - 1 : received[c][j] = Pipe[c][j]
    <3>1. /\ Len(Pipe[c]) \in Nat /\ Len(received[c]) \in Nat
          /\ Len(received[c]) <= Len(Pipe[c])
          /\ \A j \in 1..Len(received[c]) : Pipe[c][j] = received[c][j]
      BY PipeFacts DEF GInv, IInv
    <3> QED  BY <3>1
  <2>2. c = held[r] /\ InTurn(Pipe[c], i, r, n)
    BY <2>1 DEF GInv, PipesInTurn
  <2> QED  BY <2>1, <2>2, StaysInTurn
<1> QED  BY <1>1, InitGInv, NextGInv, PTL DEF Spec

=============================================================================
