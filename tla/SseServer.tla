----------------------------- MODULE SseServer -----------------------------
(***************************************************************************)
(* The SSE transport of one session on the server: the registry of         *)
(* connections, handleStream and handleSend (src/src/server/transport/     *)
(* sse.ts), with the ReadableStream underneath each connection, which is   *)
(* external: close() on a stream with a backlog only asks for the close,   *)
(* and cancel() runs for any stream that is not closed yet.                *)
(*                                                                         *)
(* A send names the controller registered when it arrived, and keeps it    *)
(* while the body is read, the frame routed and the exec events pushed.    *)
(***************************************************************************)
EXTENDS Naturals, Sequences

CONSTANTS
  Conns,      \* GET /.jdp/stream requests of the session
  NoConn,     \* no controller
  Sends,      \* POST /.jdp/send requests of the session
  Events,     \* frames each send pushes: exec output and its exit, or a reply
  Connected   \* the "connected" event

ASSUME SseAssumption ==
  /\ Events \in Nat \ {0}
  /\ NoConn \notin Conns
  /\ Connected \notin Sends \X (1..Events)

VARIABLES
  registry,     \* sseConnections.get(session.id), or NoConn
  state,        \* of each stream: "none", "open", "closing" or "closed"
  queue,        \* frames of each stream the runtime has not pulled yet
  received,     \* frames of each stream that were written to its socket
  pc,           \* of each send
  held,         \* the controller a send captured
  pushed,       \* how many frames a send has produced
  staleCancel   \* history: a stream was cancelled while another was registered

vars == <<registry, state, queue, received, pc, held, pushed, staleCancel>>

Frame == (Sends \X (1..Events)) \cup {Connected}

Init ==
  /\ registry = NoConn
  /\ state = [c \in Conns |-> "none"]
  /\ queue = [c \in Conns |-> <<>>]
  /\ received = [c \in Conns |-> <<>>]
  /\ pc = [r \in Sends |-> "idle"]
  /\ held = [r \in Sends |-> NoConn]
  /\ pushed = [r \in Sends |-> 0]
  /\ staleCancel = FALSE

\* controller.close(): at once if nothing is queued, else when the runtime has
\* pulled the rest.  On a stream that is closing or closed it throws.
Closed(c) == IF queue[c] = <<>> THEN "closed" ELSE "closing"

\* controller.enqueue(f): throws, and the frame is dropped, unless open.
Enqueue(c, f) ==
  queue' = IF state[c] = "open" THEN [queue EXCEPT ![c] = Append(@, f)]
           ELSE queue

-----------------------------------------------------------------------------
(* Mutants: one plausible slip each.  They are not part of the             *)
(* specification.                                                          *)

\* The previous connection is not closed.
OpenStreamOver(c) ==
  /\ state[c] = "none"
  /\ state' = [state EXCEPT ![c] = "open"]
  /\ registry' = c
  /\ queue' = [queue EXCEPT ![c] = <<Connected>>]
  /\ UNCHANGED <<received, pc, held, pushed, staleCancel>>

\* cancel forgets to unregister.
CancelKeeps(c) ==
  /\ state[c] \in {"open", "closing"}
  /\ state' = [state EXCEPT ![c] = "closed"]
  /\ queue' = [queue EXCEPT ![c] = <<>>]
  /\ UNCHANGED <<registry, received, pc, held, pushed, staleCancel>>

\* A send without a stream is accepted.
SendAnyway(r) ==
  /\ pc[r] = "idle"
  /\ held' = [held EXCEPT ![r] = registry]
  /\ pc' = [pc EXCEPT ![r] = "body"]
  /\ UNCHANGED <<registry, state, queue, received, pushed, staleCancel>>

\* Each event looks the connection up again.
PushToCurrent(r) ==
  /\ pc[r] = "pushing"
  /\ pushed' = [pushed EXCEPT ![r] = @ + 1]
  /\ IF registry = NoConn THEN UNCHANGED queue
     ELSE Enqueue(registry, <<r, pushed[r] + 1>>)
  /\ pc' = IF pushed[r] + 1 = Events THEN [pc EXCEPT ![r] = "OK"] ELSE pc
  /\ UNCHANGED <<registry, state, received, held, staleCancel>>

\* Events are only pushed to a connection that is still registered.
PushIfRegistered(r) ==
  /\ pc[r] = "pushing"
  /\ pushed' = [pushed EXCEPT ![r] = @ + 1]
  /\ IF held[r] # registry THEN UNCHANGED queue
     ELSE Enqueue(held[r], <<r, pushed[r] + 1>>)
  /\ pc' = IF pushed[r] + 1 = Events THEN [pc EXCEPT ![r] = "OK"] ELSE pc
  /\ UNCHANGED <<registry, state, received, held, staleCancel>>

-----------------------------------------------------------------------------

\* GET /.jdp/stream: the connection registered before is closed and replaced,
\* and the new stream starts with the connected event.
OpenStream(c) ==
  /\ state[c] = "none"
  /\ state' = [d \in Conns |-> CASE d = c        -> "open"
                                 [] d = registry -> Closed(d)
                                 [] OTHER        -> state[d]]
  /\ registry' = c
  /\ queue' = [queue EXCEPT ![c] = <<Connected>>]
  /\ UNCHANGED <<received, pc, held, pushed, staleCancel>>

\* The runtime pulls a chunk and writes it to the socket; a closing stream is
\* closed with its last chunk.
Pull(c) ==
  /\ state[c] \in {"open", "closing"}
  /\ queue[c] # <<>>
  /\ queue' = [queue EXCEPT ![c] = Tail(@)]
  /\ received' = [received EXCEPT ![c] = Append(@, Head(queue[c]))]
  /\ state' = IF state[c] = "closing" /\ Len(queue[c]) = 1
              THEN [state EXCEPT ![c] = "closed"] ELSE state
  /\ UNCHANGED <<registry, pc, held, pushed, staleCancel>>

\* The runtime notices that the client is gone and cancels the stream: the
\* backlog is discarded and cancel() unregisters the session's connection,
\* whichever that is by now.
Cancel(c) ==
  /\ state[c] \in {"open", "closing"}
  /\ state' = [state EXCEPT ![c] = "closed"]
  /\ queue' = [queue EXCEPT ![c] = <<>>]
  /\ registry' = NoConn
  /\ staleCancel' = (staleCancel \/ registry \notin {c, NoConn})
  /\ UNCHANGED <<received, pc, held, pushed>>

\* POST /.jdp/send: the controller is looked up before the body is read.
SendBegin(r) ==
  /\ pc[r] = "idle"
  /\ \/ /\ registry = NoConn
        /\ pc' = [pc EXCEPT ![r] = "NO_STREAM"]
        /\ UNCHANGED held
     \/ /\ registry # NoConn
        /\ held' = [held EXCEPT ![r] = registry]
        /\ pc' = [pc EXCEPT ![r] = "body"]
  /\ UNCHANGED <<registry, state, queue, received, pushed, staleCancel>>

\* The body is JSON, and the frame is routed, or it is not.
SendBody(r) ==
  /\ pc[r] = "body"
  /\ \E next \in {"pushing", "INVALID_BODY"} : pc' = [pc EXCEPT ![r] = next]
  /\ UNCHANGED <<registry, state, queue, received, held, pushed, staleCancel>>

\* sendEvent: the reply of the frame, or the next output or exit of the
\* process it started, goes to the captured controller.
Push(r) ==
  /\ pc[r] = "pushing"
  /\ pushed' = [pushed EXCEPT ![r] = @ + 1]
  /\ Enqueue(held[r], <<r, pushed[r] + 1>>)
  /\ pc' = IF pushed[r] + 1 = Events THEN [pc EXCEPT ![r] = "OK"] ELSE pc
  /\ UNCHANGED <<registry, state, received, held, staleCancel>>

Next ==
  \/ \E c \in Conns : OpenStream(c) \/ Pull(c) \/ Cancel(c)
  \/ \E r \in Sends : SendBegin(r) \/ SendBody(r) \/ Push(r)

Spec == Init /\ [][Next]_vars

\* The runtime drains its streams, and an accepted send is carried out.
\* Clients may never connect, send or go away.
FairSpec ==
  /\ Spec
  /\ \A c \in Conns : WF_vars(Pull(c))
  /\ \A r \in Sends : WF_vars(SendBody(r)) /\ WF_vars(Push(r))

-----------------------------------------------------------------------------

\* Types; a send past its first line holds a controller.
TypeOK ==
  /\ registry \in Conns \cup {NoConn}
  /\ state \in [Conns -> {"none", "open", "closing", "closed"}]
  /\ queue \in [Conns -> Seq(Frame)]
  /\ received \in [Conns -> Seq(Frame)]
  /\ pc \in [Sends -> {"idle", "body", "pushing", "OK", "NO_STREAM",
                       "INVALID_BODY"}]
  /\ held \in [Sends -> Conns \cup {NoConn}]
  /\ \A r \in Sends : pc[r] \in {"body", "pushing", "OK"} => held[r] \in Conns
  /\ pushed \in [Sends -> 0..Events]
  /\ staleCancel \in BOOLEAN

\* A send is never accepted onto a stream that is closing or closed: what the
\* registry holds is an open stream, however opens and cancels interleave.
RegistryLive == registry # NoConn => state[registry] = "open"

\* The registry is right unless a replaced stream is cancelled before its
\* backlog has drained: up to then the open stream, and no other, is
\* registered, so a reconnect always closes the previous connection.
OnlyStaleCancelOrphans ==
  ~staleCancel => \A c \in Conns : state[c] = "open" <=> registry = c

\* A client sees a prefix of what a send produced, on one stream: a frame comes
\* once, and after all the frames before it.  A reconnect truncates the output
\* of a process and never loses a piece out of its middle.
GapFree ==
  \A r \in Sends, c \in Conns, n \in 1..Events :
    \A i \in 1..Len(received[c]) : received[c][i] = <<r, n>> =>
      /\ c = held[r]
      /\ \A m \in 1..n - 1 : \E j \in 1..i - 1 : received[c][j] = <<r, m>>
      /\ \A j \in 1..i - 1 : received[c][j] # <<r, n>>

\* Every frame of an accepted send reaches the client, unless the stream the
\* send was accepted on closes, even when that stream is no longer registered.
AcceptedDelivered ==
  \A r \in Sends :
    pc[r] = "pushing" ~>
      \E c \in Conns :
        /\ held[r] = c
        /\ \/ \A n \in 1..Events :
                \E i \in 1..Len(received[c]) : received[c][i] = <<r, n>>
           \/ state[c] # "open"

=============================================================================
