----------------------------- MODULE ClientCalls -----------------------------
(***************************************************************************)
(* RJDPClient over the SSE transport: its calls, their requests on the way *)
(* to the server, what the server does with them, and the event stream     *)
(* back (src/src/client/client.ts, src/src/client/transport/sse.ts).       *)
(*                                                                         *)
(* A call is an exec, with a handle that may be killed, or a one-shot call *)
(* (eval, fs, sysinfo, cwd), which waits for one frame.  Every request is  *)
(* a POST of its own: requests overtake each other, are refused, or fail   *)
(* at the client whether or not the server gets them.                      *)
(***************************************************************************)
EXTENDS SseWire

CONSTANTS
  Execs, OneShots,  \* calls
  NoCall,           \* the id of the "connected" event
  MaxOut,           \* bound on the output frames of a process
  MaxConns          \* bound on the streams of the session

ASSUME CallsAssumption ==
  /\ Execs \cap OneShots = {} /\ NoCall \notin Execs \cup OneShots
  /\ MaxOut \in Nat /\ MaxConns \in Nat \ {0}

Calls == Execs \cup OneShots
Req(c) == <<c, "req">>
Kill(c) == <<c, "kill">>
Requests == {Req(c) : c \in Calls} \cup {Kill(c) : c \in Execs}

Frame == [id : Calls \cup {NoCall},
          type : {"out", "exit", "error", "res", "connected"}]
Greeting == [id |-> NoCall, type |-> "connected"]

ASSUME WireAssumption == NL \notin Frame

VARIABLES
  source,    \* "fetch" or "EventSource"
  stream,    \* "open", "lost", or "ended": _readStream has returned
  conn,      \* how many streams there have been
  wire,      \* tokens on the stream
  buffer,    \* tokens _readStream holds back
  flight,    \* history: frames sent on the stream and not dispatched
  emitted,   \* history: frames handed to the dispatcher
  closed, disconnected,
  transit,   \* requests on the way; one that is lost stays there
  verdict,   \* answer to each request: "none", "ok" or "refused"
  working,   \* one-shot calls being handled
  running,   \* processes
  denied,    \* processes the server was not allowed to signal
  held,      \* the stream whose controller each request captured
  written,   \* output frames of each process
  overtaken, \* history: execs whose kill arrived first
  garbled,   \* history: one-shot calls whose answer JSON could not write
  issued,    \* requests the client has sent
  awaiting,  \* those whose promise is not settled
  client     \* the maps of the client, and what it has told its callers

wireVars == <<source, conn, closed, disconnected, stream>>
readVars == <<wire, buffer, flight, emitted>>
serverVars == <<transit, verdict, working, running, denied, held, written,
                overtaken, garbled>>
callVars == <<issued, awaiting, client>>
vars == <<wireVars, readVars, serverVars, callVars>>

\* A client that negotiate has just connected.
Init ==
  /\ source \in {"fetch", "EventSource"}
  /\ stream = "open" /\ conn = 1
  /\ wire = <<>> /\ buffer = <<>> /\ flight = <<>> /\ emitted = <<>>
  /\ closed = FALSE /\ disconnected = FALSE
  /\ transit = {} /\ verdict = [r \in Requests |-> "none"]
  /\ working = {} /\ running = {} /\ denied = {}
  /\ overtaken = {} /\ garbled = {}
  /\ held = [c \in Calls |-> 0] /\ written = [c \in Execs |-> 0]
  /\ issued = {} /\ awaiting = {}
  /\ client = [streamHandlers |-> {}, pendingFrames |-> {},
               result |-> [c \in Calls |-> "none"],
               outs |-> [c \in Execs |-> 0]]

\* The processes exec.kill finds: 'error' takes one out that is still running.
activeProcesses == running \ denied

\* sendEvent to the controller of stream k.
SendTo(k, c, type) ==
  IF stream = "open" /\ k = conn
  THEN LET f == [id |-> c, type |-> type] IN
       wire' = wire \o Encode(f) /\ flight' = Append(flight, f)
  ELSE UNCHANGED <<wire, flight>>

\* sendEvent of what JSON cannot write: an error, under no id.
SendGarbled(k) == SendTo(k, NoCall, "error")

-----------------------------------------------------------------------------
(* Mutants: one plausible slip each.  They are not part of the             *)
(* specification.                                                          *)

\* kill() stops listening, for the process is going to end.
SendKillForgets(c) ==
  /\ Req(c) \in issued /\ Kill(c) \notin issued
  /\ issued' = issued \cup {Kill(c)} /\ transit' = transit \cup {Kill(c)}
  /\ client' = [client EXCEPT !.streamHandlers = @ \ {c}]
  /\ UNCHANGED <<wireVars, readVars, verdict, working, running, denied, held, written,
                 overtaken, garbled, awaiting>>

\* The dispatcher keeps the handler of an exec that has ended.
DispatchKeeps(s, f) ==
  IF f.id \in s.streamHandlers
  THEN [s EXCEPT !.outs[f.id] = IF f.type = "out" THEN @ + 1 ELSE @,
                 !.result[f.id] = CASE f.type = "error" -> "error"
                                    [] f.type = "exit" /\ @ = "none" -> "exit"
                                    [] OTHER -> @]
  ELSE IF f.id \in s.pendingFrames
       THEN [s EXCEPT !.pendingFrames = @ \ {f.id}, !.result[f.id] = f.type]
       ELSE s

\* The exit frame goes to the stream that is registered by now.
ExitToCurrent(c) ==
  /\ c \in running
  /\ running' = running \ {c}
  /\ SendTo(conn, c, "exit")
  /\ UNCHANGED <<wireVars, buffer, emitted, transit, verdict, working, denied, held,
                 written, overtaken, garbled, callVars>>

\* A disconnect is not reported while a request is under way.
StreamEndsBusy ==
  /\ source = "fetch" /\ stream = "lost"
  /\ stream' = "ended" /\ buffer' = <<>>
  /\ disconnected' = (~closed /\ awaiting # {})
  /\ UNCHANGED <<source, conn, closed, wire, flight, emitted, serverVars, callVars>>

-----------------------------------------------------------------------------
(* The client's calls.                                                     *)

\* exec(): the handler is registered before the request leaves.
exec(c) ==
  /\ Req(c) \notin issued
  /\ issued' = issued \cup {Req(c)} /\ awaiting' = awaiting \cup {Req(c)}
  /\ transit' = transit \cup {Req(c)}
  /\ client' = [client EXCEPT !.streamHandlers = @ \cup {c}]
  /\ UNCHANGED <<wireVars, readVars, verdict, working, running, denied, held, written,
                 overtaken, garbled>>

\* sendAndWait, which every one-shot call goes through.
sendAndWait(c) ==
  /\ Req(c) \notin issued
  /\ issued' = issued \cup {Req(c)} /\ awaiting' = awaiting \cup {Req(c)}
  /\ transit' = transit \cup {Req(c)}
  /\ client' = [client EXCEPT !.pendingFrames = @ \cup {c}]
  /\ UNCHANGED <<wireVars, readVars, verdict, working, running, denied, held, written,
                 overtaken, garbled>>

\* kill() of a handle: a request nobody waits for, under the id of the exec.
_sendKill(c) ==
  /\ Req(c) \in issued /\ Kill(c) \notin issued
  /\ issued' = issued \cup {Kill(c)} /\ transit' = transit \cup {Kill(c)}
  /\ UNCHANGED <<wireVars, readVars, verdict, working, running, denied, held, written,
                 overtaken, garbled, awaiting, client>>

\* close(): the stream and every request under way are aborted.
close ==
  /\ ~closed
  /\ closed' = TRUE
  /\ stream' = IF stream = "open" THEN "lost" ELSE stream
  /\ wire' = <<>> /\ flight' = <<>>
  /\ UNCHANGED <<source, conn, disconnected, buffer, emitted, serverVars, callVars>>

\* A send that fails settles its call.
SendFails(r, c) ==
  /\ awaiting' = awaiting \ {r}
  /\ client' = IF c \in Execs THEN [client EXCEPT !.result[c] = "send"]
               ELSE [client EXCEPT !.pendingFrames = @ \ {c},
                                   !.result[c] = IF @ = "none" THEN "send" ELSE @]

\* The answer to a request: a refusal rejects the send.
Answer(r) ==
  /\ r \in awaiting /\ verdict[r] # "none" /\ ~closed
  /\ IF verdict[r] = "ok" THEN awaiting' = awaiting \ {r} /\ UNCHANGED client
     ELSE SendFails(r, r[1])
  /\ UNCHANGED <<wireVars, readVars, serverVars, issued>>

\* No answer comes, or the client has closed.
NoAnswer(r) ==
  /\ r \in awaiting
  /\ SendFails(r, r[1])
  /\ UNCHANGED <<wireVars, readVars, serverVars, issued>>

-----------------------------------------------------------------------------
(* The server.                                                             *)

\* UNAUTHORIZED, NO_STREAM, or a handler that throws.
Refuse(r) ==
  /\ r \in transit
  /\ transit' = transit \ {r}
  /\ verdict' = [verdict EXCEPT ![r] = "refused"]
  /\ UNCHANGED <<wireVars, readVars, working, running, denied, held, written, overtaken,
                 garbled, callVars>>

\* exec.req: a process, or an error frame.
ServeExec(c) ==
  /\ Req(c) \in transit
  /\ transit' = transit \ {Req(c)}
  /\ verdict' = [verdict EXCEPT ![Req(c)] = "ok"]
  /\ held' = [held EXCEPT ![c] = conn]
  /\ \/ running' = running \cup {c} /\ UNCHANGED <<wire, flight>>
     \/ SendTo(conn, c, "error") /\ UNCHANGED running
  /\ UNCHANGED <<wireVars, buffer, emitted, working, denied, written, overtaken,
                 garbled, callVars>>

\* exec.kill: a signal, or an error frame when there is no such process.  A
\* signal that is not permitted makes the child emit 'error': an exit is sent and
\* the process forgotten, which runs on.  (The SIGKILL that may follow a SIGTERM
\* is permitted when that was.)
ServeKill(c) ==
  /\ Kill(c) \in transit
  /\ transit' = transit \ {Kill(c)}
  /\ \/ /\ c \in activeProcesses
        /\ UNCHANGED <<wire, flight, denied>>
     \/ /\ c \in activeProcesses
        /\ denied' = denied \cup {c}
        /\ SendTo(held[c], c, "exit")
     \/ /\ c \notin activeProcesses
        /\ SendTo(conn, c, "error")
        /\ UNCHANGED denied
  /\ overtaken' = IF Req(c) \in transit THEN overtaken \cup {c} ELSE overtaken
  /\ UNCHANGED <<wireVars, buffer, emitted, verdict, working, running, held,
                 written, garbled, callVars>>

\* Any other frame is handled, and answered later.
ServeCall(c) ==
  /\ Req(c) \in transit
  /\ transit' = transit \ {Req(c)}
  /\ working' = working \cup {c}
  /\ held' = [held EXCEPT ![c] = conn]
  /\ UNCHANGED <<wireVars, readVars, verdict, running, denied, written, overtaken,
                 garbled, callVars>>

\* The result, or an error: for an eval, whichever of the code and the timer
\* settles first.  Its value, or what it logged, may be more than JSON can write.
Reply(c) ==
  /\ c \in working
  /\ working' = working \ {c}
  /\ verdict' = [verdict EXCEPT ![Req(c)] = "ok"]
  /\ \/ \E type \in {"res", "error"} : SendTo(held[c], c, type) /\ UNCHANGED garbled
     \/ SendGarbled(held[c]) /\ garbled' = garbled \cup {c}
  /\ UNCHANGED <<wireVars, buffer, emitted, transit, running, denied, held, written,
                 overtaken, callVars>>

Output(c) ==
  /\ c \in running /\ written[c] < MaxOut
  /\ written' = [written EXCEPT ![c] = @ + 1]
  /\ SendTo(held[c], c, "out")
  /\ UNCHANGED <<wireVars, buffer, emitted, transit, verdict, working, running, denied,
                 held, overtaken, garbled, callVars>>

\* 'close', also of a process that was forgotten.
Exit(c) ==
  /\ c \in running
  /\ running' = running \ {c}
  /\ SendTo(held[c], c, "exit")
  /\ UNCHANGED <<wireVars, buffer, emitted, transit, verdict, working, denied, held,
                 written, overtaken, garbled, callVars>>

-----------------------------------------------------------------------------
(* The stream.                                                             *)

\* The constructor's frame handler: a stream handler first, which goes with
\* the exit or an error; else a pending call, which one frame settles.
Dispatch(s, f) ==
  IF f.id \in s.streamHandlers
  THEN [s EXCEPT
         !.streamHandlers = IF f.type \in {"exit", "error"} THEN @ \ {f.id} ELSE @,
         !.outs[f.id] = IF f.type = "out" THEN @ + 1 ELSE @,
         !.result[f.id] = CASE f.type = "error" -> "error"
                            [] f.type = "exit" /\ @ = "none" -> "exit"
                            [] OTHER -> @]
  ELSE IF f.id \in s.pendingFrames
       THEN [s EXCEPT !.pendingFrames = @ \ {f.id}, !.result[f.id] = f.type]
       ELSE s

\* The frames of a chunk are dispatched in turn.
DispatchAll(frames) ==
  LET after[k \in 0..Len(frames)] ==
        IF k = 0 THEN client
        ELSE LET s == after[k - 1] IN Dispatch(s, frames[k])
  IN after[Len(frames)]

\* One turn of the read loop, on a chunk of any size.
_readStream ==
  /\ stream = "open" /\ wire # <<>>
  /\ \E n \in 1..Len(wire) : \E text \in {Read(buffer \o SubSeq(wire, 1, n))} :
       /\ wire' = SubSeq(wire, n + 1, Len(wire))
       /\ buffer' = text.rest
       /\ emitted' = emitted \o text.frames
       /\ flight' = SubSeq(flight, Len(text.frames) + 1, Len(flight))
       /\ client' = DispatchAll(text.frames)
  /\ UNCHANGED <<wireVars, serverVars, issued, awaiting>>

\* The connection breaks with what is on it.
Lose ==
  /\ stream = "open"
  /\ stream' = "lost" /\ wire' = <<>> /\ flight' = <<>>
  /\ UNCHANGED <<source, conn, closed, disconnected, buffer, emitted, serverVars,
                 callVars>>

\* The reader finds the end of the stream; an unfinished event is dropped, and
\* a disconnect reported, unless the client closed.
StreamEnds ==
  /\ source = "fetch" /\ stream = "lost"
  /\ stream' = "ended" /\ buffer' = <<>>
  /\ disconnected' = ~closed
  /\ UNCHANGED <<source, conn, closed, wire, flight, emitted, serverVars, callVars>>

\* An EventSource connects again by itself and tells nobody, or gives up.
EventSourceError ==
  /\ source = "EventSource" /\ stream = "lost" /\ ~closed
  /\ \/ /\ conn < MaxConns
        /\ conn' = conn + 1 /\ stream' = "open"
        /\ wire' = Encode(Greeting) /\ flight' = <<Greeting>>
        /\ UNCHANGED disconnected
     \/ stream' = "ended" /\ disconnected' = TRUE /\ UNCHANGED <<conn, wire, flight>>
  /\ buffer' = <<>>
  /\ UNCHANGED <<source, closed, emitted, serverVars, callVars>>

Next ==
  \/ close \/ _readStream \/ Lose \/ StreamEnds \/ EventSourceError
  \/ \E c \in Execs : \/ exec(c) \/ _sendKill(c) \/ ServeExec(c) \/ ServeKill(c)
                      \/ Output(c) \/ Exit(c)
  \/ \E c \in OneShots : sendAndWait(c) \/ ServeCall(c) \/ Reply(c)
  \/ \E r \in Requests : Answer(r) \/ NoAnswer(r) \/ Refuse(r)

Spec == Init /\ [][Next]_vars

\* The reader reads and finds the end of its stream, and the fetch of a one-shot
\* call settles: what the server takes up it answers, the code of an eval within
\* its timer, and a request that is lost fails.  Processes may run for ever.
FairSpec ==
  /\ Spec
  /\ WF_vars(_readStream) /\ WF_vars(StreamEnds \/ EventSourceError)
  /\ \A c \in OneShots : WF_vars(Answer(Req(c)) \/ NoAnswer(Req(c)))

-----------------------------------------------------------------------------

\* However the network cuts the stream into chunks, the frames handed to the
\* dispatcher are the frames the server sent, each once, whole and in order;
\* only a broken stream loses some, and those are the last of it.
Channel == INSTANCE FrameChannel WITH Frames <- Frame, inFlight <- flight

WireFaithful == Channel!Spec

\* A handle that reports an exit has been given all the process wrote, and the
\* process is gone, however streams break and kills race: but for a process that
\* the server was asked to kill and was not allowed to signal.
ExitIsComplete ==
  \A c \in Execs : client.result[c] = "exit" /\ c \notin denied =>
    client.outs[c] = written[c] /\ c \notin running

\* A process nobody listens to is one whose kill overtook its request, or was not
\* permitted: neither a kill the server turns down nor a failed send makes the
\* client drop a running process.
OnlyOvertakenOrphans ==
  \A c \in running : c \notin client.streamHandlers => c \in overtaken \cup denied

\* A settled call keeps its answer when another comes in later; the exit of an
\* exec is only ever replaced by the failure of its send.
SettledOnce ==
  [][\A c \in Calls : LET was == client.result[c] IN
       \/ client'.result[c] = was
       \/ was = "none"
       \/ c \in Execs /\ (client'.result[c] = "send" \/ was = "send")]_vars

\* A one-shot call is settled, unless the client was closed, was told of a
\* disconnect, its EventSource has moved to another stream by itself, or its
\* answer is one that JSON cannot write, which comes back under no id.
Answered ==
  \A c \in OneShots :
    c \in client.pendingFrames ~>
      \/ c \notin client.pendingFrames \/ c \in garbled
      \/ closed \/ disconnected \/ conn > 1

=============================================================================
