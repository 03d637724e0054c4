------------------------------ MODULE HttpExec ------------------------------
(***************************************************************************)
(* exec over the HTTP fallback: handleInvoke's buffered exec and           *)
(* handlePoll (src/src/server/transport/http.ts) around the exec service   *)
(* of ExecService, and the polling loop of the client's HTTPTransport      *)
(* (src/src/client/transport/http.ts) at the other end.                    *)
(*                                                                         *)
(* The chunks of a buffer are the "out" frames of the exec's log, numbered *)
(* from 1.  Polls overlap: the client's interval fires whether or not the  *)
(* last poll was answered, and HTTP answers in any order or not at all.    *)
(* The session may expire at any time, and spawn may throw, which by       *)
(* default ends the server.                                                *)
(***************************************************************************)
EXTENDS ExecService

CONSTANTS
  Polls,    \* polls that may be under way at the same time
  NoExec    \* what an idle poll asks for

ASSUME HttpAssumption == NoExec \notin Execs

VARIABLES
  buffered,  \* keys of execBuffers
  done,      \* execs whose buffer is marked done
  session,   \* "valid" or "expired"
  server,    \* "up" or "down"
  waiting,   \* execs whose ten-second timeout is pending
  reply,     \* what each invoke was answered with
  carried,   \* how many chunks the exit frame of the answer carries
  polling,   \* the polling interval of each exec at the client
  cursor,    \* its cursor
  got,       \* the chunks it has handed to the frame handlers
  poll,      \* the polls under way
  lostDone   \* history: execs for which an answer with done was lost

httpVars == <<buffered, done, session, server, waiting, reply, carried, polling,
              cursor, got, poll, lostDone>>

bufferVars == <<buffered, done, waiting, reply, carried>>
hostVars == <<session, server>>
serverVars == <<bufferVars, hostVars>>
clientVars == <<polling, cursor, got, poll, lostDone>>

Outs(e) == Len(log[e]) - Cardinality(Exits(e))

IdlePoll == [at |-> "idle", exec |-> NoExec, from |-> 0, next |-> 0,
             verdict |-> "none"]

Poll == [at : {"idle", "sent", "answered"}, exec : Execs \cup {NoExec},
         from : 0..MaxChunks, next : 0..MaxChunks,
         verdict : {"none", "more", "done", "NOT_FOUND", "UNAUTHORIZED"}]

\* The verdicts of an answer that is not ok.
Errors == {"NOT_FOUND", "UNAUTHORIZED"}

HttpInit ==
  /\ Init
  /\ buffered = {}
  /\ done = {}
  /\ session = "valid"
  /\ server = "up"
  /\ waiting = {}
  /\ reply = [e \in Execs |-> "none"]
  /\ carried = [e \in Execs |-> 0]
  /\ polling = [e \in Execs |-> "no"]
  /\ cursor = [e \in Execs |-> 0]
  /\ got = [e \in Execs |-> {}]
  /\ poll = [p \in Polls |-> IdlePoll]
  /\ lostDone = {}

\* resolve: only the first answer counts.
Resolve(e, answer) ==
  reply' = IF reply[e] = "none" THEN [reply EXCEPT ![e] = answer] ELSE reply

-----------------------------------------------------------------------------
(* Mutants: one plausible slip each.  They are not part of the             *)
(* specification.                                                          *)

\* The timeout is cleared whatever routeFrame returned.
InvokeClears(e) ==
  /\ server = "up" /\ session = "valid"
  /\ Refuse(e) \/ Start(e)
  /\ buffered' = buffered \cup {e}
  /\ IF outcome'[e] \in {"FORBIDDEN", "LIMIT_EXCEEDED"}
     THEN done' = done \cup {e} /\ Resolve(e, "refused")
     ELSE UNCHANGED <<done, reply>>
  /\ UNCHANGED <<waiting, carried, hostVars, clientVars>>

\* The callback answers without marking the buffer.
OnExitUnmarked(e) ==
  /\ waiting' = waiting \ {e}
  /\ Resolve(e, "exit")
  /\ carried' = IF reply[e] = "none" THEN [carried EXCEPT ![e] = Outs(e)]
                ELSE carried
  /\ UNCHANGED <<buffered, done>>

\* Timed out, the buffer is left as it is.
TimeoutUnmarked(e) ==
  /\ server = "up"
  /\ e \in waiting
  /\ waiting' = waiting \ {e}
  /\ e \notin done
  /\ Resolve(e, "TIMEOUT")
  /\ UNCHANGED <<vars, buffered, done, carried, hostVars, clientVars>>

\* The buffer is removed by the first poll that finds it done.
ServeRemoves(p) ==
  LET e == poll[p].exec IN
  /\ server = "up" /\ session = "valid"
  /\ poll[p].at = "sent"
  /\ e \in buffered
  /\ poll' = [poll EXCEPT ![p] =
       [at |-> "answered", exec |-> e, from |-> poll[p].from, next |-> Outs(e),
        verdict |-> IF e \in done THEN "done" ELSE "more"]]
  /\ buffered' = IF e \in done THEN buffered \ {e} ELSE buffered
  /\ UNCHANGED <<vars, done, waiting, reply, carried, hostVars, polling, cursor,
                 got, lostDone>>

\* The cursor advances by the chunks received.
ArriveAdds(p) ==
  LET e == poll[p].exec IN
  /\ poll[p].at = "answered"
  /\ poll[p].verdict \notin Errors
  /\ poll' = [poll EXCEPT ![p] = IdlePoll]
  /\ got' = [got EXCEPT ![e] = @ \cup (poll[p].from + 1)..poll[p].next]
  /\ cursor' = [cursor EXCEPT ![e] = @ + (poll[p].next - poll[p].from)]
  /\ polling' = IF poll[p].verdict = "done" THEN [polling EXCEPT ![e] = "off"]
                ELSE polling
  /\ UNCHANGED <<vars, serverVars, lostDone>>

-----------------------------------------------------------------------------

\* POST /.jdp/invoke of an exec.req: the buffer is registered and the timeout
\* armed before the frame is routed.  A refusal is the answer.  When spawn
\* throws, routeFrame rejects and nothing handles the rejection: that ends the
\* server, unless the host listens for it, and then the timeout answers.
Invoke(e) ==
  /\ server = "up" /\ session = "valid"
  /\ Refuse(e) \/ Start(e)
  /\ buffered' = buffered \cup {e}
  /\ IF outcome'[e] \in {"FORBIDDEN", "LIMIT_EXCEEDED"}
     THEN done' = done \cup {e} /\ Resolve(e, "refused") /\ UNCHANGED waiting
     ELSE waiting' = waiting \cup {e} /\ UNCHANGED <<done, reply>>
  /\ server' = "up" \/ (outcome'[e] = "threw" /\ server' = "down")
  /\ UNCHANGED <<carried, session, clientVars>>

\* onExit: the exit frame with all chunks so far is the answer, if there was
\* none yet.
OnExit(e) ==
  /\ waiting' = waiting \ {e}
  /\ done' = done \cup {e}
  /\ Resolve(e, "exit")
  /\ carried' = IF reply[e] = "none" THEN [carried EXCEPT ![e] = Outs(e)]
                ELSE carried
  /\ UNCHANGED buffered

\* A step of the exec service; if it reports an exit, with the onExit callback.
\* onStdout and onStderr append to the buffer, which is the log.  A kill is a
\* request of the session.
ProcessStep(e) ==
  /\ server = "up"
  /\ \/ Data(e) \/ LeaderExits(e) \/ PipesEnd(e) \/ Close(e) \/ SpawnError(e)
     \/ TimerFires(e)
     \/ session = "valid" /\ KillNotFound(e)
     \/ session = "valid" /\ \E signal \in Signals : Kill(e, signal)
  /\ \/ Exits(e)' = Exits(e) /\ UNCHANGED bufferVars
     \/ Exits(e)' # Exits(e) /\ OnExit(e)
  /\ UNCHANGED <<hostVars, clientVars>>

\* Ten seconds after the invoke: TIMEOUT, while the process runs on.
TimeoutFires(e) ==
  /\ server = "up"
  /\ e \in waiting
  /\ waiting' = waiting \ {e}
  /\ e \notin done
  /\ done' = done \cup {e}
  /\ Resolve(e, "TIMEOUT")
  /\ UNCHANGED <<vars, buffered, carried, hostVars, clientVars>>

\* The session lapses.
Expire ==
  /\ session = "valid"
  /\ session' = "expired"
  /\ UNCHANGED <<vars, bufferVars, server, clientVars>>

\* startPolling, once per exec: before, during or after the invoke.
StartPolling(e) ==
  /\ polling[e] = "no"
  /\ polling' = [polling EXCEPT ![e] = "on"]
  /\ UNCHANGED <<vars, serverVars, cursor, got, poll, lostDone>>

\* The interval fires: a poll from the cursor of this moment.
SendPoll(p, e) ==
  /\ poll[p].at = "idle"
  /\ polling[e] = "on"
  /\ poll' = [poll EXCEPT ![p] =
       [at |-> "sent", exec |-> e, from |-> cursor[e], next |-> 0,
        verdict |-> "none"]]
  /\ UNCHANGED <<vars, serverVars, polling, cursor, got, lostDone>>

\* GET /.jdp/poll, if the session is still valid: the chunks after the cursor,
\* and done; the buffer is removed when it is done and the cursor has reached
\* its end.
ServePoll(p) ==
  LET e == poll[p].exec IN
  /\ server = "up"
  /\ poll[p].at = "sent"
  /\ \/ /\ session = "expired" \/ e \notin buffered
        /\ poll' = [poll EXCEPT ![p] =
             [at |-> "answered", exec |-> e, from |-> poll[p].from, next |-> 0,
              verdict |-> IF session = "expired" THEN "UNAUTHORIZED"
                          ELSE "NOT_FOUND"]]
        /\ UNCHANGED buffered
     \/ /\ session = "valid" /\ e \in buffered
        /\ poll' = [poll EXCEPT ![p] =
             [at |-> "answered", exec |-> e, from |-> poll[p].from,
              next |-> Outs(e),
              verdict |-> IF e \in done THEN "done" ELSE "more"]]
        /\ buffered' = IF e \in done /\ Outs(e) = poll[p].from
                       THEN buffered \ {e} ELSE buffered
  /\ UNCHANGED <<vars, done, waiting, reply, carried, hostVars, polling, cursor,
                 got, lostDone>>

\* The answer reaches the client: the chunks are handed on, the cursor is what
\* the answer says, and done clears the interval.  An error changes nothing:
\* the interval goes on.
Arrive(p) ==
  LET e == poll[p].exec IN
  /\ poll[p].at = "answered"
  /\ poll' = [poll EXCEPT ![p] = IdlePoll]
  /\ \/ /\ poll[p].verdict \in Errors
        /\ UNCHANGED <<got, cursor, polling>>
     \/ /\ poll[p].verdict \notin Errors
        /\ got' = [got EXCEPT ![e] = @ \cup (poll[p].from + 1)..poll[p].next]
        /\ cursor' = [cursor EXCEPT ![e] = poll[p].next]
        /\ polling' = IF poll[p].verdict = "done"
                      THEN [polling EXCEPT ![e] = "off"] ELSE polling
  /\ UNCHANGED <<vars, serverVars, lostDone>>

\* The fetch rejects, before or after the server has handled the poll, or the
\* lookup of the session fails and the answer is a 500.
LosePoll(p) ==
  /\ poll[p].at \in {"sent", "answered"}
  /\ poll' = [poll EXCEPT ![p] = IdlePoll]
  /\ lostDone' = IF poll[p].verdict = "done" THEN lostDone \cup {poll[p].exec}
                 ELSE lostDone
  /\ UNCHANGED <<vars, serverVars, polling, cursor, got>>

HttpNext ==
  \/ \E e \in Execs :
       \/ Invoke(e) \/ ProcessStep(e) \/ TimeoutFires(e) \/ StartPolling(e)
       \/ \E p \in Polls : SendPoll(p, e)
  \/ \E p \in Polls : ServePoll(p) \/ Arrive(p) \/ LosePoll(p)
  \/ Expire

HttpSpec == HttpInit /\ [][HttpNext]_<<vars, httpVars>>

\* Timeouts fire, the polling interval goes on, answers arrive unless they are
\* lost, and not every request is lost on its way: a client that polls for ever
\* is answered for ever, while the server runs.  Nothing is assumed of the
\* processes, of the session or of the server's life.
HttpFairSpec ==
  /\ HttpSpec
  /\ \A e \in Execs :
       /\ WF_<<vars, httpVars>>(TimeoutFires(e))
       /\ WF_<<vars, httpVars>>(\E p \in Polls : SendPoll(p, e))
  /\ \A p \in Polls :
       SF_<<vars, httpVars>>(ServePoll(p)) /\ WF_<<vars, httpVars>>(Arrive(p))

-----------------------------------------------------------------------------

\* Types.
HttpTypeOK ==
  /\ buffered \in SUBSET Execs
  /\ done \in SUBSET Execs
  /\ session \in {"valid", "expired"} /\ server \in {"up", "down"}
  /\ waiting \in SUBSET Execs
  /\ reply \in [Execs -> {"none", "exit", "TIMEOUT", "refused"}]
  /\ carried \in [Execs -> 0..MaxChunks]
  /\ polling \in [Execs -> {"no", "on", "off"}]
  /\ cursor \in [Execs -> 0..MaxChunks]
  /\ got \in [Execs -> SUBSET (1..MaxChunks)]
  /\ poll \in [Polls -> Poll]
  /\ lostDone \in SUBSET Execs

\* Polls that overlap, overtake each other or get lost may repeat chunks, and
\* the cursor may go back, but no chunk is ever skipped: up to the cursor, and
\* up to the last chunk received, the client has every one.
NoGap ==
  \A e \in Execs :
    /\ 1..cursor[e] \subseteq got[e]
    /\ \A i \in got[e] : 1..i \subseteq got[e]

\* Unless the invoke timed out, the client has the whole output when its
\* polling stops and when the server forgets the buffer, even if the answer
\* that says so is lost.
NothingForgotten ==
  \A e \in Execs \ Privileged :
    (/\ outcome[e] # "none"
     /\ reply[e] # "TIMEOUT"
     /\ polling[e] = "off" \/ e \notin buffered)
      => got[e] = 1..Outs(e)

\* Timed out or not, the server removes a buffer only when the client has all
\* that the process has written up to then.
ForgetsOnlyRead ==
  [][\A e \in Execs :
       e \in buffered /\ e \notin buffered' => got[e] = 1..Outs(e)]_<<vars, httpVars>>

\* An invoke answered with an exit frame is answered with the whole output of
\* the process, and an invoke answered with TIMEOUT has marked its buffer.
AnswerComplete ==
  \A e \in Execs \ Privileged :
    /\ reply[e] = "exit" => carried[e] = Outs(e)
    /\ reply[e] # "none" => e \in done
    /\ (outcome[e] # "none" /\ reply[e] = "none") => e \in waiting

\* Every exec over HTTP is answered, also when the process hangs or its pipes
\* are kept open by descendants; only the end of the server, which a spawn that
\* throws may bring about, leaves it without an answer.
Answered ==
  \A e \in Execs : outcome[e] # "none" ~> reply[e] # "none" \/ server = "down"

\* A client does not poll an exec for ever, however long the process runs: what
\* can keep it polling is the loss of an answer that says done, the end of its
\* session, which each poll is then told of, or that of the server.
PollingStops ==
  \A e \in Execs :
    (polling[e] = "on" /\ outcome[e] # "none")
      ~> \/ polling[e] = "off" \/ e \in lostDone
         \/ session = "expired" \/ server = "down"

=============================================================================
