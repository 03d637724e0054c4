------------------------------ MODULE Negotiate ------------------------------
(***************************************************************************)
(* negotiate (src/src/client/_negotiate.ts), which every                   *)
(* RJDPClient.connect goes through, and the connect of the SSE transport:  *)
(* what it leaves at the server when it fails half way.                    *)
(*                                                                         *)
(* Sessions are numbered as the server mints them.  A request may fail     *)
(* before or after the server has handled it.                              *)
(***************************************************************************)
EXTENDS Naturals

CONSTANTS
  Tasks,        \* whoever may be connecting
  MaxSessions   \* bound on the sessions of one behaviour

VARIABLES
  transport,  \* the preferred one that the server offers: "sse" or "http"
  cached,     \* opts.session of the first connect: "none", "valid" or "stale"
  minted,     \* how many sessions the server has created
  streams,    \* sessions with an open event stream
  stage,      \* of each task
  session     \* the session each task has authenticated, or 0

negotiateVars == <<transport, cached, minted, streams, stage, session>>

NegotiateInit(t) ==
  /\ transport \in {"sse", "http"}
  /\ cached \in {"none", "valid", "stale"}
  /\ minted = IF cached = "valid" THEN 1 ELSE 0
  /\ streams = {}
  /\ stage = [u \in Tasks |-> IF u = t THEN "info" ELSE "off"]
  /\ session = [u \in Tasks |-> 0]

To(t, next) == stage' = [stage EXCEPT ![t] = next]

\* The attempt is over, and its session forgotten.
Leaves(t, next) == To(t, next) /\ session' = [session EXCEPT ![t] = 0]

\* GET info: unreachable, not JSON, another server's fingerprint or no common
\* transport ends the attempt.  What follows a good answer is one step with it:
\* nothing is shared in between.
fetchServerInfo(t) ==
  /\ stage[t] = "info"
  /\ To(t, "failed")
  /\ UNCHANGED <<transport, cached, minted, streams, session>>

\* A ping under the cached session: only a pong keeps it.  opts.session is the
\* first connect's alone.
validateSession(t) ==
  /\ stage[t] = "info" /\ cached # "none"
  /\ \/ /\ cached = "valid"
        /\ session' = [session EXCEPT ![t] = 1]
        /\ To(t, "connect")
     \/ UNCHANGED <<stage, session>>
  /\ cached' = "none"
  /\ UNCHANGED <<transport, minted, streams>>

\* Challenge and auth: the session exists at the server from the moment auth
\* is handled, whether or not the answer comes back.
authenticate(t) ==
  /\ stage[t] = "info" /\ cached = "none" /\ minted < MaxSessions
  /\ minted' = minted + 1
  /\ \/ To(t, "failed") /\ UNCHANGED session
     \/ To(t, "connect") /\ session' = [session EXCEPT ![t] = minted + 1]
  /\ UNCHANGED <<transport, cached, streams>>

\* The stream is opened and its "connected" event awaited.  When that times
\* out the attempt fails and the stream stays open.  HTTP has none.
Connect(t) ==
  /\ stage[t] = "connect"
  /\ IF transport = "http" THEN To(t, "ready") /\ UNCHANGED <<streams, session>>
     ELSE \/ Leaves(t, "failed") /\ UNCHANGED streams
          \/ /\ streams' = streams \cup {session[t]}
             /\ \/ To(t, "ready") /\ UNCHANGED session
                \/ Leaves(t, "failed")
  /\ UNCHANGED <<transport, cached, minted>>

NegotiateStep(t) ==
  \/ fetchServerInfo(t) \/ validateSession(t) \/ authenticate(t) \/ Connect(t)

=============================================================================
