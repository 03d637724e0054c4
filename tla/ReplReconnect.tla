---------------------------- MODULE ReplReconnect ----------------------------
(***************************************************************************)
(* The interactive client (src/src/cli/index.ts with _commands.ts): one    *)
(* loop that runs command lines against the active client, and disconnect  *)
(* handlers, that connect again in the background.  Both replace the       *)
(* active client, and both restore the working directory without waiting.  *)
(*                                                                         *)
(* A client is named by its session.  A command is "run", one call (an     *)
(* eval, an exec, a file operation), or "cd", a stat followed by the       *)
(* setting of the working directory, here and at the server.               *)
(***************************************************************************)
EXTENDS Negotiate, FiniteSets

CONSTANTS
  Loop,       \* the command loop, which also starts the program
  Handlers,   \* runs of disconnect handlers that may be under way at once
  Attempts,   \* attempts of one reconnect (5 in the code)
  Root, Dest  \* working directories: the server's own, and where cd goes

ASSUME ReplAssumption ==
  /\ Tasks = Handlers \cup {Loop} /\ Loop \notin Handlers
  /\ IsFiniteSet(Handlers)
  /\ Attempts \in Nat \ {0} /\ MaxSessions \in Nat \ {0}
  /\ Root # Dest

Clients == 1..MaxSessions

VARIABLES
  at,         \* the loop: "start", "prompt", "busy", "setting", "reconnecting", "over"
  command,    \* "run" or "cd"
  target,     \* the client the command was given, or 0
  retrying,   \* the command is being retried
  replied,    \* the server has answered the call the loop waits for
  first,      \* the client main closes in the end
  active,     \* activeClient
  watchers,   \* disconnect handlers registered on each client
  attempt,    \* of each task
  closing,
  cwd,        \* the working directory shown in the prompt
  remoteCwd,  \* the working directory of each session
  setting,    \* cwd.set requests under way, <<client, path>>
  missed,     \* history: since the active client was taken its cwd.get failed, a
              \* cwd.set for it failed or was lost, two were under way at once, or
              \* the one of a cd went to a client already replaced
  ownRetry,   \* history: the loop has reconnected by itself
  unheard     \* history: clients in use or about to be, whose stream broke with
              \* no handler there

loopVars == <<at, command, target, retrying, replied, first>>
cwdVars == <<cwd, remoteCwd, setting, missed>>
historyVars == <<ownRetry, unheard>>
clientVars == <<active, watchers, closing, historyVars>>
vars == <<negotiateVars, loopVars, cwdVars, clientVars, attempt>>

\* main, or the web terminal with a session of its local storage, connects.
Init ==
  /\ NegotiateInit(Loop)
  /\ at = "start" /\ command = "run" /\ target = 0 /\ retrying = FALSE
  /\ replied = FALSE /\ first = 0 /\ active = 0
  /\ watchers = [c \in Clients |-> 0]
  /\ attempt = [t \in Tasks |-> 1]
  /\ closing = FALSE /\ ownRetry = FALSE /\ unheard = {}
  /\ cwd = Root /\ setting = {} /\ missed = FALSE
  /\ remoteCwd \in {[c \in Clients |-> IF c = 1 THEN p ELSE Root] :
                      p \in IF cached = "valid" THEN {Root, Dest} ELSE {Root}}

\* client.setCwd: a request on its way.  Two for one session may be reordered.
SetCwd(c, path) == setting' = setting \cup {<<c, path>>}
Overlaps(c) == \E s \in setting : s[1] = c

\* The line has been handled.
Prompt ==
  /\ at' = "prompt" /\ command' = "run" /\ target' = 0
  /\ retrying' = FALSE /\ replied' = FALSE

\* A frame of this client can reach it.
Hears(c) == transport = "http" \/ c \in streams

-----------------------------------------------------------------------------
(* Mutants: one plausible slip each.  They are not part of the             *)
(* specification.                                                          *)

\* A reconnect does not restore the working directory.
ReconnectedForgetsCwd(t) ==
  /\ at # "start" /\ stage[t] = "ready"
  /\ active' = session[t]
  /\ unheard' = unheard \ {active}
  /\ Leaves(t, "won") /\ attempt' = [attempt EXCEPT ![t] = 1]
  /\ UNCHANGED <<transport, cached, minted, streams, loopVars, cwdVars,
                 watchers, closing, ownRetry>>

\* The handler registers itself on the client it was registered on.
HandlerRegistersOld(h) ==
  /\ stage[h] = "won"
  /\ To(h, "off")
  /\ UNCHANGED <<transport, cached, minted, streams, session, loopVars, cwdVars,
                 clientVars, attempt>>

\* Having given up, the handler leaves the prompt where it is.
HandlerGivesUpSilently(h) ==
  /\ stage[h] = "gaveUp"
  /\ To(h, "off")
  /\ UNCHANGED <<transport, cached, minted, streams, session, loopVars, cwdVars,
                 clientVars, attempt>>

\* Having given up, the loop goes on without a prompt.
LoopGivesUpSilently ==
  /\ at = "reconnecting" /\ stage[Loop] = "gaveUp"
  /\ To(Loop, "off")
  /\ UNCHANGED <<transport, cached, minted, streams, session, loopVars, cwdVars,
                 clientVars, attempt>>

-----------------------------------------------------------------------------
(* Start and end of the program.                                           *)

\* Connected: the working directory is the session's, if it can be asked.
Started ==
  /\ at = "start" /\ stage[Loop] = "ready"
  /\ at' = "prompt" /\ Leaves(Loop, "off")
  /\ first' = session[Loop] /\ active' = session[Loop]
  /\ watchers' = [watchers EXCEPT ![session[Loop]] = 1]
  /\ \/ cwd' = remoteCwd[session[Loop]] /\ UNCHANGED missed
     \/ missed' = TRUE /\ UNCHANGED cwd
  /\ UNCHANGED <<transport, cached, minted, streams, command, target,
                 retrying, replied, remoteCwd, setting, closing, historyVars, attempt>>

StartFails ==
  /\ at = "start" /\ stage[Loop] = "failed"
  /\ at' = "over" /\ To(Loop, "off")
  /\ UNCHANGED <<transport, cached, minted, streams, session, command, target,
                 retrying, replied, first, cwdVars, clientVars, attempt>>

\* exit, or the end of the input.
Quit ==
  /\ at = "prompt" /\ ~closing
  /\ closing' = TRUE
  /\ UNCHANGED <<negotiateVars, loopVars, cwdVars, active, watchers, historyVars,
                 attempt>>

\* The loop ends, and main closes the client it began with.
End ==
  /\ at = "prompt" /\ closing
  /\ at' = "over"
  /\ streams' = streams \ {first}
  /\ UNCHANGED <<transport, cached, minted, stage, session, command, target,
                 retrying, replied, first, cwdVars, clientVars, attempt>>

-----------------------------------------------------------------------------
(* The command loop.                                                       *)

Line(kind) ==
  /\ at = "prompt" /\ ~closing
  /\ at' = "busy" /\ command' = kind /\ target' = active
  /\ retrying' = FALSE /\ replied' = FALSE
  /\ UNCHANGED <<negotiateVars, first, cwdVars, clientVars, attempt>>

\* The server answers, if it ever does: an exec may run for ever, and a result
\* that cannot be serialised is sent without the id of its call.
Reply ==
  /\ at = "busy" /\ ~replied
  /\ replied' = TRUE
  /\ UNCHANGED <<negotiateVars, at, command, target, retrying, first, cwdVars,
                 clientVars, attempt>>

\* The answer arrives: the end of a run; for cd that of stat, of a directory,
\* after which the local working directory changes before the server's.
Answered ==
  /\ at = "busy" /\ replied /\ Hears(target)
  /\ \/ command = "run" /\ Prompt /\ UNCHANGED <<cwd, setting, missed>>
     \/ /\ command = "cd" /\ at' = "setting" /\ cwd' = Dest
        /\ SetCwd(target, Dest)
        /\ missed' = (missed \/ target # active \/ Overlaps(target))
        /\ replied' = FALSE
        /\ UNCHANGED <<command, target, retrying>>
  /\ UNCHANGED <<negotiateVars, first, remoteCwd,
                 clientVars, attempt>>

\* The cwd.set of cd is answered.
CwdSet ==
  /\ at = "setting" /\ Hears(target) /\ <<target, Dest>> \notin setting
  /\ Prompt
  /\ UNCHANGED <<negotiateVars, first, cwdVars,
                 clientVars, attempt>>

\* An error frame or a refused request is printed.
OtherError ==
  /\ \/ at = "busy" /\ UNCHANGED <<setting, missed>>
     \/ /\ at = "setting" /\ setting' = setting \ {<<target, Dest>>}
        /\ missed' = (missed \/ target = active)
  /\ Prompt
  /\ UNCHANGED <<negotiateVars, first, cwd, remoteCwd,
                 clientVars, attempt>>

\* A connection error, whether or not the server got the request: reconnect,
\* but not for a retry, whose error is printed.
NetworkError ==
  /\ at \in {"busy", "setting"}
  /\ IF retrying THEN Prompt /\ UNCHANGED stage
     ELSE /\ at' = "reconnecting"
          /\ To(Loop, "info")
          /\ replied' = FALSE
          /\ UNCHANGED <<command, target, retrying>>
  /\ UNCHANGED <<transport, cached, minted, streams, session, first, cwdVars,
                 clientVars, attempt>>

\* The loop resumes after its reconnect, with whichever client is active.
Retry ==
  /\ at = "reconnecting" /\ stage[Loop] = "won"
  /\ at' = "busy" /\ target' = active
  /\ retrying' = TRUE /\ replied' = FALSE
  /\ To(Loop, "off")
  /\ UNCHANGED <<transport, cached, minted, streams, session, command, first,
                 cwdVars, clientVars, attempt>>

LoopGivesUp ==
  /\ at = "reconnecting" /\ stage[Loop] = "gaveUp"
  /\ Prompt /\ To(Loop, "off")
  /\ UNCHANGED <<transport, cached, minted, streams, session, first, cwdVars,
                 clientVars, attempt>>

-----------------------------------------------------------------------------
(* reconnect, by whichever task.                                           *)

\* The attempt succeeded: the active client is replaced, and a cwd.set with
\* the local working directory sent after it.
Reconnected(t) ==
  /\ at # "start" /\ stage[t] = "ready"
  /\ active' = session[t]
  /\ SetCwd(session[t], cwd) /\ missed' = Overlaps(session[t])
  /\ ownRetry' = (ownRetry \/ t = Loop)
  /\ unheard' = unheard \ {active}
  /\ Leaves(t, "won") /\ attempt' = [attempt EXCEPT ![t] = 1]
  /\ UNCHANGED <<transport, cached, minted, streams, loopVars, cwd,
                 remoteCwd, watchers, closing>>

\* After the delay, the next attempt; Ctrl-C or the last attempt ends it.
AttemptFailed(t) ==
  /\ at # "start" /\ stage[t] = "failed"
  /\ \/ /\ attempt[t] < Attempts
        /\ attempt' = [attempt EXCEPT ![t] = @ + 1]
        /\ To(t, "info")
     \/ To(t, "gaveUp") /\ attempt' = [attempt EXCEPT ![t] = 1]
  /\ UNCHANGED <<transport, cached, minted, streams, session, loopVars, cwdVars,
                 clientVars>>

\* An event stream breaks: every handler of its client runs, unless the
\* program is closing.
StreamLost(c) ==
  /\ c \in streams
  /\ streams' = streams \ {c}
  /\ watchers' = [watchers EXCEPT ![c] = 0]
  /\ unheard' = IF watchers[c] = 0 /\ (c = active \/ \E t \in Tasks : session[t] = c)
                THEN unheard \cup {c} ELSE unheard
  /\ \E run \in SUBSET {h \in Handlers : stage[h] = "off"} :
       /\ Cardinality(run) = IF closing THEN 0 ELSE watchers[c]
       /\ stage' = [t \in Tasks |-> IF t \in run THEN "info" ELSE stage[t]]
  /\ UNCHANGED <<transport, cached, minted, session, loopVars, cwdVars, active,
                 closing, ownRetry, attempt>>

\* The handler resumes after its reconnect and registers on the client that
\* is active by now.
HandlerRegisters(h) ==
  /\ stage[h] = "won"
  /\ To(h, "off")
  /\ watchers' = [watchers EXCEPT ![active] = @ + 1]
  /\ UNCHANGED <<transport, cached, minted, streams, session, loopVars, cwdVars,
                 active, closing, historyVars, attempt>>

HandlerGivesUp(h) ==
  /\ stage[h] = "gaveUp"
  /\ To(h, "off")
  /\ closing' = TRUE
  /\ UNCHANGED <<transport, cached, minted, streams, session, loopVars, cwdVars,
                 active, watchers, historyVars, attempt>>

-----------------------------------------------------------------------------
(* The server's side of cwd.set.                                           *)

ServeCwd(s) ==
  /\ s \in setting
  /\ setting' = setting \ {s}
  /\ \/ remoteCwd' = [remoteCwd EXCEPT ![s[1]] = s[2]] /\ UNCHANGED missed
     \/ missed' = (missed \/ s[1] = active) /\ UNCHANGED remoteCwd
  /\ UNCHANGED <<negotiateVars, loopVars, cwd, clientVars, attempt>>

Negotiates(t) ==
  /\ NegotiateStep(t)
  /\ UNCHANGED <<loopVars, cwdVars, clientVars, attempt>>

LoopStep ==
  \/ Started \/ StartFails \/ End \/ Answered \/ CwdSet \/ Retry \/ LoopGivesUp

TaskStep(t) ==
  \/ Negotiates(t) \/ Reconnected(t) \/ AttemptFailed(t)
  \/ t \in Handlers /\ (HandlerRegisters(t) \/ HandlerGivesUp(t))

Next ==
  \/ LoopStep \/ Quit \/ Reply \/ OtherError \/ NetworkError
  \/ \E kind \in {"run", "cd"} : Line(kind)
  \/ \E t \in Tasks : TaskStep(t)
  \/ \E c \in Clients : StreamLost(c)
  \/ \E s \in setting : ServeCwd(s)

Spec == Init /\ [][Next]_vars

\* Answers that were sent arrive where there is a stream, the requests of a
\* negotiation and of a cwd.set are answered or fail, timers fire and promises
\* resume.  That a call is ever answered is not assumed; users may go away, and
\* connections hold or break as they like.
FairSpec ==
  /\ Spec
  /\ WF_vars(LoopStep)
  /\ \A t \in Tasks : WF_vars(TaskStep(t))
  /\ WF_vars(\E s \in setting : ServeCwd(s))

-----------------------------------------------------------------------------

\* The prompt tells the truth: with no cwd.set of the active session under way,
\* the working directory shown is that session's, in the middle of a command and
\* of a reconnect too, whatever was lost and retried.  It may be wrong only when,
\* since the active client was taken, its cwd.get or a cwd.set for it failed or
\* was lost, two for it were under way at once, or a cd whose client had been
\* replaced changed the prompt and that client's session; and each of these only
\* until the next reconnect.
CwdAgrees ==
  at \notin {"start", "over"} /\ ~missed /\ (\A s \in setting : s[1] # active)
    => remoteCwd[active] = cwd

\* The active client has one disconnect handler, or one run of it is
\* replacing that client, and no other client has a handler, so that nobody
\* replaces a client that works: as long as the loop has not reconnected by
\* itself.
WatchedOnce ==
  (transport = "sse" /\ at \notin {"start", "over"} /\ ~closing /\ ~ownRetry)
  => /\ watchers[active] + Cardinality({h \in Handlers : stage[h] # "off"}) = 1
     /\ \A c \in Clients \ {active} : watchers[c] = 0

\* A stream that a handler heard break is replaced, or the program gives up.
LostIsReplaced ==
  transport = "sse" /\ at \notin {"start", "over"} /\ active \notin streams
    ~> active \in streams \cup unheard \/ closing

\* A command that the server answers ends, by its answer, an error or one retry,
\* and a reconnect of the loop ends, whatever handlers replace meanwhile: unless
\* the stream that should carry the answer is gone.  Then the loop waits for ever,
\* even when a handler has connected again.
CommandEnds ==
  at \in {"busy", "setting", "reconnecting"}
    ~> \/ at = "prompt"
       \/ at = "busy" /\ ~replied
       \/ at \in {"busy", "setting"} /\ ~Hears(target)

=============================================================================
