---------------------------- MODULE ExecService ----------------------------
(***************************************************************************)
(* The exec capability of one session on the server: routeFrame's exec.req *)
(* and exec.kill (src/src/server/router.ts) with handleExec and            *)
(* handleExecKill (src/src/server/exec/handler.ts), over child processes,  *)
(* which are external: a child emits 'error' and then 'close' when it      *)
(* cannot be spawned, 'close' alone when its leader has exited and both    *)
(* pipes have reached their end, and 'error' when it may not be signalled. *)
(*                                                                         *)
(* No await separates the lookup of the limit from the spawn, so exec.req  *)
(* is one action; every event handler and timer is one.                    *)
(***************************************************************************)
EXTENDS Naturals, Integers, Sequences, FiniteSets

CONSTANTS
  Execs,       \* ids of exec.req frames, never equal
  Forbidden,   \* those the session's scopes do not allow
  Wrapped,     \* those run by "sh -c": other processes may hold the pipes
  Privileged,  \* those the server may not signal (EPERM)
  Limits,      \* values of config.maxConcurrentExec
  MaxChunks,   \* bound on the output of a process
  MaxKills     \* bound on the exec.kill frames for a process

ASSUME ExecAssumption ==
  /\ Forbidden \subseteq Execs
  /\ Wrapped \subseteq Execs
  /\ Privileged \subseteq Execs
  /\ Limits \subseteq Nat
  /\ MaxChunks \in Nat
  /\ MaxKills \in Nat

VARIABLES
  limit,    \* config.maxConcurrentExec
  outcome,  \* what became of each exec.req
  copy,     \* activeExecCount in the session copy of each exec.req
  child,    \* the child process: its leader and its events
  pipes,    \* children whose stdout or stderr is still open
  active,   \* keys of activeProcesses
  log,      \* frames given to the callbacks of each exec
  kills,    \* how many exec.kill frames have named each exec
  timers,   \* pending SIGKILL timers of each exec
  doomed,   \* children SIGKILL was delivered to
  killed    \* history: execs a SIGTERM or SIGKILL frame was accepted for

vars == <<limit, outcome, copy, child, pipes, active, log, kills, timers,
          doomed, killed>>

\* The document a lookup parses has the activeExecCount create wrote: nothing
\* saves a session after an exec.
StoredCount == 0

Signals == {"SIGTERM", "SIGKILL", "SIGINT"}

Init ==
  /\ limit \in Limits
  /\ outcome = [e \in Execs |-> "none"]
  /\ copy = [e \in Execs |-> StoredCount]
  /\ child = [e \in Execs |-> "none"]
  /\ pipes = {}
  /\ active = {}
  /\ log = [e \in Execs |-> <<>>]
  /\ kills = [e \in Execs |-> 0]
  /\ timers = [e \in Execs |-> 0]
  /\ doomed = {}
  /\ killed = {}

Emit(e, type) == log' = [log EXCEPT ![e] = Append(@, type)]

Exits(e) == {i \in 1..Len(log[e]) : log[e][i] = "exit"}

\* The handler of 'close' and 'error', with the onExit wrapper of routeFrame.
ReportExit(e) ==
  /\ active' = active \ {e}
  /\ copy' = [copy EXCEPT ![e] = @ - 1]
  /\ Emit(e, "exit")

\* proc.kill(signal).  An unsignalled leader that may not be signalled makes
\* the child emit 'error' before kill returns; one that is gone ignores it.
Signal(e, signal) ==
  \/ /\ child[e] = "alive"
     /\ e \in Privileged
     /\ ReportExit(e)
     /\ UNCHANGED doomed
  \/ /\ child[e] = "alive"
     /\ e \notin Privileged
     /\ doomed' = IF signal = "SIGKILL" THEN doomed \cup {e} ELSE doomed
     /\ UNCHANGED <<active, copy, log>>
  \/ /\ child[e] # "alive"
     /\ UNCHANGED <<active, copy, log, doomed>>

-----------------------------------------------------------------------------
(* Mutants: one plausible slip each.  They are not part of the             *)
(* specification.                                                          *)

\* 'exit' in the place of 'close': the pipes may still hold output.
CloseOnExit(e) ==
  /\ child[e] \in {"dead", "errored"}
  /\ child' = [child EXCEPT ![e] = "closed"]
  /\ ReportExit(e)
  /\ UNCHANGED <<limit, outcome, pipes, kills, timers, doomed, killed>>

\* exec.kill takes the process out of the registry.
KillForgets(e, signal) ==
  /\ kills[e] < MaxKills
  /\ kills' = [kills EXCEPT ![e] = @ + 1]
  /\ e \in active
  /\ active' = active \ {e}
  /\ doomed' = IF signal = "SIGKILL" THEN doomed \cup {e} ELSE doomed
  /\ UNCHANGED <<limit, outcome, copy, child, pipes, log, timers, killed>>

\* exec.kill without the fallback timer.
KillOnce(e, signal) ==
  /\ kills[e] < MaxKills
  /\ kills' = [kills EXCEPT ![e] = @ + 1]
  /\ e \in active
  /\ Signal(e, signal)
  /\ killed' = IF signal = "SIGINT" THEN killed ELSE killed \cup {e}
  /\ UNCHANGED <<limit, outcome, child, pipes, timers>>

\* A failed spawn leaves its session count to the process that never ran.
SpawnErrorTwice(e) ==
  /\ child[e] = "failed"
  /\ child' = [child EXCEPT ![e] = "errored"]
  /\ active' = active \ {e}
  /\ copy' = [copy EXCEPT ![e] = @ - 2]
  /\ Emit(e, "exit")
  /\ UNCHANGED <<limit, outcome, pipes, kills, timers, doomed, killed>>

-----------------------------------------------------------------------------

\* exec.req refused: FORBIDDEN, or LIMIT_EXCEEDED by the request's own copy.
Refuse(e) ==
  /\ outcome[e] = "none"
  /\ \/ /\ e \in Forbidden
        /\ outcome' = [outcome EXCEPT ![e] = "FORBIDDEN"]
     \/ /\ e \notin Forbidden
        /\ copy[e] >= limit
        /\ outcome' = [outcome EXCEPT ![e] = "LIMIT_EXCEEDED"]
  /\ UNCHANGED <<limit, copy, child, pipes, active, log, kills, timers, doomed,
                 killed>>

\* exec.req accepted: the copy is counted up and the process spawned; spawn
\* may fail later, by an event, or at once, by an exception.
Start(e) ==
  /\ outcome[e] = "none"
  /\ e \notin Forbidden
  /\ copy[e] < limit
  /\ copy' = [copy EXCEPT ![e] = @ + 1]
  /\ \/ /\ outcome' = [outcome EXCEPT ![e] = "started"]
        /\ child' = [child EXCEPT ![e] = "alive"]
        /\ pipes' = pipes \cup {e}
        /\ active' = active \cup {e}
     \/ /\ outcome' = [outcome EXCEPT ![e] = "started"]
        /\ child' = [child EXCEPT ![e] = "failed"]
        /\ active' = active \cup {e}
        /\ UNCHANGED pipes
     \/ /\ outcome' = [outcome EXCEPT ![e] = "threw"]
        /\ UNCHANGED <<child, pipes, active>>
  /\ UNCHANGED <<limit, log, kills, timers, doomed, killed>>

\* 'data' on a pipe, from the leader or whoever inherited it.
Data(e) ==
  /\ e \in pipes
  /\ Len(log[e]) - Cardinality(Exits(e)) < MaxChunks
  /\ Emit(e, "out")
  /\ UNCHANGED <<limit, outcome, copy, child, pipes, active, kills, timers,
                 doomed, killed>>

\* The leader exits, by itself or by a signal.
LeaderExits(e) ==
  /\ child[e] = "alive"
  /\ child' = [child EXCEPT ![e] = "dead"]
  /\ UNCHANGED <<limit, outcome, copy, pipes, active, log, kills, timers,
                 doomed, killed>>

\* Both pipes reach their end: nobody holds them any more.
PipesEnd(e) ==
  /\ e \in pipes
  /\ pipes' = pipes \ {e}
  /\ UNCHANGED <<limit, outcome, copy, child, active, log, kills, timers,
                 doomed, killed>>

\* 'close', which also follows the 'error' of a failed spawn.
Close(e) ==
  /\ \/ /\ child[e] = "dead"
        /\ e \notin pipes
        /\ child' = [child EXCEPT ![e] = "closed"]
     \/ /\ child[e] = "errored"
        /\ child' = [child EXCEPT ![e] = "gone"]
  /\ ReportExit(e)
  /\ UNCHANGED <<limit, outcome, pipes, kills, timers, doomed, killed>>

\* 'error' of a process that could not be spawned.
SpawnError(e) ==
  /\ child[e] = "failed"
  /\ child' = [child EXCEPT ![e] = "errored"]
  /\ ReportExit(e)
  /\ UNCHANGED <<limit, outcome, pipes, kills, timers, doomed, killed>>

\* exec.kill for a process that is not active: NOT_FOUND.
KillNotFound(e) ==
  /\ kills[e] < MaxKills
  /\ kills' = [kills EXCEPT ![e] = @ + 1]
  /\ e \notin active
  /\ UNCHANGED <<limit, outcome, copy, child, pipes, active, log, timers,
                 doomed, killed>>

\* exec.kill: the signal, and after a SIGTERM the timer for SIGKILL.
Kill(e, signal) ==
  /\ kills[e] < MaxKills
  /\ kills' = [kills EXCEPT ![e] = @ + 1]
  /\ e \in active
  /\ Signal(e, signal)
  /\ timers' = IF signal = "SIGTERM" THEN [timers EXCEPT ![e] = @ + 1]
               ELSE timers
  /\ killed' = IF signal = "SIGINT" THEN killed ELSE killed \cup {e}
  /\ UNCHANGED <<limit, outcome, child, pipes>>

\* Five seconds later: SIGKILL, if the id is still active.
TimerFires(e) ==
  /\ timers[e] > 0
  /\ timers' = [timers EXCEPT ![e] = @ - 1]
  /\ \/ e \in active /\ Signal(e, "SIGKILL")
     \/ e \notin active /\ UNCHANGED <<active, copy, log, doomed>>
  /\ UNCHANGED <<limit, outcome, child, pipes, kills, killed>>

Next ==
  \E e \in Execs :
    \/ Refuse(e) \/ Start(e)
    \/ Data(e) \/ LeaderExits(e) \/ PipesEnd(e) \/ Close(e) \/ SpawnError(e)
    \/ KillNotFound(e) \/ TimerFires(e)
    \/ \E signal \in Signals : Kill(e, signal)

Spec == Init /\ [][Next]_vars

\* Events and timers are delivered, a leader that got SIGKILL exits, and the
\* pipes of a process without a shell end with it.  Nothing makes a process
\* exit by itself or obey SIGTERM.
FairSpec ==
  /\ Spec
  /\ \A e \in Execs :
       /\ WF_vars(Close(e)) /\ WF_vars(SpawnError(e)) /\ WF_vars(TimerFires(e))
       /\ WF_vars(e \in doomed /\ LeaderExits(e))
       /\ WF_vars(e \notin Wrapped /\ child[e] = "dead" /\ PipesEnd(e))

-----------------------------------------------------------------------------

\* Types; a request's copy is counted down once more than up at worst.
TypeOK ==
  /\ limit \in Limits
  /\ outcome \in [Execs -> {"none", "FORBIDDEN", "LIMIT_EXCEEDED", "threw",
                            "started"}]
  /\ copy \in [Execs -> -1..1]
  /\ child \in [Execs -> {"none", "alive", "dead", "failed", "errored",
                          "closed", "gone"}]
  /\ pipes \in SUBSET Execs
  /\ active \in SUBSET Execs
  /\ log \in [Execs -> Seq({"out", "exit"})]
  /\ kills \in [Execs -> 0..MaxKills]
  /\ timers \in [Execs -> 0..MaxKills]
  /\ doomed \in SUBSET Execs
  /\ killed \in SUBSET Execs

\* activeProcesses holds exactly the processes that were started and whose
\* exit was not reported: exec.kill finds a process as long as its client
\* still waits for it, and NOT_FOUND means it no longer does, or that the
\* exec.req has not been handled.
ActiveUntilReported ==
  \A e \in Execs :
    e \in active <=> outcome[e] = "started" /\ Exits(e) = {}

\* Whatever kills and timers race with its end, an exec that was spawned and
\* can be signalled reports its exit once, after the last of its output, and
\* only when no process holds its pipes.
OrderlyExit ==
  \A e \in Execs \ Privileged :
    /\ Exits(e) # {} =>
         e \notin pipes /\ child[e] \in {"closed", "errored", "gone"}
    /\ child[e] = "closed" => Exits(e) = {Len(log[e])}

\* exec.kill ends a process the server may signal: a SIGTERM, obeyed or
\* ignored, leads to the report of its exit, or the shell is dead and only its
\* descendants hold the pipes that the report waits for.
KillEnds ==
  \A e \in Execs \ Privileged :
    e \in killed ~> \/ Exits(e) # {}
                    \/ e \in Wrapped /\ child[e] = "dead" /\ e \in pipes

\* types.ts:198, "Max concurrent exec processes per session".
LimitRespected ==
  Cardinality({e \in Execs : child[e] = "alive"}) <= limit

=============================================================================
