------------------------------ MODULE ExecHandle ------------------------------
(***************************************************************************)
(* The client's handle of one exec (ExecHandle in src/src/client/          *)
(* client.ts): frames and a failed send write to it, iterators over its    *)
(* output and calls of wait() read it, and park in one list of waiters     *)
(* that every write empties.                                               *)
(*                                                                         *)
(* A woken reader continues in a later microtask: several frames of one    *)
(* network chunk may be dispatched before it looks.                        *)
(***************************************************************************)
EXTENDS Naturals, Sequences

CONSTANTS
  Iterators,  \* for-await loops over stdout, stderr or output
  Filter,     \* the kinds of chunk each of them takes
  Waits,      \* calls of wait()
  MaxChunks   \* bound on the chunks a process writes

Kinds == {"stdout", "stderr"}

ASSUME HandleAssumption ==
  /\ Filter \in [Iterators -> SUBSET Kinds]
  /\ Iterators \cap Waits = {}
  /\ MaxChunks \in Nat \ {0}

Readers == Iterators \cup Waits

VARIABLES
  transport,  \* "sse" or "http"
  listening,  \* streamHandlers has the id
  sent,       \* transport.send(): "pending", "ok" or "failed"
  chunks,     \* kind of each chunk
  exited,     \* exitResult is set
  error,      \* "none", "frame" or "send"
  done,
  waiters,    \* readers whose resolver is in the list
  at,         \* of each reader: "idle", "parked", "woken" or "ended"
  cursor,     \* of each iterator
  got,        \* positions of the chunks each iterator has yielded
  outcome     \* of each wait

channelVars == <<transport, listening, sent>>
outputVars == <<chunks, exited, error, done>>
readerVars == <<cursor, got, outcome>>
handleVars == <<channelVars, outputVars, waiters, at, readerVars>>

\* exec() registers the handler and starts the send before it returns.
HandleInit ==
  /\ transport \in {"sse", "http"}
  /\ listening = TRUE
  /\ sent = "pending"
  /\ chunks = <<>>
  /\ exited = FALSE
  /\ error = "none"
  /\ done = FALSE
  /\ waiters = {}
  /\ at = [r \in Readers |-> "idle"]
  /\ cursor = [i \in Iterators |-> 0]
  /\ got = [i \in Iterators |-> <<>>]
  /\ outcome = [w \in Waits |-> "none"]

-----------------------------------------------------------------------------
(* Mutants: one plausible slip each.  They are not part of the             *)
(* specification.                                                          *)

\* One waiter is shifted off the list instead of all of them.
NotifyOne ==
  IF waiters = {} THEN UNCHANGED <<waiters, at>>
  ELSE \E r \in waiters : /\ waiters' = waiters \ {r}
                          /\ at' = [at EXCEPT ![r] = "woken"]

\* The dispatcher forgets to remove the handler.
StopKeeps == UNCHANGED listening

\* done is tested before the chunks are.
NextDoneFirst(i) ==
  /\ at[i] \in {"idle", "woken"}
  /\ at' = [at EXCEPT ![i] = IF done THEN "ended"
                             ELSE IF cursor[i] < Len(chunks) THEN "idle"
                             ELSE "parked"]
  /\ IF ~done /\ cursor[i] < Len(chunks)
     THEN /\ cursor' = [cursor EXCEPT ![i] = @ + 1]
          /\ got' = IF chunks[cursor[i] + 1] \in Filter[i]
                    THEN [got EXCEPT ![i] = Append(@, cursor[i] + 1)] ELSE got
     ELSE UNCHANGED <<cursor, got>>
  /\ waiters' = IF at'[i] = "parked" THEN waiters \cup {i} ELSE waiters
  /\ UNCHANGED <<channelVars, outputVars, outcome>>

-----------------------------------------------------------------------------

\* Every parked reader is woken, in the list the iterators captured.
_notify ==
  /\ waiters' = {}
  /\ at' = [r \in Readers |-> IF r \in waiters THEN "woken" ELSE at[r]]

\* The dispatcher drops the handler with the exit or the error frame.
Stop == listening' = FALSE

\* An output frame; the buffered exec of the HTTP transport sends none.
OutFrame(kind) ==
  /\ listening /\ transport = "sse" /\ Len(chunks) < MaxChunks
  /\ chunks' = Append(chunks, kind)
  /\ _notify
  /\ UNCHANGED <<channelVars, exited, error, done, readerVars>>

\* The exit frame, which over HTTP carries the output.
ExitFrame ==
  /\ listening
  /\ exited' = TRUE
  /\ chunks' = IF transport = "http" THEN chunks \o <<"stdout", "stderr">>
               ELSE chunks
  /\ done' = TRUE
  /\ Stop
  /\ _notify
  /\ UNCHANGED <<transport, sent, error, readerVars>>

\* An error frame: a refused exec, a kill that found no process, or the
\* timeout of the buffered exec.
ErrorFrame ==
  /\ listening
  /\ error' = "frame"
  /\ done' = TRUE
  /\ Stop
  /\ _notify
  /\ UNCHANGED <<transport, sent, chunks, exited, readerVars>>

\* The answer to the send: over HTTP it is the last frame itself.
SendResolves ==
  /\ sent = "pending"
  /\ transport = "http" => ~listening
  /\ sent' = "ok"
  /\ UNCHANGED <<transport, listening, outputVars, waiters, at, readerVars>>

\* The send is refused, or its answer lost or aborted; frames may have come
\* and, over SSE, may still come.
_onError ==
  /\ sent = "pending"
  /\ transport = "http" => listening
  /\ sent' = "failed"
  /\ listening' = (listening /\ transport = "sse")
  /\ error' = "send"
  /\ done' = TRUE
  /\ _notify
  /\ UNCHANGED <<transport, chunks, exited, readerVars>>

\* The scan of an iterator passes the chunks up to j without taking any.
Passes(i, j) == \A k \in cursor[i] + 1..j : chunks[k] \notin Filter[i]

Park(r) ==
  /\ at' = [at EXCEPT ![r] = "parked"]
  /\ waiters' = waiters \cup {r}

\* next() of an iterator, from its call or from where it awaited: the next chunk
\* it takes, or the end.
Next_(i) ==
  /\ at[i] \in {"idle", "woken"}
  /\ \/ \E j \in cursor[i] + 1..Len(chunks) :
          /\ Passes(i, j - 1) /\ chunks[j] \in Filter[i]
          /\ cursor' = [cursor EXCEPT ![i] = j]
          /\ got' = [got EXCEPT ![i] = Append(@, j)]
          /\ at' = [at EXCEPT ![i] = "idle"]
          /\ UNCHANGED waiters
     \/ /\ Passes(i, Len(chunks))
        /\ cursor' = [cursor EXCEPT ![i] = Len(chunks)]
        /\ IF done THEN at' = [at EXCEPT ![i] = "ended"] /\ UNCHANGED waiters
           ELSE Park(i)
        /\ UNCHANGED got
  /\ UNCHANGED <<channelVars, outputVars, outcome>>

\* wait(), from its call or from where it awaited.
Wait(w) ==
  /\ at[w] \in {"idle", "woken"}
  /\ \/ /\ done
        /\ at' = [at EXCEPT ![w] = "ended"]
        /\ outcome' = [outcome EXCEPT ![w] = IF error # "none" THEN error
                                             ELSE "exit"]
        /\ UNCHANGED waiters
     \/ ~done /\ Park(w) /\ UNCHANGED outcome
  /\ UNCHANGED <<channelVars, outputVars, cursor, got>>

HandleNext ==
  \/ \E kind \in Kinds : OutFrame(kind)
  \/ ExitFrame \/ ErrorFrame \/ SendResolves \/ _onError
  \/ \E i \in Iterators : Next_(i)
  \/ \E w \in Waits : Wait(w)

HandleSpec == HandleInit /\ [][HandleNext]_handleVars

\* The microtask queue runs; a loop asks for the next chunk.  Frames and the
\* answer to the send may never come.
HandleFairSpec ==
  /\ HandleSpec
  /\ \A i \in Iterators : WF_handleVars(Next_(i))
  /\ \A w \in Waits : WF_handleVars(Wait(w))

-----------------------------------------------------------------------------

\* No wakeup is lost: a reader that sleeps is in the list, the handle is not
\* done, and there is no chunk it has not looked at, whatever was dispatched
\* between its wakeup and its turn.
ParkedSeesNothing ==
  \A r \in Readers : at[r] = "parked" =>
    /\ r \in waiters
    /\ ~done
    /\ r \in Iterators => cursor[r] = Len(chunks)

\* An iterator yields every chunk of its kinds it has passed, once and in
\* order; a loop that ended has passed all the output the handle will ever
\* hold, unless the send failed while frames were still coming.
IteratorsExact ==
  \A i \in Iterators :
    /\ \A j, k \in 1..Len(got[i]) : j < k => got[i][j] < got[i][k]
    /\ {got[i][k] : k \in 1..Len(got[i])}
         = {j \in 1..cursor[i] : chunks[j] \in Filter[i]}
    /\ at[i] = "ended" /\ sent # "failed" => cursor[i] = Len(chunks)

\* A wait ends with an outcome, and all waits of a handle with the same one,
\* however late they are called: only a send that fails after the exit can
\* tell the later ones otherwise.
WaitsAgree ==
  \A w, x \in Waits : at[w] = "ended" /\ at[x] = "ended" =>
    /\ outcome[w] # "none"
    /\ sent # "failed" => outcome[w] = outcome[x]

\* When the handle is done every loop ends and every wait settles.
ReadersFinish == \A r \in Readers : done ~> at[r] = "ended"

=============================================================================
