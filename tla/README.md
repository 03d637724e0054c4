# xjdp: a verification project

xjdp (RJDP) gives an authenticated client eval, exec and file access to a running
JavaScript server. This directory holds TLA+ models of its protocol core, the TLC runs
that check them on small instances, and TLAPS proofs of the results that hold for every
instance. Paths are relative to the repository; the source is under `src/src/`.

## The system

| Component | Source | State | Operations | Talks to |
| --- | --- | --- | --- | --- |
| Key/value storage | `server/_storage.ts`, `types.ts` | map of key to value and expiry | get, set with ttl, delete | called by nonces and sessions; may be external and shared by several instances |
| Handshake | `server/auth/handler.ts`, `_nonce.ts`, `_crypto.ts` | nonces in the store, ACL | challenge, auth | storage, Web Crypto |
| Sessions | `server/auth/_session.ts` | session documents in the store | create, get, save (delete, hasScope: never called) | storage |
| Dispatch | `server/handler.ts`, `server/router.ts` | none of its own; a session copy per request | route by path, check scope, route by frame type | everything below |
| Exec service | `server/exec/handler.ts` | `activeProcesses`, child processes, timers, the copy's `activeExecCount` | exec.req, exec.kill | callbacks of the transport |
| SSE transport, server | `server/transport/sse.ts` | `sseConnections`, the streams' queues | stream, cancel, send, push | exec callbacks |
| HTTP transport, server | `server/transport/http.ts` | `execBuffers`, timeouts | invoke, poll | exec callbacks |
| Fs service | `server/fs/handler.ts`, `_jail.ts` | the file system | read, write, list, delete, stat, mkdir, rename | the file system, shared with every other request |
| Eval, sysinfo | `server/eval`, `server/sysinfo` | none | one frame, one reply | the runtime, the operating system |
| Client core | `client/client.ts` | pending frames, stream handlers, `ExecHandle` chunks and waiters | eval, exec, fs, cwd, kill | a client transport |
| Client transports | `client/transport/*.ts` | the open stream; polling cursors | connect, send, read loop, polling, close | the server's routes |
| Negotiation | `client/_negotiate.ts` | cached session | info, challenge, auth, choice of transport | the server's routes |
| REPL | `cli/index.ts`, `cli/_commands.ts` | active client, local cwd, flags | command loop, disconnect handler, reconnect, retry | client core |
| Web terminal | `cli/web.ts` | the line, the history, who waits for whom | keys, completion, prompt, next, close | REPL |
| Rendering, playground | `cli/_banner.ts`, `_format.ts`, `playground/` | none | layout | REPL, server |

What is hard here is concurrency through `await`: the server is one thread, and every
await (a storage call, a body being read, a signature being verified) lets another
request, a child process event, a timer or a stream callback run, while the code goes on
with what it read before. Storage calls can fail, and an external store is shared by
instances that really run in parallel. On the wire, each frame is a request of its own,
so requests overtake each other; streams are replaced by reconnects; answers to polls
are lost and reordered. The full list, each entry at its line, is `hazards` in
`PROJECT.json`.

What makes each component correct, in a line: a nonce is spent by every attempt, and a
session is earned; a session is neither lost early nor kept late, and its working
directory reads and writes atomically; a process is killable until its exit is reported,
which happens once, after its output; the stream that is registered can take frames, and
output is never missing its middle; an exec over HTTP is answered while the server is up,
and a client that polls gets everything and stops; what a handle reports is complete, and
every reader of it sees all of it and wakes; a client that is lost is replaced once, and
prompt and session agree on the working directory; both ends give a path one meaning, and
an answer about it is true; the line on the screen is the line that will be entered.

## The modules

| Module | Models | Composes | Proofs |
| --- | --- | --- | --- |
| `Storage` | the expiry rule of the store | | |
| `NonceAuth` | challenge and auth, await by await | `Storage` | `NonceAuthProofs` |
| `SessionLease` | abstract: a cell on a lease | | |
| `SessionStore` | sessions with cwd.get and cwd.set | `Storage`; implements `SessionLease` | `SessionStoreProofs` |
| `SseServer` | the SSE registry, streams and sends of a session | | `SseServerProofs` |
| `ExecService` | exec.req, exec.kill, child processes and timers | | `ExecProofs` |
| `HttpExec` | buffered exec, the timeout, polling at both ends | `ExecService` | `ExecProofs` |
| `ExecHandle` | iterators and waits over the chunks of one exec | | `ClientProofs` |
| `FrameChannel` | abstract: a channel of frames that may be cut | | `ClientProofs` |
| `SseWire` | events on the wire, and the parser | | `ClientProofs` |
| `ClientCalls` | calls of a client, their requests, the server's answers, the stream back | `SseWire`; implements `FrameChannel` | `ClientProofs` |
| `Negotiate` | one attempt to connect, and what it leaves at the server | | |
| `ReplReconnect` | command loop, disconnect handlers, reconnects, working directory | `Negotiate` | `ReplReconnectProofs` |
| `FsService` | the file operations, await by await, and the names of files | | `FsServiceProofs` |
| `WebReadline` | the line editor, its row of the screen, the hand-over to the loop | | `WebReadlineProofs` |

`MC*` modules instantiate them for TLC. `PROJECT.json` maps every definition to the lines
it stands for. In each module the section "Mutants" holds variants of actions with one
slip each; no specification uses them. Replacing an action by its variant makes the
property it is listed with fail, which shows that the property can tell the difference.

### NonceAuth

`nonceStore` is the store's `nonce:*` keys, with the expiry of each; `pc[r]` is where a
request stands in `handleAuth`. `Challenge` is `handleChallenge`; `AuthBegin` parses the
body; `ConsumeGet` and `ConsumeDelete` are the two awaits of `NonceCache.consume`;
`ImportKey` is the import, the fingerprint and the ACL lookup; `VerifySignature` and
`CreateSession` are the rest. `StorageFails` lets the call a request is waiting for
reject, with or without its effect. Of a body the model keeps the nonce, the key and
what is wrong with it. Challenges do not reuse nonces (32 random bytes), and a request
carries a nonce that was issued: any other fails in `ConsumeGet` the same way as one
that has lapsed. `together` remembers which requests were between the get and the delete of
one nonce at the same time (`Rivals`); `wildcard` is the ACL's "*" entry, of which a run
covers its being absent and present.

### SessionStore and SessionLease

`entries` is the store's `session:*` keys: the document (`cwd`, `expiresAt`) and the
entry's own expiry (`until`). `deadline` is what `create` put in the document. `req[r]`
is a request with the copy of the document it parsed. `Create` and `CreateStored` are
the two sides of the await in `create`; `Lookup`, `Check` and `Drop` those of `get`;
`CwdGet`, `CwdSet` and `Save` are `routeFrame`'s cases with `save`.

The store computes its expiry when it handles the `set`, so `until` may be later than
`expiresAt`; a save that was delayed writes an entry that outlives its document. That is
why the document's own check matters, and why `EntriesExpire` is not immediate.
`SessionLease` says what this amounts to: while the lease is live no request is refused,
after it none is admitted, every read and write of the cell is atomic, and only a write
in the lease's last instant (or after) may be skipped. `save` skips when no time is left
(`<=`) whereas `get` still admits (`>`), so a cwd.set in that instant is acknowledged and
not stored: that is the lease's `Skip`.

### SseServer

`registry` is `sseConnections.get(session.id)`; `state` and `queue` are each connection's
`ReadableStream`, which is external: `close()` with a backlog only requests the close,
and `cancel()` runs for any stream that is not closed. `OpenStream` is `handleStream`,
`Cancel` its `cancel`, `SendBegin`, `SendBody` and `Push` are `handleSend` with the
frames it or its process pushes to the controller it captured (`held`).

### ExecService

`child` is what has happened to the process; `pipes` the processes whose stdout or stderr
somebody still holds, who may be a descendant of `sh -c` (`Wrapped`); `active` is
`activeProcesses`; `copy` is `activeExecCount` in the request's own session document;
`log` are the frames given to the callbacks. `Close` and `SpawnError` are the 'close' and
'error' handlers, `Kill` and `TimerFires` are `handleExecKill` and its timer. A process
the server may not signal (`Privileged`, EPERM) makes `kill` emit 'error' while it runs.

### HttpExec

Extends `ExecService` with what `handleBufferedExec` adds: the buffer (its chunks are the
"out" entries of `log`), the ten-second timeout (`waiting`) and the promise (`reply`).
`ProcessStep` is any later step of the exec service, with `OnExit` if it reports an exit.
The client's half is `startPolling`: `SendPoll` (the interval fires, whether or not an
answer is outstanding), `ServePoll` (`handlePoll`), `Arrive`, and `LosePoll` (the fetch
rejects before or after the server has handled it). `session` is the client's, which may
lapse at any time (`Expire`): from then on invokes and kills are refused, and a poll is
answered 401, which the client ignores without stopping its interval. When spawn throws,
routeFrame's rejection has no handler, which by default ends the process: `server` goes
"down", or stays up when the host listens for such rejections.

### ExecHandle

`chunks`, `done`, `error` and `waiters` are the fields of the handle; `at[r]` is where a
reader stands: a `wait()`, or a loop over one of the iterators (`Filter` says which kinds
of chunk it takes), called or woken but not yet running, or parked on its promise.
`OutFrame`, `ExitFrame` and `ErrorFrame` are what the dispatcher writes, `_onError` the
rejected send, `_notify` the emptying of the list. A woken reader takes its turn (`Next_`,
`Wait`) after any number of further frames, as microtasks follow the dispatch of a whole
chunk. Over HTTP the answer is the exit frame and carries the output.

### SseWire, FrameChannel and ClientCalls

`wire` is the text on the stream, as tokens: the data of an event and two line feeds.
`_readStream` takes any number of tokens, so a chunk ends anywhere; `buffer` is what it
keeps. `FrameChannel` is the promise: frames come out once, whole and in order, and only a
break loses some, the last. `ClientCalls` puts a client around it. `client` holds its two
maps and what it has told its callers; every request (`Req`, `Kill`) is in `transit`
until the server takes it up, in any order, and one that is lost stays there. `held` is
the stream whose controller a request captured, so that a frame for a stream that was
replaced goes nowhere, as `SseServer` has it. `Lose` breaks the stream; `StreamEnds` is
the end of the fetch reader, `EventSourceError` the browser's reconnect. An eval is a
one-shot call, answered by whichever of its code and its timer settles first.

Two things the server does are not what the client is told. A kill that may not signal its
process makes the child emit 'error': the exit is sent and the process forgotten while it
runs (`denied`, the second case of `ServeKill`); when the process does end, 'close' sends
a second exit, which finds nobody. And an answer JSON cannot write goes out as an error
under no id (`SendGarbled`), which no call recognises (`garbled`). A handle sends one kill
in this model, and a spawn that fails is a process that exits without output.

### Negotiate and ReplReconnect

`Negotiate` is `negotiate` with the connect of the transport, for any `Tasks` that connect
at once; `minted` and `streams` are the server's side, and show what a failed attempt
leaves there: a session whose answer was lost, a stream whose greeting was late.
`ReplReconnect` runs it for the loop and for disconnect handlers. `at`, `command`,
`target` and `retrying` are the loop; `active` is `activeClient`, named by its session;
`watchers` counts the handlers registered on each client; `setting` are the `cwd.set`
requests under way, which `reconnect` sends without waiting and whose failure it ignores.
`replied` says that the server has answered the loop's call (`Reply`), which it need never
do; `Answered` is the arrival of that answer. `missed` is reset by every reconnect: it
says that since the active client was taken its cwd.get or a cwd.set for it failed, that
two for it overlapped, or that a cd spoke to a client already replaced.
`StreamLost` starts the handlers of a client, `Reconnected` replaces the active client
for loop and handler alike.

### FsService

`tree` maps paths to nodes and `data` nodes to blocks; both belong to `node:fs` and are
external. A requester's `op` is its frame and how far its handler has come: `opRead` is
stat, open, sample and readFile; `opWrite` mkdir, open and write; the others are one call
each, and every call may throw. An open file stays the one it is wherever its name is
moved to (`node`), and what others have changed under a request is `touched`. `Request`
takes a path as typed (`Sent`: the command line resolves it, a program sends it as it is)
and answers or begins (`Asked`). `resolve` is the jail's, with both of its checks: what
`realpath` says of a path that exists is an input (`RealPath`), since the tree has no
links. `resolvePath` and `normalize` are the client's, which goes through a path name by
name (`Walk`). Its home and working directory are paths of the server's host
(`process.cwd()`, `os.homedir()`), and the jail looks for their names below its root; so
with a root that is not the top, `cat x` in a directory reads `Root/cwd/x`. `Meant` says
this of a path, and `OfHost` what its user means on the host, both without walking:
`Meaning` keeps the names at the positions that are `Left`, those
whose every continuation has more names than climbs, as a bracket is open until it is
matched.

### WebReadline

`line`, `cursor`, `history` and the two flags (`promptVisible`, `lineResolve`) are the
variables of `createReadlineInterface`; `loop` is what `startRepl` does with the line.
`screen` is the row of the terminal the cursor is on, and each action writes to it what
the code writes: moves, text and blanks (`Put`, `Back`, `Forth`, external). The row has
`Columns` cells. Text that reaches the last goes on in the next row, from which neither
\b nor a move of the cursor comes back; then the editor draws in the wrong place.
`disturbed` says that this has happened since the prompt, or that others have written on
the row, and from then on the row is not followed.

## The runs

| Run | Shows | Bounds |
| --- | --- | --- |
| `NonceAuth` | `AnswerBurnsNonce`, `GrantIsEarned`, `OnlyRacersShare` | 2 nonces, 2 requests, a listed and an unlisted key, with and without a wildcard, ttl 1, clock to 3 |
| `NonceSingleUse` | **violation** of `NonceSingleUse` | 1 nonce, no wildcard, else as above |
| `SessionStore` | `LiveSessionKept`, `EntriesExpire`, implements the lease | 1 session, 3 requests, 2 paths, ttl 2, clock to 5 |
| `SseServer` | `RegistryLive`, `OnlyStaleCancelOrphans`, `GapFree`, `AcceptedDelivered` | 3 connections, 2 sends of 2 frames |
| `ExecService` | `ActiveUntilReported`, `OrderlyExit`, `KillEnds` | 3 execs (in a shell, not signalable, forbidden), 2 chunks, 2 kills each, limits 0 and 1 |
| `ExecLimit` | **violation** of `LimitRespected` | 2 execs, limit 1 |
| `HttpExec` | `NoGap`, `NothingForgotten`, `AnswerComplete`, `ForgetsOnlyRead`, `Answered`, `PollingStops` | 1 exec in a shell, 2 chunks, 1 kill, 2 polls under way at a time, limits 0 and 1 |
| `ExecHandle` | `ParkedSeesNothing`, `IteratorsExact`, `WaitsAgree`, `ReadersFinish` | a loop over stdout, one over all output, 2 waits, 2 chunks, both transports |
| `ClientCalls` | `ExitIsComplete`, `OnlyOvertakenOrphans`, `SettledOnce`, `Answered`, implements the channel | 1 exec with 1 frame of output and a kill, 1 one-shot call, 2 streams, chunks of every size |
| `ReplReconnect` | `CwdAgrees`, `WatchedOnce`, `LostIsReplaced`, `CommandEnds` | a loop and a handler, 3 sessions, 2 attempts, 2 directories |
| `FsService` | `PathsAgree`, `AnswersHold` | 2 requesters, 6 typed paths, 2 working directories, a tree without the root and one with files inside and outside, 3 contents, a read limit of 2 blocks |
| `WebReadline` | `ScreenShows`, `NeverStuck` | 2 characters, lines of 2, a row of 4 columns, history of 2, 2 completions |

The runs of `NonceAuth`, `SessionStore`, `SseServer` and `ExecService` also check their
module's type invariant.

Why the bounds are enough to be interesting. Two auth requests are what a race over a
nonce needs, and the clock passes the ttl while both are in the middle. Three session
requests let a delayed save land after another's lookup and a third's delete; the clock
goes one ttl beyond the deadline. Three connections let a stream be replaced by one that
is itself replaced while the first still drains. Execs meet only in `activeProcesses`,
which is keyed by id, so three kinds side by side cover their interference; two kills
overlap two timers. No exec of that run is both unwrapped and signalable (a fourth exec is
too much for it): that `KillEnds` leads to the report there is not exercised. Two polls
are the smallest number that can overtake each other, and the slots are reused, so a run
has any number of polls; there is one exec because polls of different execs share nothing
but the bound on the slots. Two readers of each sort are what it takes for one to sleep
while another is woken, and two chunks for one to be skipped. A client's calls share
nothing but the stream and the maps keyed by id, so an exec with its kill and one call
cover what they do to each other; the second stream is the one a browser opens by itself.
There is one disconnect handler at a time because the handlers registered and those
running never exceed one: a handler registers again only when it has run. Three sessions
let both tasks replace the client and one of them do it again. Two file requests are what
a race needs; the contents are those whose sample lies about the rest, the paths climb,
stay and fall out of the root, which need not be there at first, and a file next to it is
what climbing would reach. A line of two has a cursor that is neither at its start nor at
its end; a row of four holds it with the prompt, and is too short once output stands
before them.

The name of every bound: `MaxTime` (clock), `MaxChunks` (output of a process), `MaxKills`
(kills of a process), `Events` (frames of a send), `Polls` (polls under way), `MaxOut`
(output frames), `MaxConns` (streams of a client), `MaxSessions`, `Attempts` (five in the
code), `MaxRead` (blocks), `Columns` (width of the
terminal), `MaxLine`, `MaxHistory`, `MaxTabs`. Runs turn
deadlock checking off because these systems stop: clients owe the server nothing, and
the clock and the sets of requests are finite.

### What the violations show

- `NonceSingleUse`: `consume` looks a nonce up and deletes it in two awaits
  (`_nonce.ts:24`). Two requests that are both past the lookup both get a session, where
  `README.md:334` says that nonces are single-use. `OnlyRacersShare` says this is the only
  way to get there.
- `LimitRespected`: `activeExecCount` lives in a per-request copy that is never saved.

### What the models also show

Behaviour the properties state as their exceptions, or that a reader of the actions
will find.

- `cancel()` of a replaced stream that still had a backlog deletes the session's current
  registration (`sse.ts:30`). `OnlyStaleCancelOrphans` says this is the only way a client
  with an open stream is left without one.
- Nothing evicts an unanswered nonce (`_storage.ts:12`). A failed spawn reports an exit for
  'error' and one for 'close' (`exec/handler.ts:150`), and a kill that fails with EPERM
  reports the exit of a process that goes on writing: its client stops listening (`denied`).
- A spawn that throws over HTTP may end the server (`http.ts:64`, no catch); a session that
  expires leaves a client polling for ever (`client/transport/http.ts:51`).
- A result that JSON cannot write comes back under no id (`sse.ts:87`), and its call waits
  for ever on a stream that works (`garbled`).
- A kill that overtakes its exec answers NOT_FOUND; the error ends the handle, and the
  process runs with nobody listening (`overtaken`).
- A call whose answer went with its stream waits for ever, and the prompt with it, even
  when a handler has connected again; so does one whose browser stream moved on.
- A stream that breaks after the connect and before its handler is registered is never
  noticed (`unheard`). The loop's own reconnect registers no handler; the handler of the
  client it replaced stays, and replaces a healthy client when the old stream ends
  (`ownRetry`). Main closes the first of its clients only (`cli/index.ts:386`).
- The working directory is restored without waiting, so a retried command may run in the
  server's own (`missed`, `setting`), and a cd whose client a handler has replaced changes
  the prompt and the session of that client. An expired session is not a connection error
  (`cli/index.ts:410`), so nothing reconnects for it.
- A failed connect leaves its session, and after the timeout its stream, at the server.
- A file that shrinks between stat and sample is sampled as zeros and so is sent as base64
  (`fs/handler.ts:71`); `writeFile` empties a file before it writes; reading a directory
  leaves a file handle open (`fs/handler.ts:70`).
- With an fs root that is not the top of the host, the command line's paths, which start
  from the server's working directory or home, name files below the root and not those of
  the host; `HostPathsAtTheTop` is the case where they are the same.
- In the web terminal, a line longer than the row is drawn wrong once it is edited, and
  what follows Enter in a paste is dropped (`web.ts:237`); ^C clears the line but not the
  place in the history; a completion that comes late goes into whatever line there is
  (`web.ts:263`), and on a row with output before the prompt it is drawn over that output.

## Fairness

- `SseServer`: the runtime drains streams (`Pull`), and an accepted send is carried out
  (`SendBody`, `Push`): Node's event loop. Opening, cancelling and sending are up to the
  client.
- `ExecService`: events and timers are delivered (`Close`, `SpawnError`, `TimerFires`); a
  leader that got SIGKILL exits, and without a shell its pipes end with it: the kernel.
  No process is assumed to exit by itself or to obey SIGTERM.
- `HttpExec`: timers fire (`TimeoutFires`, the polling interval), an answer on its way
  arrives unless it is lost, and not every request is lost on its way: strong fairness of
  `ServePoll`, which is some answer, an error too, since a network that drops every request
  can refute any protocol. Nothing is assumed of the processes, of the session, or of the
  server's staying up.
- `ExecHandle`: the microtask queue runs (`Next_`, `Wait`), and a loop asks for its next
  chunk. Frames and the answer to the send may never come.
- `ClientCalls`: the reader reads and finds the end of a broken stream; an EventSource
  reconnects or gives up; the fetch of a one-shot call settles, one way or the other
  (`Answer` or `NoAnswer`): what the server takes up it answers, an eval within its timer,
  and a request that is lost fails. Requests may be lost and processes may run for ever.
- `ReplReconnect`: an answer that was sent arrives where there is a stream, each
  connecting task goes on, since its fetches settle and its timers fire, and a `cwd.set`
  under way is served or lost. That the server ever answers a command (`Reply`) is not
  assumed, and nothing of users, or of whether connections hold.

`NonceAuth`, `SessionStore`, `FsService` and `WebReadline` have safety properties only.

## The proofs

Each `*Proofs` module states an inductive invariant (`IInv`; `HInv` and `AInv` for
`HttpExec`, `HandleInv` for `ExecHandle`), proves that it holds initially and is preserved
by every action, and derives the theorems. The assumptions are those the modules name
(`NonceAssumption`, `SessionAssumption`, `SseAssumption`, `ExecAssumption`,
`HttpAssumption`, `WireAssumption`, `FsAssumption`, and so on): bounds are natural
numbers, marker values differ from real ones, and `Forever` is beyond the clock.

- `NonceAuthProofs`: `TypeCorrect`, `BurnsNonce`, `EarnsGrant`, `SharesOnlyInRace`. The
  properties are not inductive alone: one must know that a burnt nonce never returns to
  the store (`SpentGone`, because challenges issue only new ones), and what each program
  point implies (`PastConsume`, `PastVerify`). `OnlyRacersShare` adds that two requests
  past the lookup of one nonce, or with its session, have met there (`RacersKnown`): the
  second could not have looked it up once the first had deleted it.
- `SessionStoreProofs`: `TypeCorrect`, `KeepsLiveSessions`, `ExpiresEntries`, and
  `Refines`, the whole refinement of `SessionLease`. The invariant ties every copy and
  every pending write to the deadline `create` chose, and says that a request on its way
  to `Drop` has seen the deadline pass. `Refines` maps each action to a step of the lease
  or a stutter; it covers a ttl of 0, which the run does not.
- `SseServerProofs`: `TypeCorrect`, `RegistersLive`, `OrphansExplained`, `NoGaps`. For the
  last, what a connection has received and what is in its queue are taken together as one
  `Pipe`: a frame in a pipe comes after all the frames of its send before it and once
  (`PipesInTurn`), and as long as its stream is open the pipe holds all that the send has
  produced (`PipesWhole`), so that the next frame is in turn too.
- `ExecProofs`. Of the exec service, `TypeCorrect`, `TracksUntilReported`, `ExitsInOrder`:
  the invariant gives, for each stage of a child, whether it is active, what its copy
  counts and whether it may hold its pipes. Of `HttpExec`, `KeepsService`: an exec over
  HTTP is an exec of the service, by which all of that carries over; on it
  `HttpTypeCorrect` and `PollsWithoutGap`, and `AnswersComplete`, `ForgetsWhatWasRead` and
  `ForgetsNothing`. `NoGap` needs what is known of the polls under way (`PollTied`: a poll
  starts where the client has everything before it, an answer ends at some earlier end of
  the output), and `ForgetsOnlyRead` follows from it. The other two need why a buffer is
  done (`DoneTied`): if not by the timeout, then because the exec was refused or has
  reported its exit, and then, by `OrderlyExit`, nobody holds its pipes, so the output an
  answer or a poll saw is all there will be (`EndTied`). This is where the two components
  need each other: with 'exit' in the place of 'close' it would fail.
- `ClientProofs`, of `ExecHandle`: `SleepsOnNothing`, `YieldsAll`, `WaitsFindTheSame`. The
  first is inductive with the types: a write empties the list of waiters, and since
  whoever is parked is in that list, nobody is parked afterwards. `YieldsAll` adds that
  what an iterator has yielded is its kinds among the chunks up to its cursor (`Taken`),
  and that a loop that ended did so on a handle that was done. The last two need why
  nothing reaches a handle that is done: its dispatcher is gone, unless the send failed
  (`DoneIsFinal`), so that a wait that ended found what a wait would find now
  (`WaitsFinal`).
- `ClientProofs`, of `ClientCalls`: `ExitsComplete`, `ListensToAll`, `SettlesOnce` and
  `WireRefines`. It goes in three parts. First the parser: `Read` of any cut of a text
  that spells some frames gives the first of them, whole, and a rest that with what is
  still on the wire spells the others (`ReadStep`). Then the dispatcher: a chunk of frames
  does to a call what its frames do one after the other (`AllDispatched`; the recursive
  function that `DispatchAll` is written with is shown to exist, by induction over the
  chunk). Then the client: what a handle was given and what is in flight for it before its
  exit, or with its process still running on this stream, is all that was written
  (`Accounted`); the exit is the last thing a process does (`ExitsLast`); a call that is
  settled is out of the maps, except for an exec whose send has failed (`Settled`); and a
  process that runs or may still start is listened to, with nothing in flight that would
  end this, unless its kill came first or was not permitted (`Heard`). A process in
  `denied` is running or has been, and what its handle says is left open. `WireRefines`
  maps each action to a step of `FrameChannel` or a stutter.
- `ReplReconnectProofs`: `PromptTrue` and `OneWatcher`. `CwdAgrees` has to be carried
  through the middle of a `cd` and of a reconnect: a `cwd.set` under way for the active
  session carries the directory shown, and with none under way the session has it
  (`CwdTied`). Both need that whoever connects has a session of his own, which is not the
  active one and which nobody watches (`SessionsApart`), so that replacing the active
  client moves its handler and its directory together.
- `WebReadlineProofs`: `HandsOver`, `ShowsTheLine`. `NeverStuck` is inductive: a key leaves
  the hand-over as it is, hands the line over, or prompts again while the loop waits.
  `ScreenShows` is put cell by cell (`Shows`), and two lemmas say all the terminal does to
  it: moving changes the place only (`Moved`), and writing from the cursor on shows a new
  text if it agrees with the old one before the cursor and what is written covers the rest
  of both (`Redrawn`). That the loop's prompt is right needs `NeverStuck` and that there is
  no line without a prompt. The width is any number: a step that reaches the last column
  ends what is claimed of the row, and one that does not draws as on a row without end.
- `FsServiceProofs`: `NormalizeMeans`, `MeansTheSame`, `HostPathsAtTheTop`, `AnswersTrue`.
  `NormalizeMeans` says that `normalize` computes `Meaning`, for paths of any length. After
  any number of names, what the walk holds is what stands at the positions left so far, in
  order (`Places`), each as many names deep as come after it; so a climb closes exactly the
  last one (`PlacesUp`). With it `MeansTheSame` is what the jail and the client do to one
  path, after another (`ResolveAgrees`), and the denials follow from the two checks and
  what `realpath` was allowed to say. `AnswersTrue` carries what a request knows of its
  path from each of its awaits to the next (`Stands`), as long as nobody else has changed
  what is seen there (`SeenSame`, `Untouched`). A rename moves all that is below a path,
  so that it puts each file where it should be, and nothing else in its place, needs that
  what stands below a path has it as a directory (`TreeTypes`, `RenameTree`).

Induction over natural numbers, where a proof needs it, goes through a lemma on sets of
numbers (`SetInduction`) instead of the library's theorems, which take an operator.

Model-checked only: every liveness property (`AcceptedDelivered`, `KillEnds`, `Answered` of
both modules, `PollingStops`, `ReadersFinish`, `LostIsReplaced`, `CommandEnds`), since
liveness under fairness and ENABLED are out of the prover's reach. Every safety property
that a passing run checks, as an invariant or of steps, is also a theorem.

## Not modelled

- Cryptography is a verdict on a body; key formats and encodings are its flaws.
- The environment, argument quoting and the read-only command pattern decide only whether
  an exec is allowed and whether it runs in a shell. The scope an fs operation needs is a
  static table.
- `transports`, `capabilities` and `maxFrameSize` are advertised or accepted, and nothing
  consults them when a frame is handled; there is no behaviour to model.
- The tree of `FsService` has no symbolic links. That a real path lies outside the root is
  an answer `realpath` may give, and such a request is refused; what an operation does
  behind a link is left out, and with it paths whose last part does not exist yet, which
  the code does not ask `realpath` about. So nothing here says which files of the host
  can change. A recursive delete is one step; open file handles are not counted.
- What an eval does to the server's own state is whatever its code does.
- `SessionStore.delete` and `hasScope` are never called by the server.
- Sysinfo, the banner, formatting, the JavaScript mode, the sources of completion, help
  and option parsing read and print.
- The playground is a deployment: its server passes a store that `Storage` covers, and its
  terminal starts the loop of `ReplReconnect`; the rest is a demo page.

## Plan

What is left, in order.

1. `Negotiate` over `SessionLease`, so that a session expires under the loop.
2. Symbolic links in the tree of `FsService`, so that `realpath` is computed.
3. An exec that is neither wrapped nor privileged in the run of `ExecService`.
