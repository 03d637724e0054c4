---------------------------- MODULE SessionStore ----------------------------
(***************************************************************************)
(* SessionStore (src/src/server/auth/_session.ts) over the Storage         *)
(* interface, with the requests that use it: handleRequest looks a session *)
(* up, and routeFrame's cwd.get and cwd.set read it and write it back      *)
(* (src/src/server/router.ts).                                             *)
(*                                                                         *)
(* A session is a JSON document.  Each lookup parses a copy of its own, a  *)
(* cwd.set changes the copy and stores the whole document again, and both  *)
(* the document and the store entry carry an expiry.  The actions are the  *)
(* code between two awaits; Save and Drop are the effect of the storage    *)
(* call a request is waiting for.  Of the document only cwd and expiresAt  *)
(* are kept: id, fingerprint, ip and scopes never change, and              *)
(* activeExecCount is the subject of ExecService.                          *)
(***************************************************************************)
EXTENDS Storage

CONSTANTS
  Sessions,   \* ids crypto.randomUUID can return, never equal
  Reqs,       \* authenticated requests
  Paths,      \* working directories
  Home,       \* process.cwd() of the server
  NoPath,     \* no working directory
  Ttl,        \* config.sessionTtl; 0 is not replaced by the default
  MaxTime     \* bound on the clock

ASSUME SessionAssumption ==
  /\ Ttl \in Nat
  /\ MaxTime \in Nat
  /\ Forever \in Nat
  /\ Forever >= MaxTime + Ttl
  /\ Home \in Paths
  /\ NoPath \notin Paths
  /\ NoEntry \notin [cwd : Paths, expiresAt : Int, until : Int]

VARIABLES
  now,       \* Date.now()
  entries,   \* the "session:*" keys of the store
  made,      \* how far create has come for each session
  deadline,  \* the expiresAt create gave each session
  req        \* the requests: where they are, their input, copy and answer

vars == <<now, entries, made, deadline, req>>

\* A document with the expiry of its entry.
Entry == [cwd : Paths, expiresAt : 0..(MaxTime + Ttl), until : Nat]

Request == [at : {"idle", "lookup", "check", "drop", "route", "save",
                  "OK", "UNAUTHORIZED", "FAILED"},
            session : Sessions \cup {NoPath},
            path : Paths \cup {NoPath},
            cwd : Paths \cup {NoPath}, expiresAt : 0..(MaxTime + Ttl),
            ttl : Nat]

NoRequest == [at |-> "idle", session |-> NoPath, path |-> NoPath,
              cwd |-> NoPath, expiresAt |-> 0, ttl |-> 0]

\* A cwd.set names a path, a cwd.get does not.
IsSet(r) == req[r].path # NoPath

Init ==
  /\ now = 0
  /\ entries = [s \in Sessions |-> NoEntry]
  /\ made = [s \in Sessions |-> "no"]
  /\ deadline = [s \in Sessions |-> 0]
  /\ req = [r \in Reqs |-> NoRequest]

Goto(r, label) == req' = [req EXCEPT ![r].at = label]

\* storage.set of a session document.
Put(s, cwd, expiresAt, ttl) ==
  entries' = [entries EXCEPT ![s] =
    [cwd |-> cwd, expiresAt |-> expiresAt, until |-> ExpiryFor(ttl, now)]]

\* storage.delete of a session document.
Remove(s) == entries' = [entries EXCEPT ![s] = NoEntry]

-----------------------------------------------------------------------------
(* Mutants: one plausible slip each.  They are not part of the             *)
(* specification.                                                          *)

\* save without its early return: a session out of time is saved as well.
SaveAlways(r) ==
  /\ req[r].at = "route"
  /\ IsSet(r)
  /\ req' = [req EXCEPT ![r].at = "save", ![r].cwd = req[r].path,
                        ![r].ttl = req[r].expiresAt - now]
  /\ UNCHANGED <<now, entries, made, deadline>>

\* A save restarts the session's clock.
SaveRenews(r) ==
  /\ req[r].at = "save"
  /\ Put(req[r].session, req[r].cwd, now + Ttl, Ttl)
  /\ Goto(r, "OK")
  /\ UNCHANGED <<now, made, deadline>>

\* An expired session is only looked for in the store, not in the document.
CheckNothing(r) ==
  /\ req[r].at = "check"
  /\ Goto(r, "route")
  /\ UNCHANGED <<now, entries, made, deadline>>

-----------------------------------------------------------------------------

\* create: the document is built, its expiry taken from the clock ...
Create(s) ==
  /\ made[s] = "no"
  /\ made' = [made EXCEPT ![s] = "storing"]
  /\ deadline' = [deadline EXCEPT ![s] = now + Ttl]
  /\ UNCHANGED <<now, entries, req>>

\* ... and stored, with a ttl counted from the moment the store sees it.
CreateStored(s) ==
  /\ made[s] = "storing"
  /\ Put(s, Home, deadline[s], Ttl)
  /\ made' = [made EXCEPT ![s] = "open"]
  /\ UNCHANGED <<now, deadline, req>>

CreateFails(s) ==
  /\ made[s] = "storing"
  /\ made' = [made EXCEPT ![s] = "failed"]
  /\ \/ UNCHANGED entries
     \/ Put(s, Home, deadline[s], Ttl)
  /\ UNCHANGED <<now, deadline, req>>

\* A request arrives with the id of a session a client was given, maybe long
\* ago: clients cache their session.
Begin(r) ==
  /\ req[r].at = "idle"
  /\ \E s \in Sessions, p \in Paths \cup {NoPath} :
       /\ made[s] = "open"
       /\ req' = [req EXCEPT ![r] =
                    [at |-> "lookup", session |-> s, path |-> p,
                     cwd |-> NoPath, expiresAt |-> 0, ttl |-> 0]]
  /\ UNCHANGED <<now, entries, made, deadline>>

\* get, first await: storage.get, which removes an entry past its expiry.
Lookup(r) ==
  LET e == entries[req[r].session] IN
  /\ req[r].at = "lookup"
  /\ \/ /\ e = NoEntry
        /\ Goto(r, "UNAUTHORIZED")
        /\ UNCHANGED entries
     \/ /\ e # NoEntry
        /\ Lapsed(e.until, now)
        /\ Goto(r, "UNAUTHORIZED")
        /\ Remove(req[r].session)
     \/ /\ e # NoEntry
        /\ ~Lapsed(e.until, now)
        /\ req' = [req EXCEPT ![r].at = "check", ![r].cwd = e.cwd,
                              ![r].expiresAt = e.expiresAt]
        /\ UNCHANGED entries
  /\ UNCHANGED <<now, made, deadline>>

\* get, continued: the document's own expiry.
Check(r) ==
  /\ req[r].at = "check"
  /\ \/ now > req[r].expiresAt /\ Goto(r, "drop")
     \/ now <= req[r].expiresAt /\ Goto(r, "route")
  /\ UNCHANGED <<now, entries, made, deadline>>

\* get, second await: the expired document is deleted.
Drop(r) ==
  /\ req[r].at = "drop"
  /\ Remove(req[r].session)
  /\ Goto(r, "UNAUTHORIZED")
  /\ UNCHANGED <<now, made, deadline>>

\* The body has been read: cwd.get answers from the copy.
CwdGet(r) ==
  /\ req[r].at = "route"
  /\ ~IsSet(r)
  /\ Goto(r, "OK")
  /\ UNCHANGED <<now, entries, made, deadline>>

\* cwd.set changes the copy; save computes the time left and gives up, without
\* an error, when none is.
CwdSet(r) ==
  /\ req[r].at = "route"
  /\ IsSet(r)
  /\ \/ /\ req[r].expiresAt - now <= 0
        /\ req' = [req EXCEPT ![r].at = "OK", ![r].cwd = req[r].path]
     \/ /\ req[r].expiresAt - now > 0
        /\ req' = [req EXCEPT ![r].at = "save", ![r].cwd = req[r].path,
                              ![r].ttl = req[r].expiresAt - now]
  /\ UNCHANGED <<now, entries, made, deadline>>

\* save's await: the whole document is stored again.
Save(r) ==
  /\ req[r].at = "save"
  /\ Put(req[r].session, req[r].cwd, req[r].expiresAt, req[r].ttl)
  /\ Goto(r, "OK")
  /\ UNCHANGED <<now, made, deadline>>

\* The storage rejects the call a request waits for; a write or a delete may
\* have taken effect.
StorageFails(r) ==
  /\ req[r].at \in {"lookup", "drop", "save"}
  /\ Goto(r, "FAILED")
  /\ \/ UNCHANGED entries
     \/ /\ req[r].at = "drop"
        /\ Remove(req[r].session)
     \/ /\ req[r].at = "save"
        /\ Put(req[r].session, req[r].cwd, req[r].expiresAt, req[r].ttl)
  /\ UNCHANGED <<now, made, deadline>>

Tick ==
  /\ now < MaxTime
  /\ now' = now + 1
  /\ UNCHANGED <<entries, made, deadline, req>>

Next ==
  \/ \E s \in Sessions : Create(s) \/ CreateStored(s) \/ CreateFails(s)
  \/ \E r \in Reqs :
       \/ Begin(r) \/ Lookup(r) \/ Check(r) \/ Drop(r)
       \/ CwdGet(r) \/ CwdSet(r) \/ Save(r) \/ StorageFails(r)
  \/ Tick

Spec == Init /\ [][Next]_vars

-----------------------------------------------------------------------------

\* Types.
TypeOK ==
  /\ now \in 0..MaxTime
  /\ entries \in [Sessions -> Entry \cup {NoEntry}]
  /\ made \in [Sessions -> {"no", "storing", "open", "failed"}]
  /\ deadline \in [Sessions -> 0..(MaxTime + Ttl)]
  /\ req \in [Reqs -> Request]

\* The store never loses a session early: whichever writes and deletes raced,
\* an open session whose deadline has not passed has an entry, that entry
\* expires no earlier than the session, and it still carries the deadline
\* create gave it (no save extends a session).
LiveSessionKept ==
  \A s \in Sessions :
    (made[s] = "open" /\ now <= deadline[s]) =>
      /\ entries[s] # NoEntry
      /\ entries[s].expiresAt = deadline[s]
      /\ entries[s].until >= deadline[s]

\* No entry outlives the session ttl: the falsy-ttl rule of Storage.set never
\* turns a save in the last instant of a session into an entry for ever.
EntriesExpire ==
  \A s \in Sessions :
    (Ttl # 0 /\ entries[s] # NoEntry) => entries[s].until <= now + Ttl

-----------------------------------------------------------------------------
(* The lease the store implements.                                         *)

LeaseOf(s) ==
  IF made[s] # "open" THEN "none"
  ELSE IF now < deadline[s] THEN "live"
  ELSE IF now = deadline[s] THEN "last"
  ELSE "over"

CellOf(s) ==
  IF made[s] # "open" \/ entries[s] = NoEntry THEN NoPath ELSE entries[s].cwd

PhaseOf(r) ==
  CASE req[r].at = "idle"             -> "idle"
    [] req[r].at = "lookup"           -> "begun"
    [] req[r].at \in {"check", "drop"} -> "sampled"
    [] req[r].at \in {"route", "save"} -> "admitted"
    [] req[r].at = "OK"               -> "ok"
    [] req[r].at = "UNAUTHORIZED"     -> "refused"
    [] OTHER                          -> "failed"

\* What a cwd.get has read.
SeenOf(r) == IF IsSet(r) THEN NoPath ELSE req[r].cwd

Lease == INSTANCE SessionLease WITH
  lease <- [s \in Sessions |-> LeaseOf(s)],
  cell <- [s \in Sessions |-> CellOf(s)],
  call <- [r \in Reqs |-> [phase |-> PhaseOf(r), session |-> req[r].session,
                           path |-> req[r].path, seen |-> SeenOf(r)]]

\* A session is a leased cell: requests are admitted up to the deadline and
\* refused only after it, reads and writes of the working directory take
\* effect at one moment, and only the last instant can lose a write.
ImplementsLease == Lease!LeaseSpec
=============================================================================
