---------------------------- MODULE SessionLease ----------------------------
(***************************************************************************)
(* What SessionStore promises its callers: a session is a cell holding a   *)
(* working directory, on a lease.  The lease is live up to its deadline,   *)
(* has a last instant, and is then over for good.  A request for a session *)
(* is admitted only while the lease has not run out and refused only once  *)
(* it has; an admitted cwd.get returns what the cell held at one moment    *)
(* during the request, and an acknowledged cwd.set wrote the cell at one   *)
(* moment during the request, unless the lease had reached its last        *)
(* instant.                                                                *)
(***************************************************************************)
EXTENDS Integers

CONSTANTS
  Sessions,   \* session ids
  Reqs,       \* authenticated requests
  Paths,      \* working directories
  Home,       \* the working directory of a new session
  NoPath      \* an empty cell

VARIABLES
  lease,      \* "none", "live", "last" or "over", per session
  cell,       \* the working directory, per session
  call        \* what each request asks for and how far it has come

absVars == <<lease, cell, call>>

Blank == [phase |-> "idle", session |-> NoPath, path |-> NoPath,
          seen |-> NoPath]

\* A cwd.set names a path, a cwd.get does not.
Sets(r) == call[r].path # NoPath

LeaseInit ==
  /\ lease = [s \in Sessions |-> "none"]
  /\ cell = [s \in Sessions |-> NoPath]
  /\ call = [r \in Reqs |-> Blank]

\* A phase never goes back.
Later(x) == CASE x = "live" -> {"live", "last", "over"}
              [] x = "last" -> {"last", "over"}
              [] OTHER      -> {x}

MoveTo(r, phase) == call' = [call EXCEPT ![r].phase = phase]

Open(s) ==
  /\ lease[s] = "none"
  /\ \E x \in {"live", "last", "over"} : lease' = [lease EXCEPT ![s] = x]
  /\ cell' = [cell EXCEPT ![s] = Home]
  /\ UNCHANGED call

Age ==
  /\ lease' \in [Sessions -> {"none", "live", "last", "over"}]
  /\ \A s \in Sessions : lease'[s] \in Later(lease[s])
  /\ UNCHANGED <<cell, call>>

Ask(r) ==
  /\ call[r].phase = "idle"
  /\ \E s \in Sessions, p \in Paths \cup {NoPath} :
       /\ lease[s] # "none"
       /\ call' = [call EXCEPT ![r] = [phase |-> "begun", session |-> s,
                                       path |-> p, seen |-> NoPath]]
  /\ UNCHANGED <<lease, cell>>

Sample(r) ==
  /\ call[r].phase = "begun"
  /\ cell[call[r].session] # NoPath
  /\ call' = [call EXCEPT ![r].phase = "sampled",
                          ![r].seen = IF Sets(r) THEN NoPath
                                      ELSE cell[call[r].session]]
  /\ UNCHANGED <<lease, cell>>

Admit(r) ==
  /\ call[r].phase = "sampled"
  /\ lease[call[r].session] \in {"live", "last"}
  /\ MoveTo(r, "admitted")
  /\ UNCHANGED <<lease, cell>>

Refuse(r) ==
  /\ call[r].phase \in {"begun", "sampled"}
  /\ lease[call[r].session] = "over"
  /\ MoveTo(r, "refused")
  /\ cell' \in {cell, [cell EXCEPT ![call[r].session] = NoPath]}
  /\ UNCHANGED lease

Reply(r) ==
  /\ call[r].phase = "admitted"
  /\ ~Sets(r)
  /\ MoveTo(r, "ok")
  /\ UNCHANGED <<lease, cell>>

Write(r) ==
  /\ call[r].phase = "admitted"
  /\ Sets(r)
  /\ MoveTo(r, "ok")
  /\ cell' = [cell EXCEPT ![call[r].session] = call[r].path]
  /\ UNCHANGED lease

\* The write of a lease that can no longer be read from.
Skip(r) ==
  /\ call[r].phase = "admitted"
  /\ Sets(r)
  /\ lease[call[r].session] \in {"last", "over"}
  /\ MoveTo(r, "ok")
  /\ UNCHANGED <<lease, cell>>

\* The storage fails the request, before or after the effect it was about to
\* have.
Fail(r) ==
  /\ call[r].phase \in {"begun", "sampled", "admitted"}
  /\ MoveTo(r, "failed")
  /\ \/ UNCHANGED cell
     \/ /\ lease[call[r].session] = "over"
        /\ cell' = [cell EXCEPT ![call[r].session] = NoPath]
     \/ /\ call[r].phase = "admitted"
        /\ Sets(r)
        /\ cell' = [cell EXCEPT ![call[r].session] = call[r].path]
  /\ UNCHANGED lease

LeaseNext ==
  \/ Age
  \/ \E s \in Sessions : Open(s)
  \/ \E r \in Reqs :
       \/ Ask(r) \/ Sample(r) \/ Admit(r) \/ Refuse(r)
       \/ Reply(r) \/ Write(r) \/ Skip(r) \/ Fail(r)

LeaseSpec == LeaseInit /\ [][LeaseNext]_absVars
=============================================================================
