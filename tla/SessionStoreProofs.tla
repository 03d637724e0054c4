------------------------- MODULE SessionStoreProofs -------------------------
(***************************************************************************)
(* Proofs about SessionStore, for any number of sessions and requests and  *)
(* any ttl.  The inductive invariant ties the three places a deadline is   *)
(* kept in (the store entry, the documents requests have copied, and the   *)
(* value create chose) to each other.                                      *)
(***************************************************************************)
EXTENDS SessionStore, TLAPS

\* A session never has more than a full ttl to live.
DeadlineNear == \A s \in Sessions : deadline[s] <= now + Ttl

\* An entry carries the deadline of its session and outlives it.
EntryTied ==
  \A s \in Sessions :
    entries[s] # NoEntry =>
      /\ made[s] \in {"open", "failed"}
      /\ entries[s].expiresAt = deadline[s]
      /\ entries[s].until >= deadline[s]

\* A request works on an open session; the copy it has read carries that
\* session's deadline; a save under way writes what was asked for, with a ttl
\* that reaches the deadline; a drop under way comes after the deadline.
CopyTied ==
  \A r \in Reqs :
    /\ req[r].at # "idle" =>
         /\ req[r].session \in Sessions
         /\ made[req[r].session] = "open"
    /\ req[r].at \in {"idle", "lookup"} => req[r].cwd = NoPath
    /\ req[r].at \in {"check", "drop", "route", "save"} =>
         /\ req[r].expiresAt = deadline[req[r].session]
         /\ req[r].cwd \in Paths
    /\ req[r].at = "drop" => now > deadline[req[r].session]
    /\ req[r].at = "save" =>
         /\ IsSet(r)
         /\ req[r].cwd = req[r].path
         /\ req[r].ttl \in 1..Ttl
         /\ now + req[r].ttl >= deadline[req[r].session]

IInv ==
  /\ TypeOK
  /\ LiveSessionKept
  /\ EntriesExpire
  /\ DeadlineNear
  /\ EntryTied
  /\ CopyTied

\* What storage.set writes is a document, and it is never before its ttl.
LEMMA ExpiryType ==
  ASSUME NEW ttl \in Nat, now \in 0..MaxTime
  PROVE  /\ ExpiryFor(ttl, now) \in Nat
         /\ ttl <= Ttl => ExpiryFor(ttl, now) >= now + ttl
         /\ ttl # 0 => ExpiryFor(ttl, now) = now + ttl
  BY SessionAssumption DEF ExpiryFor

\* The store is empty and nobody has asked for anything.
LEMMA InitIInv == Init => IInv
  BY SessionAssumption
  DEF Init, IInv, TypeOK, LiveSessionKept, EntriesExpire, DeadlineNear,
      EntryTied, CopyTied, IsSet, NoRequest, Request

\* create reserves a deadline and then stores the document.
LEMMA CreateIInv ==
  ASSUME IInv, NEW s \in Sessions,
         Create(s) \/ CreateStored(s) \/ CreateFails(s)
  PROVE  IInv'
<1> USE SessionAssumption DEF IInv
<1>1. CASE Create(s)
  <2> USE <1>1 DEF Create
  <2>1. entries[s] = NoEntry
    BY DEF EntryTied
  <2>2. \A r \in Reqs : req[r].at # "idle" => req[r].session # s
    BY DEF CopyTied, IsSet
  <2>3. TypeOK'
    BY DEF TypeOK
  <2>4. (LiveSessionKept /\ EntriesExpire /\ DeadlineNear /\ EntryTied)'
    BY <2>1 DEF TypeOK, LiveSessionKept, EntriesExpire, DeadlineNear, EntryTied
  <2>5. CopyTied'
    BY <2>2 DEF TypeOK, CopyTied, IsSet
  <2> QED  BY <2>3, <2>4, <2>5
<1>2. CASE CreateStored(s) \/ CreateFails(s)
  <2>1. /\ made[s] = "storing" /\ UNCHANGED <<now, deadline, req>>
        /\ \/ made' = [made EXCEPT ![s] = "open"]
           \/ made' = [made EXCEPT ![s] = "failed"]
        /\ \/ entries' = [entries EXCEPT ![s] =
                [cwd |-> Home, expiresAt |-> deadline[s],
                 until |-> ExpiryFor(Ttl, now)]]
           \/ UNCHANGED entries /\ made'[s] = "failed"
    BY <1>2 DEF CreateStored, CreateFails, Put, TypeOK
  <2>2. /\ ExpiryFor(Ttl, now) \in Nat
        /\ ExpiryFor(Ttl, now) >= deadline[s]
        /\ Ttl # 0 => ExpiryFor(Ttl, now) = now + Ttl
    BY ExpiryType DEF TypeOK, DeadlineNear
  <2>3. TypeOK'
    BY <2>1, <2>2 DEF TypeOK, Entry
  <2>4. (LiveSessionKept /\ EntriesExpire /\ DeadlineNear /\ EntryTied)'
    BY <2>1, <2>2
    DEF TypeOK, LiveSessionKept, EntriesExpire, DeadlineNear, EntryTied
  <2>5. CopyTied'
    BY <2>1 DEF TypeOK, CopyTied, IsSet
  <2> QED  BY <2>3, <2>4, <2>5
<1> QED  BY <1>1, <1>2

\* The steps of a request that leave the store alone.
LEMMA ReadIInv ==
  ASSUME IInv, NEW r \in Reqs,
         Begin(r) \/ Check(r) \/ CwdGet(r) \/ CwdSet(r)
  PROVE  IInv'
<1> USE SessionAssumption DEF IInv
<1>1. UNCHANGED <<now, entries, made, deadline>>
  BY DEF Begin, Check, CwdGet, CwdSet
<1>2. (LiveSessionKept /\ EntriesExpire /\ DeadlineNear /\ EntryTied)'
  BY <1>1 DEF LiveSessionKept, EntriesExpire, DeadlineNear, EntryTied
<1>3. CASE Begin(r)
  <2>1. PICK s \in Sessions, p \in Paths \cup {NoPath} :
          /\ made[s] = "open"
          /\ req' = [req EXCEPT ![r] =
                       [at |-> "lookup", session |-> s, path |-> p,
                        cwd |-> NoPath, expiresAt |-> 0, ttl |-> 0]]
    BY <1>3 DEF Begin
  <2>2. TypeOK'
    BY <1>1, <2>1 DEF TypeOK, Request
  <2>3. CopyTied'
    BY <1>1, <2>1 DEF TypeOK, CopyTied, IsSet, NoRequest
  <2> QED  BY <1>2, <2>2, <2>3
<1>4. CASE Check(r) \/ CwdGet(r)
  <2>1. TypeOK'
    BY <1>1, <1>4 DEF TypeOK, Request, Check, CwdGet, Goto
  <2>2. CopyTied'
    BY <1>1, <1>4 DEF TypeOK, Request, CopyTied, IsSet, Check, CwdGet, Goto
  <2> QED  BY <1>2, <2>1, <2>2
<1>5. CASE CwdSet(r)
  <2>1. req[r].path \in Paths /\ req[r].session \in Sessions
    BY <1>5 DEF CwdSet, CopyTied, IsSet, TypeOK, Request
  <2>2. req[r].expiresAt - now > 0 =>
          /\ req[r].expiresAt - now \in 1..Ttl
          /\ now + (req[r].expiresAt - now) >= deadline[req[r].session]
    BY <1>5, <2>1 DEF CwdSet, CopyTied, DeadlineNear, TypeOK, Request
  <2>3. TypeOK'
    BY <1>1, <1>5, <2>1, <2>2 DEF TypeOK, Request, CwdSet
  <2>4. CopyTied'
    BY <1>1, <1>5, <2>1, <2>2 DEF TypeOK, Request, CopyTied, IsSet, CwdSet
  <2> QED  BY <1>2, <2>3, <2>4
<1> QED  BY <1>3, <1>4, <1>5

\* The steps of a request that may change the store.
LEMMA EffectIInv ==
  ASSUME IInv, NEW r \in Reqs,
         Lookup(r) \/ Drop(r) \/ Save(r) \/ StorageFails(r)
  PROVE  IInv'
<1> USE SessionAssumption DEF IInv
<1> DEFINE s == req[r].session
           kept == UNCHANGED entries
           gone == /\ now > deadline[s]
                   /\ entries' = [entries EXCEPT ![s] = NoEntry]
           saved == /\ req[r].at = "save"
                    /\ entries' = [entries EXCEPT ![s] =
                         [cwd |-> req[r].cwd, expiresAt |-> req[r].expiresAt,
                          until |-> ExpiryFor(req[r].ttl, now)]]
           left == \E label \in {"OK", "UNAUTHORIZED", "FAILED"} :
                     req' = [req EXCEPT ![r].at = label]
           read == /\ req[r].at = "lookup"
                   /\ entries[s] # NoEntry
                   /\ req' = [req EXCEPT ![r].at = "check",
                                         ![r].cwd = entries[s].cwd,
                                         ![r].expiresAt = entries[s].expiresAt]
<1>1. /\ s \in Sessions /\ made[s] = "open" /\ req[r].at # "idle"
      /\ UNCHANGED <<now, made, deadline>>
  BY DEF Lookup, Drop, Save, StorageFails, CopyTied, IsSet
<1>2. kept \/ gone \/ saved
  <2>1. CASE Lookup(r)
    BY <1>1, <2>1 DEF Lookup, Remove, Lapsed, EntryTied, TypeOK, Entry
  <2>2. CASE Drop(r)
    BY <1>1, <2>2 DEF Drop, Remove, CopyTied, IsSet
  <2>3. CASE Save(r)
    BY <2>3 DEF Save, Put
  <2>4. CASE StorageFails(r)
    BY <1>1, <2>4 DEF StorageFails, Put, Remove, CopyTied, IsSet
  <2> QED  BY <2>1, <2>2, <2>3, <2>4
<1>3. left \/ read
  BY DEF Lookup, Drop, Save, StorageFails, Goto
<1>4. saved => /\ req[r].expiresAt = deadline[s]
               /\ req[r].cwd \in Paths
               /\ ExpiryFor(req[r].ttl, now) \in Nat
               /\ ExpiryFor(req[r].ttl, now) >= deadline[s]
               /\ ExpiryFor(req[r].ttl, now) <= now + Ttl
  BY <1>1, ExpiryType DEF CopyTied, TypeOK, Request
<1>5. entries' \in [Sessions -> Entry \cup {NoEntry}]
  BY <1>1, <1>2, <1>4 DEF TypeOK, Entry
<1>6. (LiveSessionKept /\ EntriesExpire /\ DeadlineNear /\ EntryTied)'
  BY <1>1, <1>2, <1>4
  DEF TypeOK, LiveSessionKept, EntriesExpire, DeadlineNear, EntryTied
<1>7. read => entries[s].cwd \in Paths /\ entries[s].expiresAt = deadline[s]
  BY <1>1 DEF TypeOK, Entry, EntryTied
<1>8. TypeOK'
  <2>1. req[r] \in Request
    BY DEF TypeOK
  <2>2. CASE left
    BY <1>1, <1>5, <2>1, <2>2 DEF TypeOK, Request
  <2>3. CASE read
    <3>1. entries[s].expiresAt \in 0..(MaxTime + Ttl)
      BY <1>1, <2>3 DEF TypeOK, Entry
    <3> QED  BY <1>1, <1>5, <1>7, <2>1, <2>3, <3>1 DEF TypeOK, Request
  <2> QED  BY <1>3, <2>2, <2>3
<1>9. CopyTied'
  <2>1. CASE left
    BY <1>1, <2>1 DEF TypeOK, Request, CopyTied, IsSet
  <2>2. CASE read
    <3>1. \A q \in Reqs \ {r} : req'[q] = req[q]
      BY <2>2 DEF TypeOK
    <3>2. /\ req'[r].at = "check" /\ req'[r].session = s
          /\ req'[r].cwd = entries[s].cwd
          /\ req'[r].expiresAt = entries[s].expiresAt
      BY <2>2 DEF TypeOK, Request
    <3>3. req'[r].cwd \in Paths /\ req'[r].expiresAt = deadline[s]
      BY <1>7, <2>2, <3>2
    <3> QED  BY <1>1, <3>1, <3>2, <3>3 DEF CopyTied, IsSet
  <2> QED  BY <1>3, <2>1, <2>2
<1> QED  BY <1>6, <1>8, <1>9

\* Time passes, or nothing happens.
LEMMA QuietIInv ==
  ASSUME IInv, Tick \/ UNCHANGED vars
  PROVE  IInv'
<1> USE SessionAssumption DEF IInv
<1>1. /\ UNCHANGED <<entries, made, deadline, req>>
      /\ now' \in 0..MaxTime /\ now' >= now
  BY DEF Tick, vars, TypeOK
<1>2. TypeOK'
  BY <1>1 DEF TypeOK
<1>3. (LiveSessionKept /\ EntriesExpire /\ DeadlineNear /\ EntryTied)'
  BY <1>1
  DEF TypeOK, Entry, LiveSessionKept, EntriesExpire, DeadlineNear, EntryTied
<1>4. CopyTied'
  BY <1>1 DEF TypeOK, Request, CopyTied, IsSet
<1> QED  BY <1>2, <1>3, <1>4

\* Every step preserves the invariant.
LEMMA NextIInv == IInv /\ [Next]_vars => IInv'
  BY CreateIInv, ReadIInv, EffectIInv, QuietIInv DEF Next

\* The invariant holds in every reachable state of the session store.
THEOREM Inductive == Spec => []IInv
  BY InitIInv, NextIInv, PTL DEF Spec

\* Types, for every instance.
THEOREM TypeCorrect == Spec => []TypeOK
<1>1. IInv => TypeOK  BY DEF IInv
<1> QED  BY <1>1, Inductive, PTL

\* No interleaving of lookups, drops and saves loses or extends a session.
THEOREM KeepsLiveSessions == Spec => []LiveSessionKept
<1>1. IInv => LiveSessionKept  BY DEF IInv
<1> QED  BY <1>1, Inductive, PTL

\* No entry of a store with a session ttl is there for ever.
THEOREM ExpiresEntries == Spec => []EntriesExpire
<1>1. IInv => EntriesExpire  BY DEF IInv
<1> QED  BY <1>1, Inductive, PTL

-----------------------------------------------------------------------------
(* The refinement of SessionLease.  A step of the program is a step of the *)
(* lease or changes nothing the lease speaks of; the three barred names    *)
(* are the values the instance gives to its variables.                     *)

LeaseBar == [s \in Sessions |-> LeaseOf(s)]
CellBar == [s \in Sessions |-> CellOf(s)]
CallOf(r) == [phase |-> PhaseOf(r), session |-> req[r].session,
              path |-> req[r].path, seen |-> SeenOf(r)]
CallBar == [r \in Reqs |-> CallOf(r)]

\* A step of request r alone changes no other request's call.
LEMMA OneCall ==
  ASSUME TypeOK, NEW r \in Reqs, NEW q,
         req' = [req EXCEPT ![r] = q]
  PROVE  CallBar' = [CallBar EXCEPT ![r] = CallOf(r)']
  BY DEF TypeOK, CallBar, CallOf, PhaseOf, SeenOf, IsSet

\* A step of session s alone changes no other cell.
LEMMA OneCell ==
  ASSUME TypeOK, NEW s \in Sessions, NEW e,
         entries' = [entries EXCEPT ![s] = e], UNCHANGED made
  PROVE  CellBar' = [CellBar EXCEPT ![s] = CellOf(s)']
  BY DEF TypeOK, CellBar, CellOf

\* The steps of a request leave the lease alone, and those that do not touch
\* the store leave the cells alone.
LEMMA Frames ==
  /\ UNCHANGED <<now, made, deadline>> => UNCHANGED LeaseBar
  /\ UNCHANGED <<entries, made>> => UNCHANGED CellBar
  /\ UNCHANGED req => UNCHANGED CallBar
  BY DEF LeaseBar, LeaseOf, CellBar, CellOf, CallBar, CallOf, PhaseOf, SeenOf,
         IsSet

\* Nobody holds a lease at first.
LEMMA RefineInit == Init => Lease!LeaseInit
  BY DEF Init, NoRequest, Lease!LeaseInit, Lease!Blank, LeaseOf, CellOf,
         PhaseOf, SeenOf, IsSet

\* Time ages the leases.
LEMMA RefineTick ==
  ASSUME IInv, Tick
  PROVE  Lease!Age
<1> USE SessionAssumption DEF IInv, TypeOK
<1>1. UNCHANGED CellBar /\ UNCHANGED CallBar
  BY Frames DEF Tick
<1>2. LeaseBar' \in [Sessions -> {"none", "live", "last", "over"}]
  BY DEF LeaseBar, LeaseOf
<1>3. \A s \in Sessions : LeaseOf(s)' \in Lease!Later(LeaseOf(s))
  BY DEF Tick, LeaseOf, Lease!Later
<1> QED  BY <1>1, <1>2, <1>3
         DEF Lease!Age, LeaseBar, CellBar, CallBar, CallOf

\* The steps of create: the id leaves the server when the document is stored.
LEMMA RefineCreate ==
  ASSUME IInv, NEW s \in Sessions,
         Create(s) \/ CreateStored(s) \/ CreateFails(s)
  PROVE  Lease!Open(s) \/ UNCHANGED <<LeaseBar, CellBar, CallBar>>
<1> USE SessionAssumption DEF IInv, TypeOK
<1>1. UNCHANGED CallBar
  BY Frames DEF Create, CreateStored, CreateFails
<1>2. CASE Create(s) \/ CreateFails(s)
  <2>1. UNCHANGED LeaseBar
    BY <1>2 DEF Create, CreateFails, LeaseBar, LeaseOf
  <2>2. UNCHANGED CellBar
    BY <1>2 DEF Create, CreateFails, Put, CellBar, CellOf
  <2> QED  BY <1>1, <2>1, <2>2
<1>3. CASE CreateStored(s)
  <2>1. LeaseOf(s) = "none" /\ LeaseOf(s)' \in {"live", "last", "over"}
    BY <1>3 DEF CreateStored, LeaseOf
  <2>2. LeaseBar' = [LeaseBar EXCEPT ![s] = LeaseOf(s)']
    BY <1>3 DEF CreateStored, LeaseBar, LeaseOf
  <2>3. CellOf(s)' = Home
    <3>1. [cwd |-> Home, expiresAt |-> deadline[s],
           until |-> ExpiryFor(Ttl, now)] # NoEntry
      BY ExpiryType
    <3> QED  BY <1>3, <3>1 DEF CreateStored, Put, CellOf
  <2>4. CellBar' = [CellBar EXCEPT ![s] = Home]
    BY <1>3, <2>3 DEF CreateStored, Put, CellBar, CellOf
  <2> QED  BY <1>1, <2>1, <2>2, <2>4
           DEF Lease!Open, LeaseBar, CellBar, CallBar, CallOf
<1> QED  BY <1>2, <1>3

\* A step that only moves request r moves only the phase of its call.
LEMMA OnePhase ==
  ASSUME TypeOK, NEW r \in Reqs, NEW label,
         req' = [req EXCEPT ![r].at = label]
  PROVE  /\ CallBar' = [CallBar EXCEPT ![r].phase = PhaseOf(r)']
         /\ req'[r].at = label
  BY ZenonT(30) DEF TypeOK, Request, CallBar, CallOf, PhaseOf, SeenOf, IsSet

\* A step that moves request r within a phase is not seen.
LEMMA SamePhase ==
  ASSUME TypeOK, NEW r \in Reqs, UNCHANGED PhaseOf(r),
         req'[r].session = req[r].session, req'[r].path = req[r].path,
         UNCHANGED SeenOf(r),
         \A q \in Reqs \ {r} : req'[q] = req[q]
  PROVE  UNCHANGED CallBar
<1>1. \A q \in Reqs : CallOf(q)' = CallOf(q)
  BY DEF CallOf, PhaseOf, SeenOf, IsSet
<1> QED  BY <1>1 DEF CallBar

\* A request is a call on the lease.
LEMMA RefineBegin ==
  ASSUME IInv, NEW r \in Reqs, Begin(r)
  PROVE  Lease!Ask(r)
<1> USE DEF IInv
<1>1. PICK s \in Sessions, p \in Paths \cup {NoPath} :
        /\ made[s] = "open"
        /\ req' = [req EXCEPT ![r] =
                     [at |-> "lookup", session |-> s, path |-> p,
                      cwd |-> NoPath, expiresAt |-> 0, ttl |-> 0]]
  BY DEF Begin
<1>2. CallOf(r)' = [phase |-> "begun", session |-> s, path |-> p,
                    seen |-> NoPath]
  BY <1>1 DEF TypeOK, CallOf, PhaseOf, SeenOf, IsSet
<1>3. CallBar' = [CallBar EXCEPT ![r] = [phase |-> "begun", session |-> s,
                                         path |-> p, seen |-> NoPath]]
  BY <1>1, <1>2, OneCall
<1>4. LeaseOf(s) # "none" /\ PhaseOf(r) = "idle"
  BY <1>1 DEF Begin, LeaseOf, PhaseOf
<1>5. UNCHANGED LeaseBar /\ UNCHANGED CellBar
  BY Frames DEF Begin
<1> QED  BY <1>3, <1>4, <1>5
         DEF Lease!Ask, LeaseBar, CellBar, CallBar, CallOf

\* The lookup samples the cell, or finds the lease over.
LEMMA RefineLookup ==
  ASSUME IInv, NEW r \in Reqs, Lookup(r)
  PROVE  Lease!Sample(r) \/ Lease!Refuse(r)
<1> USE SessionAssumption DEF IInv
<1> DEFINE s == req[r].session
<1>1. /\ s \in Sessions /\ made[s] = "open" /\ PhaseOf(r) = "begun"
      /\ req[r].cwd = NoPath /\ req[r] \in Request
  BY DEF Lookup, CopyTied, TypeOK, PhaseOf
<1>2. UNCHANGED LeaseBar /\ (UNCHANGED entries => UNCHANGED CellBar)
  BY Frames DEF Lookup
<1>3. ASSUME Goto(r, "UNAUTHORIZED"), now > deadline[s],
             entries' \in {entries, [entries EXCEPT ![s] = NoEntry]}
      PROVE  Lease!Refuse(r)
  <2>1. CallBar' = [CallBar EXCEPT ![r].phase = "refused"]
    <3>1. /\ CallBar' = [CallBar EXCEPT ![r].phase = PhaseOf(r)']
          /\ req'[r].at = "UNAUTHORIZED"
      BY <1>3, OnePhase DEF Goto, IInv
    <3>2. PhaseOf(r)' = "refused"
      BY <3>1 DEF PhaseOf
    <3> QED  BY <3>1, <3>2
  <2>2. CellBar' \in {CellBar, [CellBar EXCEPT ![s] = NoPath]}
    BY <1>1, <1>2, <1>3, OneCell DEF Lookup, CellOf, TypeOK
  <2>3. LeaseOf(s) = "over"
    BY <1>1, <1>3 DEF LeaseOf, TypeOK
  <2> QED  BY <1>1, <1>2, <2>1, <2>2, <2>3
           DEF Lease!Refuse, Lease!MoveTo, LeaseBar, CellBar, CallBar, CallOf
<1>4. CASE entries[s] = NoEntry
  <2>1. now > deadline[s]
    BY <1>1, <1>4 DEF LiveSessionKept, TypeOK
  <2>2. Goto(r, "UNAUTHORIZED") /\ UNCHANGED entries
    BY <1>4 DEF Lookup
  <2> QED  BY <1>3, <2>1, <2>2
<1>5. CASE entries[s] # NoEntry /\ Lapsed(entries[s].until, now)
  <2>1. now > deadline[s]
    BY <1>1, <1>5 DEF EntryTied, TypeOK, Entry, Lapsed
  <2>2. Goto(r, "UNAUTHORIZED") /\ entries' = [entries EXCEPT ![s] = NoEntry]
    BY <1>5 DEF Lookup, Remove
  <2> QED  BY <1>3, <2>1, <2>2
<1>6. CASE entries[s] # NoEntry /\ ~Lapsed(entries[s].until, now)
  <2>1. /\ req' = [req EXCEPT ![r].at = "check", ![r].cwd = entries[s].cwd,
                              ![r].expiresAt = entries[s].expiresAt]
        /\ UNCHANGED entries
    BY <1>6 DEF Lookup
  <2>2. CellOf(s) = entries[s].cwd /\ CellOf(s) # NoPath
    BY <1>1, <1>6 DEF CellOf, TypeOK, Entry
  <2>3. CallOf(r)' = [phase |-> "sampled", session |-> s,
                      path |-> req[r].path,
                      seen |-> IF IsSet(r) THEN NoPath ELSE CellOf(s)]
    BY <1>1, <2>1, <2>2 DEF TypeOK, Request, CallOf, PhaseOf, SeenOf, IsSet
  <2>4. CallBar' = [CallBar EXCEPT ![r] = CallOf(r)']
    BY <2>1, OneCall
  <2>5. CallBar' = [CallBar EXCEPT ![r].phase = "sampled",
                      ![r].seen = IF IsSet(r) THEN NoPath ELSE CellOf(s)]
    BY <1>1, <2>3, <2>4 DEF CallBar, CallOf
  <2> QED  BY <1>1, <1>2, <2>1, <2>2, <2>5
           DEF Lease!Sample, Lease!Sets, LeaseBar, CellBar, CallBar, CallOf,
               IsSet
<1> QED  BY <1>4, <1>5, <1>6

\* The document's own expiry decides between admission and refusal.
LEMMA RefineCheck ==
  ASSUME IInv, NEW r \in Reqs, Check(r)
  PROVE  Lease!Admit(r) \/ UNCHANGED <<LeaseBar, CellBar, CallBar>>
<1> USE DEF IInv
<1> DEFINE s == req[r].session
<1>1. /\ s \in Sessions /\ made[s] = "open" /\ PhaseOf(r) = "sampled"
      /\ req[r].expiresAt = deadline[s] /\ req[r] \in Request
  BY DEF Check, CopyTied, TypeOK, PhaseOf
<1>2. UNCHANGED LeaseBar /\ UNCHANGED CellBar
  BY Frames DEF Check
<1>3. CASE req' = [req EXCEPT ![r].at = "drop"]
  <2>1. CallBar' = [CallBar EXCEPT ![r].phase = PhaseOf(r)']
        /\ req'[r].at = "drop"
    BY <1>3, OnePhase
  <2>2. PhaseOf(r)' = "sampled"
    BY <2>1 DEF PhaseOf
  <2>3. UNCHANGED CallBar
    BY <1>1, <1>3, <2>2, SamePhase DEF TypeOK, Request, SeenOf, IsSet
  <2> QED  BY <1>2, <2>3
<1>4. CASE req' = [req EXCEPT ![r].at = "route"] /\ now <= req[r].expiresAt
  <2>1. CallBar' = [CallBar EXCEPT ![r].phase = PhaseOf(r)']
        /\ req'[r].at = "route"
    BY <1>4, OnePhase
  <2>2. PhaseOf(r)' = "admitted"
    BY <2>1 DEF PhaseOf
  <2>3. LeaseOf(s) \in {"live", "last"}
    BY <1>1, <1>4 DEF LeaseOf, TypeOK
  <2> QED  BY <1>1, <1>2, <2>1, <2>2, <2>3
           DEF Lease!Admit, Lease!MoveTo, LeaseBar, CellBar, CallBar, CallOf
<1> QED  BY <1>3, <1>4 DEF Check, Goto

\* The delete of an expired document completes the refusal.
LEMMA RefineDrop ==
  ASSUME IInv, NEW r \in Reqs, Drop(r)
  PROVE  Lease!Refuse(r)
<1> USE DEF IInv
<1> DEFINE s == req[r].session
<1>1. /\ s \in Sessions /\ made[s] = "open" /\ PhaseOf(r) = "sampled"
      /\ now > deadline[s] /\ req[r] \in Request
  BY DEF Drop, CopyTied, TypeOK, PhaseOf
<1>2. UNCHANGED LeaseBar
  BY Frames DEF Drop
<1>3. CallBar' = [CallBar EXCEPT ![r].phase = PhaseOf(r)']
      /\ req'[r].at = "UNAUTHORIZED"
  BY OnePhase DEF Drop, Goto
<1>4. PhaseOf(r)' = "refused"
  BY <1>3 DEF PhaseOf
<1>5. CellBar' = [CellBar EXCEPT ![s] = NoPath]
  BY <1>1, OneCell DEF Drop, Remove, CellOf, TypeOK
<1>6. LeaseOf(s) = "over"
  BY <1>1 DEF LeaseOf, TypeOK
<1> QED  BY <1>1, <1>2, <1>3, <1>4, <1>5, <1>6
         DEF Lease!Refuse, Lease!MoveTo, LeaseBar, CellBar, CallBar, CallOf

\* cwd.get replies; cwd.set goes on to its save, or skips it when the session
\* has no time left.
LEMMA RefineRoute ==
  ASSUME IInv, NEW r \in Reqs, CwdGet(r) \/ CwdSet(r)
  PROVE  \/ Lease!Reply(r) \/ Lease!Skip(r)
         \/ UNCHANGED <<LeaseBar, CellBar, CallBar>>
<1> USE DEF IInv
<1> DEFINE s == req[r].session
<1>1. /\ s \in Sessions /\ made[s] = "open" /\ PhaseOf(r) = "admitted"
      /\ req[r].expiresAt = deadline[s] /\ req[r] \in Request
  BY DEF CwdGet, CwdSet, CopyTied, TypeOK, PhaseOf
<1>2. UNCHANGED LeaseBar /\ UNCHANGED CellBar
  BY Frames DEF CwdGet, CwdSet
<1>3. CASE CwdGet(r)
  <2>1. CallBar' = [CallBar EXCEPT ![r].phase = PhaseOf(r)']
        /\ req'[r].at = "OK"
    BY <1>3, OnePhase DEF CwdGet, Goto
  <2>2. PhaseOf(r)' = "ok"
    BY <2>1 DEF PhaseOf
  <2> QED  BY <1>1, <1>2, <1>3, <2>1, <2>2
           DEF CwdGet, IsSet, Lease!Reply, Lease!Sets, Lease!MoveTo,
               LeaseBar, CellBar, CallBar, CallOf
<1>4. ASSUME CwdSet(r), NEW label,
             req'[r].at = label,
             req'[r].session = s, req'[r].path = req[r].path,
             \A q \in Reqs \ {r} : req'[q] = req[q]
      PROVE  CallBar' = [CallBar EXCEPT ![r].phase = PhaseOf(r)']
  <2>1. CallOf(r)' = [CallOf(r) EXCEPT !.phase = PhaseOf(r)']
    BY <1>1, <1>4 DEF CwdSet, CallOf, SeenOf, IsSet
  <2>2. \A q \in Reqs \ {r} : CallOf(q)' = CallOf(q)
    BY <1>4 DEF CallOf, PhaseOf, SeenOf, IsSet
  <2> QED  BY <2>1, <2>2 DEF CallBar
<1>5. CASE CwdSet(r) /\ req[r].expiresAt - now <= 0
  <2>1. /\ req'[r].at = "OK" /\ req'[r].session = s
        /\ req'[r].path = req[r].path
        /\ \A q \in Reqs \ {r} : req'[q] = req[q]
    BY <1>1, <1>5 DEF CwdSet, TypeOK, Request
  <2>2. CallBar' = [CallBar EXCEPT ![r].phase = PhaseOf(r)']
    BY <1>4, <1>5, <2>1
  <2>3. PhaseOf(r)' = "ok"
    BY <2>1 DEF PhaseOf
  <2>4. LeaseOf(s) \in {"last", "over"}
    BY <1>1, <1>5 DEF LeaseOf, TypeOK, Request
  <2> QED  BY <1>1, <1>2, <1>5, <2>2, <2>3, <2>4
           DEF CwdSet, IsSet, Lease!Skip, Lease!Sets, Lease!MoveTo,
               LeaseBar, CellBar, CallBar, CallOf
<1>6. CASE CwdSet(r) /\ req[r].expiresAt - now > 0
  <2>1. /\ req'[r].at = "save" /\ req'[r].session = s
        /\ req'[r].path = req[r].path
        /\ \A q \in Reqs \ {r} : req'[q] = req[q]
    BY <1>1, <1>6 DEF CwdSet, TypeOK, Request
  <2>2. CallBar' = [CallBar EXCEPT ![r].phase = PhaseOf(r)']
    BY <1>4, <1>6, <2>1
  <2>3. PhaseOf(r)' = "admitted"
    BY <2>1 DEF PhaseOf
  <2>4. UNCHANGED CallBar
    BY <1>1, <1>6, <2>1, <2>3, SamePhase DEF CwdSet, SeenOf, IsSet
  <2> QED  BY <1>2, <2>4
<1> QED  BY <1>1, <1>3, <1>5, <1>6 DEF CwdSet

\* A save writes the cell.
LEMMA RefineSave ==
  ASSUME IInv, NEW r \in Reqs, Save(r)
  PROVE  Lease!Write(r)
<1> USE SessionAssumption DEF IInv
<1>0. PICK s \in Sessions : s = req[r].session
  BY DEF Save, CopyTied
<1>1. /\ s \in Sessions /\ made[s] = "open" /\ PhaseOf(r) = "admitted"
      /\ req[r] \in Request /\ IsSet(r) /\ req[r].cwd = req[r].path
      /\ req[r].cwd \in Paths
  BY <1>0 DEF Save, CopyTied, TypeOK, PhaseOf
<1>2. UNCHANGED LeaseBar
  BY Frames DEF Save
<1>3. CallBar' = [CallBar EXCEPT ![r].phase = PhaseOf(r)']
      /\ req'[r].at = "OK"
  BY OnePhase DEF Save, Goto
<1>4. PhaseOf(r)' = "ok"
  BY <1>3 DEF PhaseOf
<1>5. [cwd |-> req[r].cwd, expiresAt |-> req[r].expiresAt,
       until |-> ExpiryFor(req[r].ttl, now)] # NoEntry
  BY <1>0, <1>1, ExpiryType DEF TypeOK, Request
<1>6. CellBar' = [CellBar EXCEPT ![s] = req[r].path]
  <2>1. CellOf(s)' = req[r].path
    BY <1>0, <1>1, <1>5 DEF Save, Put, CellOf, TypeOK
  <2> QED  BY <1>0, <1>1, <2>1, OneCell DEF Save, Put
<1> QED  BY <1>0, <1>1, <1>2, <1>3, <1>4, <1>6
         DEF IsSet, Lease!Write, Lease!Sets, Lease!MoveTo,
             LeaseBar, CellBar, CallBar, CallOf

\* A storage failure fails the call, with or without its effect.
LEMMA RefineFails ==
  ASSUME IInv, NEW r \in Reqs, StorageFails(r)
  PROVE  Lease!Fail(r)
<1> USE SessionAssumption DEF IInv
<1>0. PICK s \in Sessions : s = req[r].session
  BY DEF StorageFails, CopyTied
<1>1. /\ s \in Sessions /\ made[s] = "open" /\ req[r] \in Request
      /\ PhaseOf(r) \in {"begun", "sampled", "admitted"}
  BY <1>0 DEF StorageFails, CopyTied, TypeOK, PhaseOf
<1>2. UNCHANGED LeaseBar
  BY Frames DEF StorageFails
<1>3. CallBar' = [CallBar EXCEPT ![r].phase = PhaseOf(r)']
      /\ req'[r].at = "FAILED"
  BY OnePhase DEF StorageFails, Goto
<1>4. PhaseOf(r)' = "failed"
  BY <1>3 DEF PhaseOf
<1>5. CallBar' = [CallBar EXCEPT ![r].phase = "failed"]
  BY <1>3, <1>4
<1>6. CASE UNCHANGED entries
  <2>1. UNCHANGED CellBar
    BY <1>6, Frames DEF StorageFails
  <2> QED  BY <1>0, <1>1, <1>2, <1>5, <2>1
           DEF Lease!Fail, Lease!MoveTo, LeaseBar, CellBar, CallBar, CallOf
<1>7. CASE req[r].at = "drop" /\ Remove(s)
  <2>1. LeaseOf(s) = "over"
    BY <1>0, <1>1, <1>7 DEF LeaseOf, TypeOK, CopyTied
  <2>2. CellBar' = [CellBar EXCEPT ![s] = NoPath]
    BY <1>0, <1>1, <1>7, OneCell DEF StorageFails, Remove, CellOf, TypeOK
  <2> QED  BY <1>0, <1>1, <1>2, <1>5, <2>1, <2>2
           DEF Lease!Fail, Lease!MoveTo, LeaseBar, CellBar, CallBar, CallOf
<1>8. CASE /\ req[r].at = "save"
           /\ Put(s, req[r].cwd, req[r].expiresAt, req[r].ttl)
  <2>1. /\ IsSet(r) /\ req[r].cwd = req[r].path /\ req[r].cwd \in Paths
        /\ PhaseOf(r) = "admitted"
    BY <1>8 DEF CopyTied, PhaseOf
  <2>2. [cwd |-> req[r].cwd, expiresAt |-> req[r].expiresAt,
         until |-> ExpiryFor(req[r].ttl, now)] # NoEntry
    BY <1>0, <1>1, <2>1, ExpiryType DEF TypeOK, Request
  <2>3. CellOf(s)' = req[r].path
    BY <1>0, <1>1, <1>8, <2>1, <2>2 DEF StorageFails, Put, CellOf, TypeOK
  <2>4. CellBar' = [CellBar EXCEPT ![s] = req[r].path]
    BY <1>0, <1>1, <1>8, <2>3, OneCell DEF StorageFails, Put
  <2> QED  BY <1>0, <1>1, <1>2, <1>5, <2>1, <2>4
           DEF IsSet, Lease!Fail, Lease!Sets, Lease!MoveTo,
               LeaseBar, CellBar, CallBar, CallOf
<1> QED  BY <1>0, <1>6, <1>7, <1>8 DEF StorageFails

\* Every step of the store is a step of the lease or none at all.
LEMMA RefineNext ==
  IInv /\ [Next]_vars => [Lease!LeaseNext]_<<LeaseBar, CellBar, CallBar>>
<1> SUFFICES ASSUME IInv, [Next]_vars
             PROVE  Lease!LeaseNext \/ UNCHANGED <<LeaseBar, CellBar, CallBar>>
  OBVIOUS
<1>1. ASSUME NEW s \in Sessions, Create(s) \/ CreateStored(s) \/ CreateFails(s)
      PROVE  Lease!LeaseNext \/ UNCHANGED <<LeaseBar, CellBar, CallBar>>
  BY <1>1, RefineCreate DEF Lease!LeaseNext
<1>2. ASSUME NEW r \in Reqs,
             \/ Begin(r) \/ Lookup(r) \/ Check(r) \/ Drop(r)
             \/ CwdGet(r) \/ CwdSet(r) \/ Save(r) \/ StorageFails(r)
      PROVE  Lease!LeaseNext \/ UNCHANGED <<LeaseBar, CellBar, CallBar>>
  BY <1>2, RefineBegin, RefineLookup, RefineCheck, RefineDrop, RefineRoute,
     RefineSave, RefineFails
  DEF Lease!LeaseNext
<1>3. CASE Tick
  BY <1>3, RefineTick DEF Lease!LeaseNext
<1>4. CASE UNCHANGED vars
  BY <1>4, Frames DEF vars
<1> QED  BY <1>1, <1>2, <1>3, <1>4 DEF Next

\* The session store implements the lease, for every number of sessions,
\* requests and paths and every ttl.
THEOREM Refines == Spec => ImplementsLease
  BY RefineInit, RefineNext, Inductive, PTL
  DEF Spec, ImplementsLease, Lease!LeaseSpec, Lease!absVars, LeaseBar, CellBar,
      CallBar, CallOf
=============================================================================
