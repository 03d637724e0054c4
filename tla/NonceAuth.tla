----------------------------- MODULE NonceAuth -----------------------------
(***************************************************************************)
(* The challenge/response handshake of the server: handleChallenge and     *)
(* handleAuth (src/src/server/auth/handler.ts) over NonceCache             *)
(* (src/src/server/auth/_nonce.ts) and the pluggable Storage.              *)
(*                                                                         *)
(* Every `await` of handleAuth is a point where another request, possibly  *)
(* served by another instance sharing the same store, may run; each action *)
(* below is the code between two awaits.  A storage call takes effect      *)
(* atomically, or fails, in which case the handler rejects and the runtime *)
(* answers 500.                                                            *)
(***************************************************************************)
EXTENDS Storage, FiniteSets

CONSTANTS
  Nonces,     \* nonces generateNonce can return; 32 random bytes, never equal
  Reqs,       \* POST /.jdp/auth requests
  Keys,       \* fingerprints of client public keys
  Acl,        \* config.acl without "*": a function from some keys to scopes
  Wildcards,  \* what config.acl["*"] may be; NoAcl if there is none
  NoAcl,      \* the scopes of a key that has no entry
  NoBody,     \* the body of a request that has not been made
  NonceTtl,   \* DEFAULT_TTL of NonceCache
  MaxTime     \* bound on the clock

ASSUME NonceAssumption ==
  /\ NonceTtl \in Nat \ {0}
  /\ MaxTime \in Nat
  /\ NoEntry \notin Int
  /\ NoBody \notin [nonce : Nonces, key : Keys,
                    flaw : {"none", "notJson", "missing", "badKey",
                            "badSig", "rawSig"}]

VARIABLES
  now,         \* Date.now()
  nonceStore,  \* the "nonce:*" keys of the store: expiry of the entry
  issued,      \* nonces a challenge response has carried
  pc,          \* where each auth request is in handleAuth
  body,        \* the parsed request body
  status,      \* the code of the response
  granted,     \* the scopes of the session in a 200 response
  spent,       \* history: nonces some request has deleted in consume
  together,    \* history: pairs of requests that were between the get and
               \* the delete of one nonce at the same time
  wildcard     \* config.acl["*"]

vars == <<now, nonceStore, issued, pc, body, status, granted, spent, together,
          wildcard>>

\* What is wrong with a request: nothing, a body that is not JSON, a missing
\* field, a public key that does not import, a signature that does not verify,
\* a signature that is not base64 (atob throws and the handler rejects).
Flaws == {"none", "notJson", "missing", "badKey", "badSig", "rawSig"}

Body == [nonce : Nonces, key : Keys, flaw : Flaws]

Statuses == {"none", "OK", "INVALID_BODY", "MISSING_FIELDS", "INVALID_NONCE",
             "INVALID_KEY", "UNAUTHORIZED", "INVALID_SIGNATURE", "FAILED"}

\* ctx.acl[fp] ?? ctx.acl["*"]: an entry of its own, even an empty one, wins.
ScopesFor(k) == IF k \in DOMAIN Acl THEN Acl[k] ELSE wildcard

Init ==
  /\ now = 0
  /\ nonceStore = [n \in Nonces |-> NoEntry]
  /\ issued = {}
  /\ pc = [r \in Reqs |-> "idle"]
  /\ body = [r \in Reqs |-> NoBody]
  /\ status = [r \in Reqs |-> "none"]
  /\ granted = [r \in Reqs |-> NoAcl]
  /\ spent = {}
  /\ together = {}
  /\ wildcard \in Wildcards

Goto(r, label) == pc' = [pc EXCEPT ![r] = label]

Answer(r, code) ==
  /\ pc' = [pc EXCEPT ![r] = "done"]
  /\ status' = [status EXCEPT ![r] = code]

Nonce(r) == body[r].nonce

\* Requests that have looked up the nonce of r and are about to delete it.
Rivals(r) == {q \in Reqs \ {r} : pc[q] = "delete" /\ Nonce(q) = Nonce(r)}

-----------------------------------------------------------------------------
(* Mutants: one plausible slip each.  They are not part of the             *)
(* specification.                                                          *)

ChallengeNoTtl(n) ==
  /\ n \notin issued
  /\ issued' = issued \cup {n}
  /\ nonceStore' = [nonceStore EXCEPT ![n] = ExpiryFor(0, now)]
  /\ UNCHANGED <<now, pc, body, status, granted, spent, together, wildcard>>

ConsumeDeleteLate(r) ==
  /\ pc[r] = "delete"
  /\ spent' = spent \cup {Nonce(r)}
  /\ Goto(r, "import")
  /\ UNCHANGED <<now, nonceStore, issued, body, status, granted, together,
                 wildcard>>

ImportKeyFirst(r) ==
  /\ pc[r] = "get"
  /\ body[r].flaw = "badKey"
  /\ Answer(r, "INVALID_KEY")
  /\ UNCHANGED <<now, nonceStore, issued, body, granted, spent, together,
                 wildcard>>

ConsumeGetKeyFirst(r) ==
  \/ ImportKeyFirst(r)
  \/ /\ pc[r] = "get"
     /\ body[r].flaw # "badKey"
     /\ nonceStore[Nonce(r)] # NoEntry
     /\ Goto(r, "delete")
     /\ UNCHANGED <<now, nonceStore, issued, body, status, granted, spent,
                    together, wildcard>>

VerifySkipped(r) ==
  /\ pc[r] = "verify"
  /\ Goto(r, "store")
  /\ UNCHANGED <<now, nonceStore, issued, body, status, granted, spent,
                 together, wildcard>>

-----------------------------------------------------------------------------

\* GET /.jdp/challenge: a fresh nonce is stored for NonceTtl, then returned.
Challenge(n) ==
  /\ n \notin issued
  /\ issued' = issued \cup {n}
  /\ nonceStore' = [nonceStore EXCEPT ![n] = ExpiryFor(NonceTtl, now)]
  /\ UNCHANGED <<now, pc, body, status, granted, spent, together, wildcard>>

\* POST /.jdp/auth: parse the body and check that no field is missing.  The
\* nonce is one the server has handed out: to this client, or to the client
\* whose request this one repeats.
AuthBegin(r) ==
  /\ pc[r] = "idle"
  /\ \E b \in Body :
       /\ b.nonce \in issued
       /\ body' = [body EXCEPT ![r] = b]
       /\ \/ b.flaw = "notJson" /\ Answer(r, "INVALID_BODY")
          \/ b.flaw = "missing" /\ Answer(r, "MISSING_FIELDS")
          \/ /\ b.flaw \notin {"notJson", "missing"}
             /\ Goto(r, "get")
             /\ UNCHANGED status
  /\ UNCHANGED <<now, nonceStore, issued, granted, spent, together, wildcard>>

\* NonceCache.consume, first await: storage.get.  A lapsed entry is removed
\* by the lookup itself.
ConsumeGet(r) ==
  /\ pc[r] = "get"
  /\ \/ /\ nonceStore[Nonce(r)] = NoEntry
        /\ Answer(r, "INVALID_NONCE")
        /\ UNCHANGED <<nonceStore, together>>
     \/ /\ nonceStore[Nonce(r)] # NoEntry
        /\ Lapsed(nonceStore[Nonce(r)], now)
        /\ Answer(r, "INVALID_NONCE")
        /\ nonceStore' = [nonceStore EXCEPT ![Nonce(r)] = NoEntry]
        /\ UNCHANGED together
     \/ /\ nonceStore[Nonce(r)] # NoEntry
        /\ ~Lapsed(nonceStore[Nonce(r)], now)
        /\ Goto(r, "delete")
        /\ together' = together \cup {{r, q} : q \in Rivals(r)}
        /\ UNCHANGED <<status, nonceStore>>
  /\ UNCHANGED <<now, issued, body, granted, spent, wildcard>>

\* NonceCache.consume, second await: storage.delete.
ConsumeDelete(r) ==
  /\ pc[r] = "delete"
  /\ nonceStore' = [nonceStore EXCEPT ![Nonce(r)] = NoEntry]
  /\ spent' = spent \cup {Nonce(r)}
  /\ Goto(r, "import")
  /\ UNCHANGED <<now, issued, body, status, granted, together, wildcard>>

\* Import the client key, compute its fingerprint, look it up in the ACL.
ImportKey(r) ==
  /\ pc[r] = "import"
  /\ \/ /\ body[r].flaw = "badKey"
        /\ Answer(r, "INVALID_KEY")
     \/ /\ body[r].flaw # "badKey"
        /\ ScopesFor(body[r].key) = NoAcl
        /\ Answer(r, "UNAUTHORIZED")
     \/ /\ body[r].flaw # "badKey"
        /\ ScopesFor(body[r].key) # NoAcl
        /\ Goto(r, "verify")
        /\ UNCHANGED status
  /\ UNCHANGED <<now, nonceStore, issued, body, granted, spent, together,
                 wildcard>>

\* Verify the signature of the nonce with the imported key.
VerifySignature(r) ==
  /\ pc[r] = "verify"
  /\ \/ /\ body[r].flaw = "badSig"
        /\ Answer(r, "INVALID_SIGNATURE")
     \/ /\ body[r].flaw = "rawSig"
        /\ Answer(r, "FAILED")
     \/ /\ body[r].flaw = "none"
        /\ Goto(r, "store")
        /\ UNCHANGED status
  /\ UNCHANGED <<now, nonceStore, issued, body, granted, spent, together,
                 wildcard>>

\* SessionStore.create stores the session; the response carries its scopes.
CreateSession(r) ==
  /\ pc[r] = "store"
  /\ granted' = [granted EXCEPT ![r] = ScopesFor(body[r].key)]
  /\ Answer(r, "OK")
  /\ UNCHANGED <<now, nonceStore, issued, body, spent, together, wildcard>>

\* A storage call rejects; a delete that fails may have taken effect.
StorageFails(r) ==
  /\ pc[r] \in {"get", "delete", "store"}
  /\ Answer(r, "FAILED")
  /\ \/ UNCHANGED <<nonceStore, spent>>
     \/ /\ pc[r] = "delete"
        /\ nonceStore' = [nonceStore EXCEPT ![Nonce(r)] = NoEntry]
        /\ spent' = spent \cup {Nonce(r)}
  /\ UNCHANGED <<now, issued, body, granted, together, wildcard>>

Tick ==
  /\ now < MaxTime
  /\ now' = now + 1
  /\ UNCHANGED <<nonceStore, issued, pc, body, status, granted, spent,
                 together, wildcard>>

Step(r) ==
  \/ ConsumeGet(r)
  \/ ConsumeDelete(r)
  \/ ImportKey(r)
  \/ VerifySignature(r)
  \/ CreateSession(r)

Next ==
  \/ \E n \in Nonces : Challenge(n)
  \/ \E r \in Reqs : AuthBegin(r) \/ Step(r) \/ StorageFails(r)
  \/ Tick

Spec == Init /\ [][Next]_vars

-----------------------------------------------------------------------------

\* Types; an entry of the store never outlives its nonce's ttl.
TypeOK ==
  /\ now \in 0..MaxTime
  /\ issued \in SUBSET Nonces
  /\ spent \in SUBSET issued
  /\ nonceStore \in [Nonces -> {NoEntry} \cup 0..(MaxTime + NonceTtl)]
  /\ pc \in [Reqs -> {"idle", "get", "delete", "import", "verify", "store",
                      "done"}]
  /\ body \in [Reqs -> Body \cup {NoBody}]
  /\ status \in [Reqs -> Statuses]
  /\ granted \in [Reqs -> (SUBSET UNION {Acl[k] : k \in DOMAIN Acl})
                            \cup {NoAcl} \cup Wildcards]
  /\ together \in SUBSET SUBSET Reqs
  /\ wildcard \in Wildcards

\* README.md:334, "Nonces are single-use": no two requests get a session over
\* the same nonce.
NonceSingleUse ==
  \A r, q \in Reqs :
    r # q /\ granted[r] # NoAcl /\ granted[q] # NoAcl => Nonce(r) # Nonce(q)

\* What consume does guarantee: two sessions come of one nonce only if their
\* requests were both between its get and its delete at one time, whatever
\* else is interleaved, lapses or fails.
OnlyRacersShare ==
  \A r, q \in Reqs :
    (/\ r # q /\ granted[r] # NoAcl /\ granted[q] # NoAcl
     /\ Nonce(r) = Nonce(q))
      => {r, q} \in together

\* Every attempt burns its nonce: when a request has been answered with any
\* verdict on the nonce, key or signature, good or bad, the nonce is gone from
\* the store and cannot be tried with another key or signature.
AnswerBurnsNonce ==
  \A r \in Reqs :
    status[r] \in {"OK", "INVALID_NONCE", "INVALID_KEY", "UNAUTHORIZED",
                  "INVALID_SIGNATURE"}
      => nonceStore[Nonce(r)] = NoEntry

\* A session exists only for a well-formed request, over a nonce this server
\* issued and consumed, signed by a key the ACL admits, with exactly the
\* scopes of that key (its own entry before the wildcard).
GrantIsEarned ==
  \A r \in Reqs :
    granted[r] # NoAcl =>
      /\ status[r] = "OK"
      /\ body[r].flaw = "none"
      /\ Nonce(r) \in spent
      /\ granted[r] = ScopesFor(body[r].key)

=============================================================================
