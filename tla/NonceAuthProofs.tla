-------------------------- MODULE NonceAuthProofs --------------------------
(***************************************************************************)
(* Proofs about NonceAuth, for any number of nonces, requests and keys.    *)
(* The inductive invariant adds to the properties what the program text    *)
(* knows at each await: a request past its first line has a body whose     *)
(* nonce was issued; one past consume has burnt that nonce; one past the   *)
(* verification carries a flawless request of a key in the ACL; two past   *)
(* the lookup of one nonce have met there.                                 *)
(***************************************************************************)
EXTENDS NonceAuth, TLAPS

\* A request that has begun carries a body whose nonce was issued.
BodyPresent ==
  \A r \in Reqs : pc[r] # "idle" => body[r] \in Body /\ Nonce(r) \in issued

\* A burnt nonce never comes back to the store.
SpentGone == \A n \in spent : nonceStore[n] = NoEntry

\* Past consume the request's nonce is burnt.
PastConsume ==
  \A r \in Reqs :
    pc[r] \in {"import", "verify", "store"} => Nonce(r) \in spent

\* Past verification the request is flawless.
PastVerify == \A r \in Reqs : pc[r] = "store" => body[r].flaw = "none"

\* Only an answered request has a status, and only it can have scopes.
Unanswered ==
  \A r \in Reqs :
    pc[r] # "done" => status[r] = "none" /\ granted[r] = NoAcl

\* Past the lookup, with no failure so far.
Accepted(r) ==
  pc[r] \in {"delete", "import", "verify", "store"} \/ granted[r] # NoAcl

\* Two requests accepted for one nonce have met between its get and its delete.
RacersKnown ==
  \A r, q \in Reqs :
    r # q /\ Accepted(r) /\ Accepted(q) /\ Nonce(r) = Nonce(q)
      => {r, q} \in together

IInv ==
  /\ TypeOK
  /\ BodyPresent
  /\ SpentGone
  /\ PastConsume
  /\ PastVerify
  /\ Unanswered
  /\ AnswerBurnsNonce
  /\ GrantIsEarned
  /\ RacersKnown

\* No nonce has been issued and no request made.
LEMMA InitIInv == Init => IInv
  BY NonceAssumption
  DEF Init, IInv, TypeOK, BodyPresent, SpentGone, PastConsume, PastVerify,
      Unanswered, AnswerBurnsNonce, GrantIsEarned, Statuses, RacersKnown,
      Accepted

\* Scopes computed from the ACL are of the type of `granted`.
LEMMA ScopesType ==
  ASSUME TypeOK, NEW k
  PROVE  ScopesFor(k) \in (SUBSET UNION {Acl[j] : j \in DOMAIN Acl})
                            \cup {NoAcl} \cup Wildcards
  BY DEF ScopesFor, TypeOK

\* Who has not been accepted by this step was before; a request that is passed
\* over keeps its nonce.
LEMMA RacersStay ==
  ASSUME RacersKnown, together' = together,
         \A r \in Reqs : Accepted(r)' => Accepted(r) /\ body'[r] = body[r]
  PROVE  RacersKnown'
  BY DEF RacersKnown, Nonce

\* A challenge issues a nonce that no request has named.
LEMMA ChallengeIInv ==
  ASSUME IInv, NEW n \in Nonces, Challenge(n)
  PROVE  IInv'
<1> USE DEF IInv
<1>1. ExpiryFor(NonceTtl, now) \in 0..(MaxTime + NonceTtl)
  BY NonceAssumption DEF ExpiryFor, TypeOK
<1>2. TypeOK'
  BY <1>1 DEF Challenge, TypeOK
<1>3. SpentGone'
  BY DEF Challenge, TypeOK, SpentGone
<1>4. AnswerBurnsNonce'
  <2> SUFFICES ASSUME NEW r \in Reqs, status[r] # "none",
                      nonceStore[Nonce(r)] = NoEntry
               PROVE  nonceStore'[Nonce(r)] = NoEntry
    BY DEF Challenge, AnswerBurnsNonce, Nonce
  <2>1. Nonce(r) \in issued
    BY DEF Unanswered, BodyPresent
  <2> QED  BY <2>1 DEF Challenge, TypeOK
<1>5. (BodyPresent /\ PastConsume /\ PastVerify /\ Unanswered /\ GrantIsEarned)'
  BY DEF Challenge, BodyPresent, PastConsume, PastVerify, Unanswered,
         GrantIsEarned, Nonce, ScopesFor
<1>6. RacersKnown'
  BY RacersStay DEF Challenge, Accepted
<1> QED  BY <1>2, <1>3, <1>4, <1>5, <1>6

\* A request with a body enters handleAuth.
LEMMA AuthBeginIInv ==
  ASSUME IInv, NEW r \in Reqs, AuthBegin(r)
  PROVE  IInv'
<1> USE DEF IInv
<1>0. PICK b \in Body :
        /\ b.nonce \in issued
        /\ body' = [body EXCEPT ![r] = b]
        /\ \/ /\ pc' = [pc EXCEPT ![r] = "done"]
              /\ \E code \in {"INVALID_BODY", "MISSING_FIELDS"} :
                   status' = [status EXCEPT ![r] = code]
           \/ pc' = [pc EXCEPT ![r] = "get"] /\ UNCHANGED status
  BY DEF AuthBegin, Answer, Goto
<1>1. /\ pc[r] = "idle"
      /\ UNCHANGED <<now, nonceStore, issued, granted, spent, together,
                     wildcard>>
  BY DEF AuthBegin
<1>2. TypeOK'
  BY <1>0, <1>1 DEF TypeOK, Statuses
<1>3. (BodyPresent /\ SpentGone /\ PastConsume /\ PastVerify /\ Unanswered)'
  BY <1>0, <1>1
  DEF TypeOK, BodyPresent, SpentGone, PastConsume, PastVerify, Unanswered, Nonce
<1>4. (AnswerBurnsNonce /\ GrantIsEarned)'
  BY <1>0, <1>1
  DEF TypeOK, Unanswered, AnswerBurnsNonce, GrantIsEarned, Nonce, ScopesFor
<1>5. RacersKnown'
  BY <1>0, <1>1, RacersStay DEF TypeOK, Unanswered, Accepted
<1> QED  BY <1>2, <1>3, <1>4, <1>5

\* The lookup of consume decides whether the nonce may be burnt.
LEMMA ConsumeGetIInv ==
  ASSUME IInv, NEW r \in Reqs, ConsumeGet(r)
  PROVE  IInv'
<1> USE DEF IInv
<1>1. /\ pc[r] = "get" /\ UNCHANGED <<now, issued, body, granted, spent, wildcard>>
      /\ Nonce(r) \in Nonces /\ body[r] \in Body
  BY DEF ConsumeGet, BodyPresent, TypeOK
<1>2. \/ /\ pc' = [pc EXCEPT ![r] = "done"]
         /\ status' = [status EXCEPT ![r] = "INVALID_NONCE"]
         /\ UNCHANGED together
         /\ \/ nonceStore' = [nonceStore EXCEPT ![Nonce(r)] = NoEntry]
            \/ UNCHANGED nonceStore /\ nonceStore[Nonce(r)] = NoEntry
      \/ /\ pc' = [pc EXCEPT ![r] = "delete"]
         /\ nonceStore[Nonce(r)] # NoEntry
         /\ together' = together \cup {{r, q} : q \in Rivals(r)}
         /\ UNCHANGED <<status, nonceStore>>
  BY DEF ConsumeGet, Answer, Goto
<1>3. TypeOK'
  BY <1>1, <1>2 DEF TypeOK, Statuses, Rivals
<1>4. (BodyPresent /\ SpentGone /\ PastConsume /\ PastVerify /\ Unanswered)'
  BY <1>1, <1>2
  DEF TypeOK, BodyPresent, SpentGone, PastConsume, PastVerify, Unanswered, Nonce
<1>5. AnswerBurnsNonce'
  BY <1>1, <1>2
  DEF TypeOK, AnswerBurnsNonce, BodyPresent, Unanswered, Nonce
<1>6. GrantIsEarned'
  <2> SUFFICES ASSUME NEW q \in Reqs, granted[q] # NoAcl
               PROVE  status'[q] = "OK"
    BY <1>1 DEF GrantIsEarned, Nonce, ScopesFor
  <2>1. q # r
    BY <1>1 DEF Unanswered
  <2> QED  BY <1>1, <1>2, <2>1 DEF TypeOK, GrantIsEarned
<1>7. RacersKnown'
  <2>1. CASE pc' = [pc EXCEPT ![r] = "done"] /\ UNCHANGED together
    BY <1>1, <2>1, RacersStay DEF TypeOK, Accepted
  <2>2. CASE /\ pc' = [pc EXCEPT ![r] = "delete"]
             /\ nonceStore[Nonce(r)] # NoEntry
             /\ together' = together \cup {{r, q} : q \in Rivals(r)}
    <3>1. ASSUME NEW q \in Reqs, q # r, Accepted(q)', Nonce(q) = Nonce(r)
          PROVE  {r, q} \in together'
      <4>1. Accepted(q)
        BY <1>1, <2>2, <3>1 DEF TypeOK, Accepted
      <4>2. Nonce(q) \notin spent
        BY <2>2, <3>1 DEF SpentGone
      <4>3. pc[q] = "delete"
        BY <4>1, <4>2 DEF Accepted, PastConsume, GrantIsEarned
      <4> QED  BY <2>2, <3>1, <4>3 DEF Rivals
    <3>2. ASSUME NEW p \in Reqs, NEW q \in Reqs, p # q, p # r, q # r,
                 Accepted(p)', Accepted(q)', Nonce(p) = Nonce(q)
          PROVE  {p, q} \in together'
      BY <1>1, <2>2, <3>2 DEF TypeOK, Accepted, RacersKnown
    <3>3. \A p, q : {p, q} = {q, p}
      OBVIOUS
    <3> QED  BY <1>1, <3>1, <3>2, <3>3 DEF RacersKnown, Nonce
  <2> QED  BY <1>2, <2>1, <2>2
<1> QED  BY <1>3, <1>4, <1>5, <1>6, <1>7

\* The delete of consume burns the nonce.
LEMMA ConsumeDeleteIInv ==
  ASSUME IInv, NEW r \in Reqs, ConsumeDelete(r)
  PROVE  IInv'
<1> USE DEF IInv, ConsumeDelete, Goto
<1>1. Nonce(r) \in issued /\ body[r] \in Body
  BY DEF BodyPresent
<1>2. TypeOK'
  BY <1>1 DEF TypeOK
<1>3. (BodyPresent /\ SpentGone /\ PastConsume /\ PastVerify /\ Unanswered)'
  BY <1>1
  DEF TypeOK, BodyPresent, SpentGone, PastConsume, PastVerify, Unanswered, Nonce
<1>4. (AnswerBurnsNonce /\ GrantIsEarned)'
  BY <1>1 DEF TypeOK, AnswerBurnsNonce, GrantIsEarned, Nonce, ScopesFor
<1>5. RacersKnown'
  BY RacersStay DEF TypeOK, Accepted
<1> QED  BY <1>2, <1>3, <1>4, <1>5

\* The three steps that run between consume and the response.
LEMMA VerdictIInv ==
  ASSUME IInv, NEW r \in Reqs,
         ImportKey(r) \/ VerifySignature(r) \/ CreateSession(r)
  PROVE  IInv'
<1> USE DEF IInv
<1>1. Nonce(r) \in spent /\ body[r] \in Body /\ nonceStore[Nonce(r)] = NoEntry
  BY DEF ImportKey, VerifySignature, CreateSession, BodyPresent, PastConsume,
         SpentGone
<1>2. CASE ImportKey(r)
  <2> USE <1>2 DEF ImportKey, Answer, Goto
  <2>1. TypeOK'
    BY DEF TypeOK, Statuses
  <2>2. (BodyPresent /\ SpentGone /\ PastConsume /\ PastVerify /\ Unanswered)'
    BY <1>1
    DEF TypeOK, BodyPresent, SpentGone, PastConsume, PastVerify, Unanswered, Nonce
  <2>3. (AnswerBurnsNonce /\ GrantIsEarned)'
    BY <1>1
    DEF TypeOK, Unanswered, AnswerBurnsNonce, GrantIsEarned, Nonce, ScopesFor
  <2>4. RacersKnown'
    BY RacersStay DEF TypeOK, Accepted
  <2> QED  BY <2>1, <2>2, <2>3, <2>4
<1>3. CASE VerifySignature(r)
  <2> USE <1>3 DEF VerifySignature, Answer, Goto
  <2>1. TypeOK'
    BY DEF TypeOK, Statuses
  <2>2. (BodyPresent /\ SpentGone /\ PastConsume /\ PastVerify /\ Unanswered)'
    BY <1>1
    DEF TypeOK, BodyPresent, SpentGone, PastConsume, PastVerify, Unanswered, Nonce
  <2>3. (AnswerBurnsNonce /\ GrantIsEarned)'
    BY <1>1
    DEF TypeOK, Unanswered, AnswerBurnsNonce, GrantIsEarned, Nonce, ScopesFor
  <2>4. RacersKnown'
    BY RacersStay DEF TypeOK, Accepted
  <2> QED  BY <2>1, <2>2, <2>3, <2>4
<1>4. CASE CreateSession(r)
  <2> USE <1>4 DEF CreateSession, Answer
  <2>1. TypeOK'
    BY ScopesType DEF TypeOK, Statuses
  <2>2. (BodyPresent /\ SpentGone /\ PastConsume /\ PastVerify /\ Unanswered)'
    BY <1>1
    DEF TypeOK, BodyPresent, SpentGone, PastConsume, PastVerify, Unanswered, Nonce
  <2>3. AnswerBurnsNonce'
    BY <1>1 DEF TypeOK, AnswerBurnsNonce, Nonce
  <2>4. GrantIsEarned'
    <3> SUFFICES ASSUME NEW q \in Reqs, granted'[q] # NoAcl
                 PROVE  /\ status'[q] = "OK"
                        /\ body[q].flaw = "none"
                        /\ Nonce(q) \in spent
                        /\ granted'[q] = ScopesFor(body[q].key)
      BY DEF GrantIsEarned, ScopesFor, Nonce
    <3>1. CASE q = r
      BY <1>1, <3>1 DEF TypeOK, PastVerify
    <3>2. CASE q # r
      BY <3>2 DEF TypeOK, GrantIsEarned
    <3> QED  BY <3>1, <3>2
  <2>5. RacersKnown'
    BY RacersStay DEF TypeOK, Accepted
  <2> QED  BY <2>1, <2>2, <2>3, <2>4, <2>5
<1> QED  BY <1>2, <1>3, <1>4

\* A failed call answers without a verdict, whatever its effect.
LEMMA StorageFailsIInv ==
  ASSUME IInv, NEW r \in Reqs, StorageFails(r)
  PROVE  IInv'
<1> USE DEF IInv, StorageFails, Answer
<1>1. Nonce(r) \in issued /\ body[r] \in Body
  BY DEF BodyPresent
<1>2. TypeOK'
  BY <1>1 DEF TypeOK, Statuses
<1>3. (BodyPresent /\ SpentGone /\ PastConsume /\ PastVerify /\ Unanswered)'
  BY <1>1
  DEF TypeOK, BodyPresent, SpentGone, PastConsume, PastVerify, Unanswered, Nonce
<1>4. AnswerBurnsNonce'
  BY <1>1
  DEF TypeOK, AnswerBurnsNonce, BodyPresent, Unanswered, Nonce
<1>5. GrantIsEarned'
  <2> SUFFICES ASSUME NEW q \in Reqs, granted[q] # NoAcl
               PROVE  status'[q] = "OK" /\ Nonce(q) \in spent'
    BY <1>1 DEF GrantIsEarned, Nonce, ScopesFor
  <2>1. q # r
    BY <1>1 DEF Unanswered
  <2> QED  BY <1>1, <2>1 DEF TypeOK, GrantIsEarned
<1>6. RacersKnown'
  BY RacersStay DEF TypeOK, Accepted
<1> QED  BY <1>2, <1>3, <1>4, <1>5, <1>6

\* Time passes, or nothing happens.
LEMMA QuietIInv ==
  ASSUME IInv, Tick \/ UNCHANGED vars
  PROVE  IInv'
<1> USE DEF IInv
<1>1. TypeOK'
  BY NonceAssumption DEF Tick, vars, TypeOK
<1>2. UNCHANGED <<nonceStore, issued, pc, body, status, granted, spent, together,
                 wildcard>>
  BY DEF Tick, vars
<1>3. (BodyPresent /\ SpentGone /\ PastConsume /\ PastVerify /\ Unanswered)'
  BY <1>2
  DEF BodyPresent, SpentGone, PastConsume, PastVerify, Unanswered, Nonce
<1>4. AnswerBurnsNonce'
  BY <1>2 DEF AnswerBurnsNonce, Nonce
<1>5. GrantIsEarned'
  BY <1>2 DEF GrantIsEarned, Nonce, ScopesFor
<1>6. RacersKnown'
  BY <1>2, RacersStay DEF Accepted
<1> QED  BY <1>1, <1>3, <1>4, <1>5, <1>6

\* Every step preserves the invariant.
LEMMA NextIInv == IInv /\ [Next]_vars => IInv'
<1> SUFFICES ASSUME IInv, [Next]_vars
             PROVE  IInv'
  OBVIOUS
<1>1. ASSUME NEW n \in Nonces, Challenge(n) PROVE IInv'
  BY <1>1, ChallengeIInv
<1>2. ASSUME NEW r \in Reqs, AuthBegin(r) PROVE IInv'
  BY <1>2, AuthBeginIInv
<1>3. ASSUME NEW r \in Reqs, Step(r) PROVE IInv'
  BY <1>3, ConsumeGetIInv, ConsumeDeleteIInv, VerdictIInv DEF Step
<1>4. ASSUME NEW r \in Reqs, StorageFails(r) PROVE IInv'
  BY <1>4, StorageFailsIInv
<1>5. CASE Tick \/ UNCHANGED vars
  BY <1>5, QuietIInv
<1> QED  BY <1>1, <1>2, <1>3, <1>4, <1>5 DEF Next

\* The invariant holds in every reachable state of the handshake.
THEOREM Inductive == Spec => []IInv
  BY InitIInv, NextIInv, PTL DEF Spec

\* Types, for every instance.
THEOREM TypeCorrect == Spec => []TypeOK
<1>1. IInv => TypeOK  BY DEF IInv
<1> QED  BY <1>1, Inductive, PTL

\* handleAuth never answers with a verdict while the nonce is still usable.
THEOREM BurnsNonce == Spec => []AnswerBurnsNonce
<1>1. IInv => AnswerBurnsNonce  BY DEF IInv
<1> QED  BY <1>1, Inductive, PTL

\* No session without a flawless request over a burnt nonce, by an ACL key.
THEOREM EarnsGrant == Spec => []GrantIsEarned
<1>1. IInv => GrantIsEarned  BY DEF IInv
<1> QED  BY <1>1, Inductive, PTL

\* Sessions over one nonce come only of requests that raced in consume.
THEOREM SharesOnlyInRace == Spec => []OnlyRacersShare
<1>1. IInv => OnlyRacersShare
  BY DEF IInv, RacersKnown, Accepted, OnlyRacersShare
<1> QED  BY <1>1, Inductive, PTL

=============================================================================
