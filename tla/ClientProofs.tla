---------------------------- MODULE ClientProofs ----------------------------
(***************************************************************************)
(* Proofs about the client (src/src/client/client.ts).                     *)
(*                                                                         *)
(* First ExecHandle, for any iterators, waits and output.  Then            *)
(* ClientCalls, for any calls, streams, chunks and output: the tokens on   *)
(* the wire spell the frames in flight, so what Read takes from a chunk is *)
(* a prefix of them.  What the client knows of an exec and what is still   *)
(* in flight for it add up to what the server did; that is kept frame by   *)
(* frame while a chunk is dispatched.                                      *)
(***************************************************************************)
EXTENDS ClientCalls, ExecHandle, SequenceTheorems, FiniteSetTheorems,
        NaturalsInduction, WellFoundedInduction, TLAPS

-----------------------------------------------------------------------------
(* ExecHandle.                                                             *)

HandleTypes ==
  /\ transport \in {"sse", "http"}
  /\ sent \in {"pending", "ok", "failed"}
  /\ listening \in BOOLEAN
  /\ done \in BOOLEAN
  /\ error \in {"none", "frame", "send"}
  /\ chunks \in Seq(Kinds)
  /\ waiters \subseteq Readers
  /\ at \in [Readers -> {"idle", "parked", "woken", "ended"}]
  /\ cursor \in [Iterators -> Nat]
  /\ outcome \in [Waits -> {"none", "exit", "frame", "send"}]

\* Unless the send failed nothing is dispatched to a handle that is done.
DoneIsFinal == done /\ sent # "failed" => ~listening

\* What the waits of a handle that is done find.
Verdict == IF error # "none" THEN error ELSE "exit"

\* A wait that ended found what a wait would find now.
WaitsFinal ==
  \A w \in Waits : at[w] = "ended" =>
    /\ done
    /\ outcome[w] # "none"
    /\ sent # "failed" => outcome[w] = Verdict

HandleInv == HandleTypes /\ DoneIsFinal /\ WaitsFinal /\ ParkedSeesNothing

\* A fresh handle has no waiters and no chunks.
LEMMA InitHandleInv == HandleInit => HandleInv
<1> SUFFICES ASSUME HandleInit
             PROVE  HandleInv
  OBVIOUS
<1> USE DEF HandleInit
<1>1. HandleTypes
  <2>1. chunks \in Seq(Kinds)
    OBVIOUS
  <2>2. at \in [Readers -> {"idle", "parked", "woken", "ended"}]
    OBVIOUS
  <2>3. cursor \in [Iterators -> Nat]
    OBVIOUS
  <2>4. outcome \in [Waits -> {"none", "exit", "frame", "send"}]
    OBVIOUS
  <2> QED  BY <2>1, <2>2, <2>3, <2>4 DEF HandleTypes
<1>2. DoneIsFinal /\ WaitsFinal /\ ParkedSeesNothing
  BY DEF DoneIsFinal, WaitsFinal, ParkedSeesNothing, Readers
<1> QED  BY <1>1, <1>2 DEF HandleInv

-----------------------------------------------------------------------------
(* Frames and the answer to the send.                                      *)

\* A write wakes everybody: afterwards nobody is parked, and who had ended has.
LEMMA NotifyWakes ==
  ASSUME HandleInv, _notify
  PROVE  /\ ParkedSeesNothing'
         /\ waiters' \subseteq Readers
         /\ at' \in [Readers -> {"idle", "parked", "woken", "ended"}]
         /\ \A r \in Readers : at'[r] # "parked"
         /\ \A r \in Readers : at'[r] = "ended" => at[r] = "ended"
<1> USE DEF HandleInv, _notify
<1>1. /\ at' \in [Readers -> {"idle", "parked", "woken", "ended"}]
      /\ \A r \in Readers : at'[r] = "ended" => at[r] = "ended"
  BY DEF HandleTypes
<1>2. \A r \in Readers : at'[r] # "parked"
  BY DEF ParkedSeesNothing
<1> QED  BY <1>1, <1>2 DEF ParkedSeesNothing

\* Output comes to a handle that is not done, or whose send failed.
LEMMA OutFrameInv ==
  ASSUME HandleInv, NEW kind \in Kinds, OutFrame(kind)
  PROVE  HandleInv'
<1> USE DEF HandleInv, OutFrame, channelVars, readerVars
<1>1. HandleTypes'
  BY NotifyWakes DEF HandleTypes
<1>2. DoneIsFinal'
  BY DEF DoneIsFinal
<1>3. WaitsFinal'
  BY NotifyWakes DEF WaitsFinal, Verdict, Readers
<1> QED  BY <1>1, <1>2, <1>3, NotifyWakes

\* The exit frame ends a handle; after a failed send it finds waits that ended.
LEMMA ExitFrameInv ==
  ASSUME HandleInv, ExitFrame
  PROVE  HandleInv'
<1> USE DEF HandleInv, ExitFrame, readerVars
<1>1. HandleTypes'
  <2>1. chunks' \in Seq(Kinds)
    <3>1. <<"stdout", "stderr">> \in Seq(Kinds)
      BY DEF Kinds
    <3> QED  BY <3>1 DEF HandleTypes
  <2> QED  BY <2>1, NotifyWakes DEF HandleTypes, Stop
<1>2. DoneIsFinal'
  BY DEF DoneIsFinal, Stop
<1>3. WaitsFinal'
  BY NotifyWakes DEF WaitsFinal, Verdict, Readers
<1> QED  BY <1>1, <1>2, <1>3, NotifyWakes

\* An error frame finds no wait that ended, unless the send failed.
LEMMA ErrorFrameInv ==
  ASSUME HandleInv, ErrorFrame
  PROVE  HandleInv'
<1> USE DEF HandleInv, ErrorFrame, readerVars
<1>1. HandleTypes'
  BY NotifyWakes DEF HandleTypes, Stop
<1>2. DoneIsFinal'
  BY DEF DoneIsFinal, Stop
<1>3. WaitsFinal'
  BY NotifyWakes DEF WaitsFinal, DoneIsFinal, HandleTypes, Readers
<1> QED  BY <1>1, <1>2, <1>3, NotifyWakes

\* A send that is answered has not failed; one that fails may change verdicts.
LEMMA SendInv ==
  ASSUME HandleInv, SendResolves \/ _onError
  PROVE  HandleInv'
<1> USE DEF HandleInv
<1>1. CASE SendResolves
  <2> USE <1>1 DEF SendResolves, outputVars, readerVars
  <2>1. HandleTypes'
    BY DEF HandleTypes
  <2>2. DoneIsFinal' /\ WaitsFinal' /\ ParkedSeesNothing'
    BY DEF DoneIsFinal, WaitsFinal, Verdict, ParkedSeesNothing
  <2> QED  BY <2>1, <2>2
<1>2. CASE _onError
  <2> USE <1>2 DEF _onError, readerVars
  <2>1. HandleTypes'
    BY NotifyWakes DEF HandleTypes
  <2>2. DoneIsFinal'
    BY DEF DoneIsFinal
  <2>3. WaitsFinal'
    BY NotifyWakes DEF WaitsFinal, Readers
  <2> QED  BY <2>1, <2>2, <2>3, NotifyWakes
<1> QED  BY <1>1, <1>2

-----------------------------------------------------------------------------
(* Readers.                                                                *)

\* An iterator parks at the end of the output, and touches nobody else.
LEMMA ReaderInv ==
  ASSUME HandleInv, NEW i \in Iterators, Next_(i)
  PROVE  HandleInv'
<1> USE HandleAssumption DEF HandleInv, Next_, channelVars, outputVars
<1>1. /\ cursor' \in [Iterators -> Nat]
      /\ \A k \in Iterators : k # i => cursor'[k] = cursor[k]
      /\ i \in Readers /\ i \notin Waits
  BY DEF HandleTypes, Readers
<1>2. /\ at' \in [Readers -> {"idle", "parked", "woken", "ended"}]
      /\ \A r \in Readers : r # i => at'[r] = at[r]
      /\ waiters' \subseteq Readers /\ waiters \subseteq waiters'
      /\ at'[i] = "parked" => i \in waiters' /\ ~done /\ cursor'[i] = Len(chunks)
  <2>1. CASE at' = [at EXCEPT ![i] = "idle"] /\ UNCHANGED waiters
    BY <1>1, <2>1 DEF HandleTypes
  <2>2. CASE at' = [at EXCEPT ![i] = "ended"] /\ UNCHANGED waiters
    BY <1>1, <2>2 DEF HandleTypes
  <2>3. CASE /\ Park(i) /\ ~done
             /\ cursor' = [cursor EXCEPT ![i] = Len(chunks)]
    BY <1>1, <2>3 DEF HandleTypes, Park
  <2> QED  BY <2>1, <2>2, <2>3
<1>3. HandleTypes'
  BY <1>1, <1>2 DEF HandleTypes
<1>4. DoneIsFinal' /\ WaitsFinal'
  BY <1>1, <1>2 DEF DoneIsFinal, WaitsFinal, Verdict, Readers
<1>5. ParkedSeesNothing'
  BY <1>1, <1>2 DEF ParkedSeesNothing
<1> QED  BY <1>3, <1>4, <1>5

\* A wait parks while the handle is not done, and ends with the verdict.
LEMMA WaitInv ==
  ASSUME HandleInv, NEW w \in Waits, Wait(w)
  PROVE  HandleInv'
<1> USE HandleAssumption DEF HandleInv, Wait, channelVars, outputVars
<1>1. w \in Readers /\ w \notin Iterators
  BY DEF Readers
<1>2. /\ at' \in [Readers -> {"idle", "parked", "woken", "ended"}]
      /\ \A r \in Readers : r # w => at'[r] = at[r]
      /\ waiters' \subseteq Readers /\ waiters \subseteq waiters'
      /\ at'[w] = "parked" => w \in waiters' /\ ~done
  BY <1>1 DEF HandleTypes, Park
<1>3. /\ outcome' \in [Waits -> {"none", "exit", "frame", "send"}]
      /\ \A x \in Waits : x # w => outcome'[x] = outcome[x]
      /\ at'[w] = "ended" => done /\ outcome'[w] = Verdict
  BY <1>1 DEF HandleTypes, Park, Verdict
<1>4. HandleTypes'
  BY <1>2, <1>3 DEF HandleTypes
<1>5. DoneIsFinal'
  BY DEF DoneIsFinal
<1>6. WaitsFinal'
  <2>1. Verdict' = Verdict /\ Verdict # "none"
    BY DEF Verdict
  <2> QED  BY <1>2, <1>3, <2>1 DEF WaitsFinal, Readers
<1>7. ParkedSeesNothing'
  BY <1>1, <1>2 DEF ParkedSeesNothing
<1> QED  BY <1>4, <1>5, <1>6, <1>7

-----------------------------------------------------------------------------

\* Every step keeps the invariant.
LEMMA HandleStep ==
  ASSUME HandleInv, [HandleNext]_handleVars
  PROVE  HandleInv'
<1>1. CASE UNCHANGED handleVars
  BY <1>1 DEF handleVars, channelVars, outputVars, readerVars, HandleInv, HandleTypes,
     DoneIsFinal, WaitsFinal, Verdict, ParkedSeesNothing
<1> QED  BY <1>1, OutFrameInv, ExitFrameInv, ErrorFrameInv, SendInv, ReaderInv,
           WaitInv DEF HandleNext

\* The invariant holds throughout.
LEMMA HandleInvariant == HandleSpec => []HandleInv
<1> QED  BY InitHandleInv, HandleStep, PTL DEF HandleSpec

\* No wakeup is lost: whoever sleeps is in the list of waiters of a handle that
\* is not done and has looked at all its output, for any readers.
THEOREM SleepsOnNothing == HandleSpec => []ParkedSeesNothing
<1>1. HandleInv => ParkedSeesNothing
  BY DEF HandleInv
<1> QED  BY <1>1, HandleInvariant, PTL

\* Every wait that ends has an outcome, and unless the send failed it is the
\* same for all of them, however many and however late.
THEOREM WaitsFindTheSame == HandleSpec => []WaitsAgree
<1>1. HandleInv => WaitsAgree
  BY DEF HandleInv, WaitsFinal, WaitsAgree
<1> QED  BY <1>1, HandleInvariant, PTL

-----------------------------------------------------------------------------
(* What the iterators yield.                                               *)

\* The positions s are those of the chunks in ch up to c that an iterator
\* takes, in order.
Taken(ch, i, s, c) ==
  /\ \A j, k \in 1..Len(s) : j < k => s[j] < s[k]
  /\ \A k \in 1..Len(s) : s[k] \in 1..c /\ ch[s[k]] \in Filter[i]
  /\ \A j \in 1..c : ch[j] \in Filter[i] => \E k \in 1..Len(s) : s[k] = j

\* An iterator is within the output, and one that ended is at its end for good.
Yields ==
  /\ got \in [Iterators -> Seq(Nat)]
  /\ \A i \in Iterators :
       /\ cursor[i] <= Len(chunks)
       /\ Taken(chunks, i, got[i], cursor[i])
       /\ at[i] = "ended" => done /\ (sent # "failed" => cursor[i] = Len(chunks))

YieldInv == HandleInv /\ Yields

\* Chunks that come later do not matter.
LEMMA TakenBefore ==
  ASSUME NEW ch, NEW dh, NEW i, NEW s, NEW c \in Nat, Taken(ch, i, s, c),
         \A j \in 1..c : dh[j] = ch[j]
  PROVE  Taken(dh, i, s, c)
  BY DEF Taken

\* Passing chunks that are not taken.
LEMMA TakenPassing ==
  ASSUME NEW ch, NEW i, NEW s, NEW c \in Nat, NEW n \in Nat, c <= n,
         Taken(ch, i, s, c), \A k \in c + 1..n : ch[k] \notin Filter[i]
  PROVE  Taken(ch, i, s, n)
<1>1. \A k \in 1..n : ch[k] \in Filter[i] => k \in 1..c
  OBVIOUS
<1> QED  BY <1>1 DEF Taken

\* Taking the next one.
LEMMA TakenNext ==
  ASSUME NEW ch, NEW i, NEW s \in Seq(Nat), NEW c \in Nat, NEW j \in Nat, c < j,
         Taken(ch, i, s, c), \A k \in c + 1..j - 1 : ch[k] \notin Filter[i],
         ch[j] \in Filter[i]
  PROVE  Append(s, j) \in Seq(Nat) /\ Taken(ch, i, Append(s, j), j)
<1> DEFINE t == Append(s, j)
<1>1. /\ t \in Seq(Nat) /\ Len(t) = Len(s) + 1 /\ t[Len(s) + 1] = j
      /\ \A k \in 1..Len(s) : t[k] = s[k]
  BY AppendProperties
<1>2. Len(s) \in Nat
  OBVIOUS
<1> HIDE DEF t
<1>3. \A k \in 1..Len(t) : k \in 1..Len(s) \/ k = Len(s) + 1
  BY <1>1, <1>2
<1>4. \A k \in 1..Len(s) : s[k] \in 1..c
  BY DEF Taken
<1>5. ASSUME NEW k \in 1..Len(t), NEW l \in 1..Len(t), k < l
      PROVE  t[k] < t[l]
  <2>1. k \in 1..Len(s)
    BY <1>1, <1>2, <1>5
  <2>2. CASE l \in 1..Len(s)
    BY <1>1, <1>5, <2>1, <2>2 DEF Taken
  <2>3. CASE l = Len(s) + 1
    <3>1. t[k] = s[k] /\ t[l] = j /\ s[k] \in 1..c
      BY <1>1, <1>4, <2>1, <2>3
    <3> QED  BY <3>1
  <2> QED  BY <1>3, <2>2, <2>3
<1>6. ASSUME NEW k \in 1..Len(t)
      PROVE  t[k] \in 1..j /\ ch[t[k]] \in Filter[i]
  <2>1. CASE k \in 1..Len(s)
    <3>1. t[k] = s[k] /\ s[k] \in 1..c /\ ch[s[k]] \in Filter[i]
      BY <1>1, <2>1 DEF Taken
    <3> QED  BY <3>1
  <2>2. CASE k = Len(s) + 1
    BY <1>1, <2>2
  <2> QED  BY <1>3, <2>1, <2>2
<1>7. ASSUME NEW k \in 1..j, ch[k] \in Filter[i]
      PROVE  \E l \in 1..Len(t) : t[l] = k
  <2>1. k \in 1..c \/ k = j
    BY <1>7
  <2>2. CASE k \in 1..c
    <3>1. PICK l \in 1..Len(s) : s[l] = k
      BY <1>7, <2>2 DEF Taken
    <3> QED  BY <1>1, <1>2, <3>1
  <2>3. CASE k = j
    BY <1>1, <1>2, <2>3
  <2> QED  BY <2>1, <2>2, <2>3
<1>8. Taken(ch, i, t, j)
  BY <1>5, <1>6, <1>7 DEF Taken
<1> QED  BY <1>1, <1>8 DEF t

\* Output only grows, and only while the handle listens.
LEMMA GrowthKeeps ==
  ASSUME YieldInv, HandleTypes', listening, UNCHANGED <<sent, cursor, got>>, done => done',
         \A r \in Readers : at'[r] = "ended" => at[r] = "ended",
         Len(chunks) <= Len(chunks'),
         \A j \in 1..Len(chunks) : chunks'[j] = chunks[j]
  PROVE  Yields'
<1> USE DEF YieldInv, Yields
<1> SUFFICES ASSUME NEW i \in Iterators
             PROVE  /\ cursor[i] <= Len(chunks')
                    /\ Taken(chunks', i, got[i], cursor[i])
                    /\ at'[i] = "ended" =>
                         done' /\ (sent # "failed" => cursor[i] = Len(chunks'))
  OBVIOUS
<1>1. /\ cursor[i] \in Nat /\ Len(chunks) \in Nat /\ Len(chunks') \in Nat
      /\ i \in Readers
  BY DEF HandleInv, HandleTypes, Readers
<1>2. cursor[i] <= Len(chunks')
  BY <1>1
<1>3. \A j \in 1..cursor[i] : chunks'[j] = chunks[j]
  BY <1>1
<1>4. Taken(chunks', i, got[i], cursor[i])
  BY <1>1, <1>3, TakenBefore
<1>5. at'[i] = "ended" => done' /\ (sent # "failed" => cursor[i] = Len(chunks'))
  BY <1>1 DEF HandleInv, DoneIsFinal
<1> QED  BY <1>2, <1>4, <1>5

\* A step that leaves the output and the iterators alone.
LEMMA SameYields ==
  ASSUME YieldInv, UNCHANGED <<chunks, cursor, got>>, done => done',
         sent' # "failed" => sent # "failed",
         \A i \in Iterators : at'[i] = "ended" => at[i] = "ended"
  PROVE  Yields'
  BY DEF YieldInv, Yields

\* An iterator passes what it does not take, and takes what it stops at.
LEMMA NextYields ==
  ASSUME YieldInv, NEW i \in Iterators, Next_(i)
  PROVE  Yields'
<1> USE HandleAssumption DEF YieldInv, Yields
<1>1. /\ UNCHANGED <<chunks, done, sent>> /\ i \in Readers
      /\ chunks \in Seq(Kinds) /\ Len(chunks) \in Nat
      /\ cursor[i] \in Nat /\ cursor[i] <= Len(chunks)
      /\ cursor \in [Iterators -> Nat]
      /\ at \in [Readers -> {"idle", "parked", "woken", "ended"}]
      /\ got \in [Iterators -> Seq(Nat)]
      /\ Taken(chunks, i, got[i], cursor[i])
  BY DEF Next_, channelVars, outputVars, HandleInv, HandleTypes, Readers
<1>2. ASSUME NEW k \in Iterators \ {i}
      PROVE  cursor'[k] = cursor[k] /\ got'[k] = got[k] /\ at'[k] = at[k]
  BY <1>1 DEF Next_, Park, Readers
<1>3. /\ got' \in [Iterators -> Seq(Nat)] /\ cursor'[i] <= Len(chunks)
      /\ Taken(chunks, i, got'[i], cursor'[i])
      /\ at'[i] = "ended" => done /\ cursor'[i] = Len(chunks)
  <2>1. ASSUME NEW j \in cursor[i] + 1..Len(chunks),
               Passes(i, j - 1), chunks[j] \in Filter[i],
               cursor' = [cursor EXCEPT ![i] = j],
               got' = [got EXCEPT ![i] = Append(@, j)],
               at' = [at EXCEPT ![i] = "idle"]
        PROVE  <1>3
    <3>1. j \in Nat /\ cursor[i] < j /\ j <= Len(chunks)
      BY <1>1
    <3>2. /\ cursor'[i] = j /\ at'[i] = "idle"
          /\ got'[i] = Append(got[i], j)
      BY <1>1, <2>1
    <3>3. Append(got[i], j) \in Seq(Nat) /\ Taken(chunks, i, Append(got[i], j), j)
      BY <1>1, <2>1, <3>1, TakenNext DEF Passes
    <3>4. got' \in [Iterators -> Seq(Nat)]
      BY <1>1, <2>1, <3>3
    <3> QED  BY <3>1, <3>2, <3>3, <3>4
  <2>2. ASSUME Passes(i, Len(chunks)),
               cursor' = [cursor EXCEPT ![i] = Len(chunks)], UNCHANGED got,
               at'[i] = "ended" => done
        PROVE  <1>3
    <3>1. cursor'[i] = Len(chunks)
      BY <1>1, <2>2
    <3>2. Taken(chunks, i, got[i], Len(chunks))
      BY <1>1, <2>2, TakenPassing DEF Passes
    <3> QED  BY <1>1, <2>2, <3>1, <3>2
  <2> QED  BY <1>1, <2>1, <2>2 DEF Next_, Park
<1>4. ASSUME NEW k \in Iterators
      PROVE  /\ cursor'[k] <= Len(chunks)
             /\ Taken(chunks, k, got'[k], cursor'[k])
             /\ at'[k] = "ended" =>
                  done /\ (sent # "failed" => cursor'[k] = Len(chunks))
  <2>1. CASE k = i
    BY <1>3, <2>1
  <2>2. CASE k # i
    BY <1>2, <2>2
  <2> QED  BY <2>1, <2>2
<1> QED  BY <1>1, <1>3, <1>4

\* Nothing has been yielded of no output.
LEMMA InitYieldInv == HandleInit => YieldInv
<1> SUFFICES ASSUME HandleInit
             PROVE  Yields
  BY InitHandleInv DEF YieldInv
<1> USE DEF HandleInit
<1>1. <<>> \in Seq(Nat) /\ Len(<<>>) = 0
  OBVIOUS
<1>2. got \in [Iterators -> Seq(Nat)]
  BY <1>1
<1>3. ASSUME NEW i \in Iterators
      PROVE  /\ cursor[i] = 0 /\ Len(chunks) = 0 /\ at[i] # "ended"
             /\ Taken(chunks, i, got[i], 0)
  BY <1>1 DEF Taken, Readers
<1> QED  BY <1>2, <1>3 DEF Yields

\* Every step keeps what the iterators yield exact.
LEMMA NextYieldInv == YieldInv /\ [HandleNext]_handleVars => YieldInv'
<1> SUFFICES ASSUME YieldInv, [HandleNext]_handleVars
             PROVE  Yields'
  BY HandleStep DEF YieldInv
<1>1. HandleInv /\ HandleTypes /\ HandleTypes'
  BY HandleStep DEF YieldInv, HandleInv
<1>2. ASSUME _notify
      PROVE  \A r \in Readers : at'[r] = "ended" => at[r] = "ended"
  BY <1>1, <1>2, NotifyWakes
<1>3. ASSUME NEW kind \in Kinds, OutFrame(kind)
      PROVE  Yields'
  <2>1. /\ Len(chunks) <= Len(chunks')
        /\ \A j \in 1..Len(chunks) : chunks'[j] = chunks[j]
    BY <1>1, <1>3, AppendProperties DEF OutFrame, HandleTypes
  <2> QED  BY <1>1, <1>2, <1>3, <2>1, GrowthKeeps DEF OutFrame, channelVars, readerVars
<1>4. CASE ExitFrame
  <2>1. /\ Len(chunks) <= Len(chunks')
        /\ \A j \in 1..Len(chunks) : chunks'[j] = chunks[j]
    <3>1. CASE chunks' = chunks
      BY <1>1, <3>1 DEF HandleTypes
    <3>2. CASE chunks' = chunks \o <<"stdout", "stderr">>
      <4> DEFINE e == <<"stdout", "stderr">>
                 c == chunks
      <4>1. e \in Seq(Kinds) /\ c \in Seq(Kinds)
        BY <1>1 DEF Kinds, HandleTypes
      <4>2. chunks' = c \o e
        BY <3>2
      <4> HIDE DEF e, c
      <4>3. /\ Len(c \o e) = Len(c) + Len(e) /\ Len(c) \in Nat /\ Len(e) \in Nat
            /\ \A j \in 1..Len(c) + Len(e) :
                 (c \o e)[j] = IF j <= Len(c) THEN c[j] ELSE e[j - Len(c)]
        BY <4>1, ConcatProperties, LenProperties
      <4>4. \A j \in 1..Len(c) : j \in 1..Len(c) + Len(e) /\ j <= Len(c)
        BY <4>3
      <4>5. Len(c) <= Len(c \o e) /\ \A j \in 1..Len(c) : (c \o e)[j] = c[j]
        BY <4>3, <4>4
      <4> QED  BY <4>2, <4>5 DEF c
    <3> QED  BY <1>4, <3>1, <3>2 DEF ExitFrame
  <2> QED  BY <1>1, <1>2, <1>4, <2>1, GrowthKeeps DEF ExitFrame, readerVars
<1>5. CASE ErrorFrame \/ _onError
  BY <1>1, <1>2, <1>5, SameYields DEF ErrorFrame, _onError, readerVars, Readers
<1>6. CASE SendResolves
  BY <1>6, SameYields DEF SendResolves, outputVars, readerVars
<1>7. ASSUME NEW w \in Waits, Wait(w)
      PROVE  Yields'
  <2>1. \A i \in Iterators : at'[i] = at[i]
    BY <1>1, <1>7, HandleAssumption DEF Wait, Park, HandleTypes, Readers
  <2> QED  BY <1>7, <2>1, SameYields DEF Wait, channelVars, outputVars
<1>8. CASE UNCHANGED handleVars
  BY <1>8, SameYields DEF handleVars, channelVars, outputVars, readerVars
<1> QED  BY <1>3, <1>4, <1>5, <1>6, <1>7, <1>8, NextYields DEF HandleNext

\* Every loop yields the chunks of its kinds, all that it has passed, each once
\* and in order, and unless the send failed it ends at the end of the output:
\* for any iterators, however their turns fall between the frames.
THEOREM YieldsAll == HandleSpec => []IteratorsExact
<1>1. YieldInv => IteratorsExact
  <2> SUFFICES ASSUME YieldInv, NEW i \in Iterators
               PROVE  /\ \A j, k \in 1..Len(got[i]) : j < k => got[i][j] < got[i][k]
                      /\ {got[i][k] : k \in 1..Len(got[i])}
                           = {j \in 1..cursor[i] : chunks[j] \in Filter[i]}
                      /\ at[i] = "ended" /\ sent # "failed" => cursor[i] = Len(chunks)
    BY DEF IteratorsExact
  <2>1. /\ got \in [Iterators -> Seq(Nat)] /\ cursor \in [Iterators -> Nat]
        /\ Taken(chunks, i, got[i], cursor[i])
        /\ at[i] = "ended" /\ sent # "failed" => cursor[i] = Len(chunks)
    BY DEF YieldInv, HandleInv, HandleTypes, Yields
  <2> QED  BY <2>1 DEF Taken
<1> QED  BY <1>1, InitYieldInv, NextYieldInv, PTL DEF HandleSpec

-----------------------------------------------------------------------------
(* ClientCalls: the invariant.                                             *)

FrameTypes == {"out", "exit", "error", "res", "connected"}

ClientState ==
  [streamHandlers : SUBSET Execs, pendingFrames : SUBSET OneShots,
   result : [Calls -> FrameTypes \cup {"none", "send"}], outs : [Execs -> Nat]]

CallTypes ==
  /\ source \in {"fetch", "EventSource"} /\ stream \in {"open", "lost", "ended"}
  /\ conn \in Nat \ {0}
  /\ flight \in Seq(Frame) /\ emitted \in Seq(Frame)
  /\ transit \subseteq issued /\ issued \subseteq Requests
  /\ awaiting \subseteq issued
  /\ running \subseteq Execs /\ denied \subseteq Execs /\ overtaken \subseteq Execs
  /\ working \subseteq OneShots
  /\ held \in [Calls -> 0..conn] /\ written \in [Execs -> Nat]
  /\ client \in ClientState

\* What a stream carries.
Token == Frame \cup {NL}

\* The tokens of a text spell frames.
Spells(text, frames) ==
  /\ text \in Seq(Token)
  /\ Len(text) = 3 * Len(frames)
  /\ \A k \in 1..Len(frames) :
       text[3 * k - 2] = frames[k] /\ text[3 * k - 1] = NL /\ text[3 * k] = NL

\* What the reader holds back and what is on the wire spell the frames in
\* flight.
WireSpells ==
  /\ buffer \in Seq(Token) /\ wire \in Seq(Token)
  /\ IF stream = "open" THEN Spells(buffer \o wire, flight)
     ELSE wire = <<>> /\ flight = <<>>

\* Nothing has come of an exec whose request has not been served, and nothing
\* at all of one that has not been issued.
Unserved ==
  \A c \in Execs :
    /\ Req(c) \notin issued =>
         /\ Kill(c) \notin issued
         /\ \A i \in 1..Len(flight) : flight[i].id # c
    /\ Req(c) \notin issued \/ Req(c) \in transit =>
         /\ written[c] = 0 /\ c \notin running
         /\ \A i \in 1..Len(flight) :
              flight[i].id = c => flight[i].type \notin {"out", "exit"}

\* Neither has the client heard of it.
Untold(s) ==
  /\ \A c \in Execs : Req(c) \notin issued \/ Req(c) \in transit => s.outs[c] = 0
  /\ \A c \in Calls : Req(c) \notin issued =>
       /\ c \notin s.streamHandlers \cup s.pendingFrames
       /\ s.result[c] = "none"

\* The exit of an exec is the last thing its process did, unless it could not be
\* signalled.
ExitsLast ==
  \A i \in 1..Len(flight) :
    flight[i].id \in Execs /\ flight[i].type = "exit" =>
      flight[i].id \notin activeProcesses

\* The frames of output of exec c among those after the p-th, up to the q-th,
\* and how many they are.
IsOut(f, c) == f.id = c /\ f.type = "out"

OutsOf(frames, c, p, q) == {k \in p + 1..q : IsOut(frames[k], c)}

OutsIn(frames, c, p, q) == Cardinality(OutsOf(frames, c, p, q))

\* What handler c was given and what is in flight for it before an exit, or
\* with the process still active on this stream, is all that was written.
Accounted(s, p) ==
  /\ \A i \in p + 1..Len(flight) : LET c == flight[i].id IN
       c \in s.streamHandlers \ denied /\ flight[i].type = "exit" =>
         s.outs[c] + OutsIn(flight, c, p, i - 1) = written[c]
  /\ \A c \in s.streamHandlers \cap activeProcesses :
       held[c] = conn /\ stream = "open" =>
         s.outs[c] + OutsIn(flight, c, p, Len(flight)) = written[c]

\* An exit reported is the end of an exec that could be signalled.
Reported(s) ==
  \A c \in Execs \ denied : s.result[c] = "exit" =>
    s.outs[c] = written[c] /\ c \notin running /\ Req(c) \notin transit

\* A call that may still start a process, or has, is listened to, and nothing
\* in flight changes that, unless its kill came first or was not permitted.
Heard(s, p) ==
  \A c \in Execs \ (overtaken \cup denied) :
    c \in running \/ Req(c) \in transit =>
      /\ c \in s.streamHandlers
      /\ \A i \in p + 1..Len(flight) :
           flight[i].id = c => flight[i].type \notin {"exit", "error"}

\* Who is settled does not listen, and who waits is not settled.
Settled(s) ==
  /\ \A c \in s.streamHandlers : s.result[c] \in {"none", "send"}
  /\ \A c \in s.pendingFrames : s.result[c] = "none"

\* What the client has made of the first p frames in flight.
Told(s, p) ==
  /\ s \in ClientState /\ Untold(s) /\ Settled(s)
  /\ Accounted(s, p) /\ Reported(s) /\ Heard(s, p)

IInv ==
  CallTypes /\ WireSpells /\ Unserved /\ ExitsLast /\ Told(client, 0)

-----------------------------------------------------------------------------
(* Arithmetic and counting.                                                *)

\* The order of the natural numbers is well founded.
LEMMA Wf == IsWellFoundedOn({ss \in Nat \X Nat : ss[1] < ss[2]}, Nat)
  BY NatLessThanWellFounded DEF OpToRel

\* A non-empty set of natural numbers has a least element.
LEMMA Least ==
  ASSUME NEW T, T \subseteq Nat, T # {}
  PROVE  \E x \in T : \A y \in T : x <= y
<1>1. PICK x \in T : \A y \in T : ~ (<<y, x>> \in {ss \in Nat \X Nat : ss[1] < ss[2]})
  BY Wf, WFMin, Zenon
<1>2. ASSUME NEW y \in T
      PROVE  x <= y
  <2>1. x \in Nat /\ y \in Nat
    OBVIOUS
  <2>2. y < x <=> <<y, x>> \in {ss \in Nat \X Nat : ss[1] < ss[2]}
    BY <2>1, SMT
  <2> QED  BY <1>1, <2>1, <2>2
<1> QED  BY <1>2

\* A set that holds 0, and n + 1 if it holds n, holds every natural number.
LEMMA SetInduction ==
  ASSUME NEW S, 0 \in S, \A n \in Nat : n \in S => n + 1 \in S
  PROVE  \A n \in Nat : n \in S
<1> DEFINE T == {n \in Nat : n \notin S}
<1>1. SUFFICES ASSUME T # {}
               PROVE  FALSE
  OBVIOUS
<1>2. PICK x \in T : \A y \in T : x <= y
  <2>1. T \subseteq Nat
    OBVIOUS
  <2> HIDE DEF T
  <2> QED  BY <1>1, <2>1, Least
<1>3. x # 0 /\ x - 1 \in Nat /\ x - 1 \notin T
  BY <1>2
<1> QED  BY <1>3

\* Division by three, an event's length on the wire.
LEMMA Thirds ==
  ASSUME NEW n \in Nat
  PROVE  \E q \in Nat : 3 * q <= n /\ n < 3 * q + 3
<1> DEFINE S == {m \in Nat : \E q \in Nat : 3 * q <= m /\ m < 3 * q + 3}
<1>1. 0 \in S
  OBVIOUS
<1>2. ASSUME NEW m \in Nat, m \in S
      PROVE  m + 1 \in S
  <2>1. PICK q \in Nat : 3 * q <= m /\ m < 3 * q + 3
    BY <1>2
  <2>2. CASE m + 1 < 3 * q + 3
    BY <2>1, <2>2
  <2>3. CASE m + 1 = 3 * (q + 1)
    BY <2>1, <2>3
  <2> QED  BY <2>1, <2>2, <2>3
<1> HIDE DEF S
<1>3. n \in S
  BY <1>1, <1>2, SetInduction
<1> QED  BY <1>3 DEF S

\* The first places of the first q events.
Firsts(q) == {3 * k - 2 : k \in 1..q}

\* They are q.
LEMMA CountFirsts ==
  ASSUME NEW q \in Nat
  PROVE  IsFiniteSet(Firsts(q)) /\ Cardinality(Firsts(q)) = q
<1> DEFINE S == {m \in Nat : IsFiniteSet(Firsts(m)) /\ Cardinality(Firsts(m)) = m}
<1>1. 0 \in S
  <2>1. Firsts(0) = {}
    BY DEF Firsts
  <2> QED  BY <2>1, FS_EmptySet
<1>2. ASSUME NEW m \in Nat, m \in S
      PROVE  m + 1 \in S
  <2>1. Firsts(m + 1) = Firsts(m) \cup {3 * (m + 1) - 2}
    <3>1. 1..m + 1 = 1..m \cup {m + 1}
      OBVIOUS
    <3> QED  BY <3>1 DEF Firsts
  <2>2. 3 * (m + 1) - 2 \notin Firsts(m)
    BY DEF Firsts
  <2>3. IsFiniteSet(Firsts(m)) /\ Cardinality(Firsts(m)) = m
    BY <1>2
  <2> QED  BY <2>1, <2>2, <2>3, FS_AddElement
<1> HIDE DEF S
<1>3. q \in S
  BY <1>1, <1>2, SetInduction
<1> QED  BY <1>3 DEF S

-----------------------------------------------------------------------------
(* Reading the wire.                                                       *)

\* A text that is the beginning of one that spells frames.
Begins(text, frames) ==
  /\ text \in Seq(Token)
  /\ Len(text) <= 3 * Len(frames)
  /\ \A k \in 1..Len(frames) :
       /\ 3 * k - 2 <= Len(text) => text[3 * k - 2] = frames[k]
       /\ 3 * k - 1 <= Len(text) => text[3 * k - 1] = NL
       /\ 3 * k <= Len(text) => text[3 * k] = NL

\* Each place of such a text is in one event.
LEMMA Places ==
  ASSUME NEW frames \in Seq(Frame), NEW text, Begins(text, frames),
         NEW i \in 1..Len(text)
  PROVE  \E k \in 1..Len(frames) : i \in {3 * k - 2, 3 * k - 1, 3 * k}
<1>1. Len(text) \in Nat /\ Len(frames) \in Nat /\ Len(text) <= 3 * Len(frames)
  BY LenProperties DEF Begins
<1>2. PICK q \in Nat : 3 * q <= i - 1 /\ i - 1 < 3 * q + 3
  <2>1. i - 1 \in Nat
    BY <1>1
  <2> QED  BY <2>1, Thirds
<1>3. q + 1 \in 1..Len(frames) /\ i \in {3 * (q + 1) - 2, 3 * (q + 1) - 1, 3 * (q + 1)}
  BY <1>1, <1>2
<1> QED  BY <1>3

\* The events of the beginning of a text end at every third place.
LEMMA EndsAt ==
  ASSUME NEW frames \in Seq(Frame), NEW text, Begins(text, frames)
  PROVE  Ends(text) = {i \in 1..Len(text) : \E k \in 1..Len(frames) : i = 3 * k}
<1>1. Len(text) \in Nat /\ Len(frames) \in Nat /\ Len(text) <= 3 * Len(frames)
  BY LenProperties DEF Begins
<1>2. \A k \in 1..Len(frames) : frames[k] # NL
  BY WireAssumption, ElementOfSeq
<1>3. ASSUME NEW i \in Ends(text)
      PROVE  \E k \in 1..Len(frames) : i = 3 * k
  <2>1. i \in 2..Len(text) /\ text[i] = NL /\ text[i - 1] = NL
    BY <1>3 DEF Ends
  <2>2. PICK k \in 1..Len(frames) : i \in {3 * k - 2, 3 * k - 1, 3 * k}
    BY <1>1, <2>1, Places
  <2>3. i # 3 * k - 2
    <3>1. SUFFICES ASSUME i = 3 * k - 2
                   PROVE  FALSE
      OBVIOUS
    <3>2. 3 * k - 2 <= Len(text)
      BY <1>1, <2>1, <3>1
    <3>3. text[i] = frames[k]
      BY <3>1, <3>2 DEF Begins
    <3> QED  BY <1>2, <2>1, <3>3
  <2>4. i # 3 * k - 1
    <3>1. SUFFICES ASSUME i = 3 * k - 1
                   PROVE  FALSE
      OBVIOUS
    <3>2. i - 1 = 3 * k - 2 /\ 3 * k - 2 <= Len(text)
      BY <1>1, <2>1, <3>1
    <3>3. text[i - 1] = frames[k]
      BY <3>2 DEF Begins
    <3> QED  BY <1>2, <2>1, <3>3
  <2> QED  BY <2>2, <2>3, <2>4
<1>4. ASSUME NEW k \in 1..Len(frames), 3 * k <= Len(text)
      PROVE  3 * k \in Ends(text)
  <2>1. text[3 * k] = NL /\ text[3 * k - 1] = NL
    BY <1>1, <1>4 DEF Begins
  <2> QED  BY <1>1, <1>4, <2>1 DEF Ends
<1>5. Ends(text) \subseteq 1..Len(text)
  BY <1>1 DEF Ends
<1> QED  BY <1>3, <1>4, <1>5

\* The last whole event ends at the last of those places.
LEMMA LastEndAt ==
  ASSUME NEW frames \in Seq(Frame), NEW text, Begins(text, frames),
         NEW q \in Nat, 3 * q <= Len(text), Len(text) < 3 * q + 3
  PROVE  LastEnd(text) = 3 * q
<1>1. Len(text) \in Nat /\ Len(frames) \in Nat /\ q <= Len(frames)
  BY LenProperties DEF Begins
<1>2. \A i \in Ends(text) : i \in Nat /\ i <= 3 * q
  BY <1>1, EndsAt
<1>3. CASE q = 0
  <2>1. Ends(text) = {}
    BY <1>1, <1>3, EndsAt
  <2> QED  BY <1>3, <2>1 DEF LastEnd
<1>4. CASE q # 0
  <2>1. 3 * q \in Ends(text)
    <3>1. q \in 1..Len(frames) /\ 3 * q \in 1..Len(text)
      BY <1>1, <1>4
    <3> QED  BY <3>1, EndsAt
  <2>2. \A i \in Ends(text) : (\A j \in Ends(text) : j <= i) => i = 3 * q
    BY <1>2, <2>1
  <2> QED  BY <1>2, <2>1, <2>2 DEF LastEnd
<1> QED  BY <1>3, <1>4

\* The data of the whole events are the first tokens of them.
LEMMA DataAt ==
  ASSUME NEW frames \in Seq(Frame), NEW text, Begins(text, frames),
         NEW q \in Nat, 3 * q <= Len(text), Len(text) < 3 * q + 3
  PROVE  {i \in 1..LastEnd(text) : parseSSE(text, i)} = Firsts(q)
<1>1. /\ Len(text) \in Nat /\ Len(frames) \in Nat /\ q <= Len(frames)
      /\ LastEnd(text) = 3 * q
  <2>1. LastEnd(text) = 3 * q
    BY LastEndAt
  <2>2. Len(text) \in Nat /\ Len(frames) \in Nat /\ Len(text) <= 3 * Len(frames)
    BY LenProperties DEF Begins
  <2> QED  BY <2>1, <2>2
<1>2. \A k \in 1..Len(frames) : frames[k] # NL
  BY WireAssumption, ElementOfSeq
<1>3. ASSUME NEW i \in 1..3 * q, text[i] # NL
      PROVE  \E k \in 1..q : i = 3 * k - 2
  <2>1. i \in 1..Len(text)
    BY <1>1
  <2>2. PICK k \in 1..Len(frames) : i \in {3 * k - 2, 3 * k - 1, 3 * k}
    BY <2>1, Places
  <2>3. i # 3 * k - 1 /\ i # 3 * k
    BY <1>3, <2>1 DEF Begins
  <2> QED  BY <1>1, <2>2, <2>3
<1>4. ASSUME NEW k \in 1..q
      PROVE  3 * k - 2 \in 1..3 * q /\ parseSSE(text, 3 * k - 2)
  <2>1. 3 * k - 2 \in 1..3 * q /\ k \in 1..Len(frames)
    BY <1>1
  <2>2. text[3 * k - 2] # NL
    <3>1. 3 * k - 2 <= Len(text)
      BY <1>1
    <3>2. text[3 * k - 2] = frames[k]
      BY <2>1, <3>1 DEF Begins
    <3> QED  BY <1>2, <2>1, <3>2
  <2>3. ASSUME NEW j \in 1..3 * q, text[j] # NL,
               \A e \in Ends(text) : e < 3 * k - 2 <=> e < j
        PROVE  j = 3 * k - 2
    <3>1. PICK l \in 1..q : j = 3 * l - 2
      BY <1>3, <2>3
    <3>2. CASE l = k
      BY <3>1, <3>2
    <3>3. CASE l < k
      <4>1. 3 * l \in Ends(text)
        <5>1. 3 * l \in 1..Len(text) /\ l \in 1..Len(frames)
          BY <1>1
        <5> QED  BY <5>1, EndsAt
      <4>2. 3 * l < 3 * k - 2 /\ ~(3 * l < j)
        BY <3>1, <3>3
      <4> QED  BY <2>3, <4>1, <4>2
    <3>4. CASE k < l
      <4>1. 3 * k \in Ends(text)
        <5>1. 3 * k \in 1..Len(text) /\ k \in 1..Len(frames)
          BY <1>1
        <5> QED  BY <5>1, EndsAt
      <4>2. ~(3 * k < 3 * k - 2) /\ 3 * k < j
        BY <3>1, <3>4
      <4> QED  BY <2>3, <4>1, <4>2
    <3> QED  BY <3>2, <3>3, <3>4
  <2> QED  BY <1>1, <2>1, <2>2, <2>3 DEF parseSSE
<1>5. \A i \in 1..3 * q : parseSSE(text, i) => i \in Firsts(q)
  BY <1>3 DEF parseSSE, Firsts
<1>6. \A i \in Firsts(q) : i \in 1..3 * q /\ parseSSE(text, i)
  BY <1>4 DEF Firsts
<1> QED  BY <1>1, <1>5, <1>6

\* The k-th of those places.
LEMMA NthFirst ==
  ASSUME NEW q \in Nat, NEW k \in 1..q
  PROVE  Nth(Firsts(q), k) = 3 * k - 2
<1>1. ASSUME NEW l \in 1..q
      PROVE  Cardinality({j \in Firsts(q) : j < 3 * l - 2}) = l - 1
  <2>1. {j \in Firsts(q) : j < 3 * l - 2} = Firsts(l - 1)
    <3>1. \A m \in 1..q : 3 * m - 2 < 3 * l - 2 <=> m \in 1..l - 1
      OBVIOUS
    <3>2. \A m \in 1..l - 1 : m \in 1..q
      OBVIOUS
    <3> QED  BY <3>1, <3>2 DEF Firsts
  <2>2. l - 1 \in Nat
    OBVIOUS
  <2> QED  BY <2>1, <2>2, CountFirsts
<1> DEFINE Before(i) == Cardinality({j \in Firsts(q) : j < i})
<1>2. 3 * k - 2 \in Firsts(q) /\ Before(3 * k - 2) = k - 1
  BY <1>1 DEF Firsts
<1>3. ASSUME NEW i \in Firsts(q), Before(i) = k - 1
      PROVE  i = 3 * k - 2
  <2>1. PICK l \in 1..q : i = 3 * l - 2
    BY DEF Firsts
  <2>2. Before(i) = l - 1
    BY <1>1, <2>1
  <2> HIDE DEF Before
  <2> QED  BY <1>3, <2>1, <2>2
<1>4. Nth(Firsts(q), k) = CHOOSE i \in Firsts(q) : Before(i) = k - 1
  BY DEF Nth
<1> HIDE DEF Before
<1> QED  BY <1>2, <1>3, <1>4

\* Read takes the whole events at the head of a text, and keeps the rest.
LEMMA ReadAt ==
  ASSUME NEW frames \in Seq(Frame), NEW text, Begins(text, frames),
         NEW q \in Nat, 3 * q <= Len(text), Len(text) < 3 * q + 3
  PROVE  /\ Read(text).frames = SubSeq(frames, 1, q)
         /\ Read(text).rest = SubSeq(text, 3 * q + 1, Len(text))
<1> DEFINE data == {i \in 1..LastEnd(text) : parseSSE(text, i)}
<1>1. /\ LastEnd(text) = 3 * q /\ data = Firsts(q) /\ Cardinality(data) = q
      /\ \A k \in 1..q : Nth(data, k) = 3 * k - 2
  <2>1. data = Firsts(q)
    BY DataAt
  <2> HIDE DEF data
  <2> QED  BY <2>1, LastEndAt, CountFirsts, NthFirst
<1>2. FramesOf(text) = [k \in 1..Cardinality(data) |-> text[Nth(data, k)]]
  BY DEF FramesOf
<1> HIDE DEF data
<1>3. /\ Len(text) \in Nat /\ Len(frames) \in Nat /\ Len(text) <= 3 * Len(frames)
      /\ q <= Len(frames)
  <2>1. Len(text) \in Nat /\ Len(frames) \in Nat /\ Len(text) <= 3 * Len(frames)
    BY LenProperties DEF Begins
  <2> QED  BY <2>1
<1>4. \A k \in 1..q : text[Nth(data, k)] = frames[k]
  <2> TAKE k \in 1..q
  <2>1. k \in 1..Len(frames) /\ 3 * k - 2 <= Len(text)
    BY <1>3
  <2>2. text[3 * k - 2] = frames[k]
    BY <2>1 DEF Begins
  <2> QED  BY <1>1, <2>2
<1>5. FramesOf(text) = [k \in 1..q |-> frames[k]]
  BY <1>1, <1>2, <1>4
<1>6. SubSeq(frames, 1, q) = [k \in 1..q |-> frames[k]]
  BY <1>3
<1> QED  BY <1>1, <1>5, <1>6 DEF Read

\* A text that spells some frames is cut in two, and Read is given the first
\* part: it returns the first of the frames, and what it keeps spells the
\* others, with the second part.
LEMMA ReadPrefix ==
  ASSUME NEW frames \in Seq(Frame), NEW all \in Seq(Token), Spells(all, frames),
         NEW text \in Seq(Token), NEW left \in Seq(Token),
         Len(all) = Len(text) + Len(left),
         \A i \in 1..Len(text) : text[i] = all[i],
         \A i \in 1..Len(left) : left[i] = all[Len(text) + i]
  PROVE  \E q \in 0..Len(frames) :
           /\ Read(text).frames = SubSeq(frames, 1, q)
           /\ Read(text).rest \in Seq(Token)
           /\ Spells(Read(text).rest \o left, SubSeq(frames, q + 1, Len(frames)))
<1>1. /\ Len(frames) \in Nat /\ Len(text) \in Nat /\ Len(left) \in Nat
      /\ Len(all) = 3 * Len(frames)
      /\ \A k \in 1..Len(frames) :
           all[3 * k - 2] = frames[k] /\ all[3 * k - 1] = NL /\ all[3 * k] = NL
  BY LenProperties DEF Spells
<1>2. Begins(text, frames)
  <2>1. ASSUME NEW k \in 1..Len(frames), NEW i \in {3 * k - 2, 3 * k - 1, 3 * k},
               i <= Len(text)
        PROVE  text[i] = all[i]
    BY <1>1, <2>1
  <2>2. Len(text) <= 3 * Len(frames)
    BY <1>1
  <2> QED  BY <1>1, <2>1, <2>2 DEF Begins
<1>3. PICK q \in Nat : 3 * q <= Len(text) /\ Len(text) < 3 * q + 3
  BY <1>1, Thirds
<1>4. q \in 0..Len(frames)
  BY <1>1, <1>3
<1> DEFINE rest == SubSeq(text, 3 * q + 1, Len(text))
           others == SubSeq(frames, q + 1, Len(frames))
<1>5. /\ Read(text).frames = SubSeq(frames, 1, q)
      /\ Read(text).rest = rest
  BY <1>2, <1>3, ReadAt
<1>6. /\ rest \in Seq(Token) /\ Len(rest) = Len(text) - 3 * q
      /\ \A i \in 1..Len(rest) : rest[i] = text[3 * q + i]
  <2>1. \A i \in 3 * q + 1..Len(text) : text[i] \in Token
    BY <1>1, ElementOfSeq
  <2>2. 3 * q + 1 \in Int /\ Len(text) \in Int
    BY <1>1
  <2>3. /\ rest \in Seq(Token)
        /\ Len(rest) = IF 3 * q + 1 <= Len(text) THEN Len(text) - (3 * q + 1) + 1 ELSE 0
        /\ \A i \in 1..Len(text) - (3 * q + 1) + 1 : rest[i] = text[3 * q + 1 + i - 1]
    BY <2>1, <2>2, SubSeqProperties
  <2> HIDE DEF rest
  <2>4. Len(rest) = Len(text) - 3 * q
    <3>1. Len(text) \in Nat /\ q \in Nat /\ 3 * q <= Len(text)
      BY <1>1, <1>3
    <3>2. CASE 3 * q + 1 <= Len(text)
      BY <2>3, <3>1, <3>2
    <3>3. CASE 3 * q = Len(text)
      <4>1. ~(3 * q + 1 <= Len(text)) /\ Len(text) - 3 * q = 0
        BY <3>1, <3>3
      <4> QED  BY <2>3, <4>1
    <3> QED  BY <3>1, <3>2, <3>3
  <2>5. ASSUME NEW i \in 1..Len(rest)
        PROVE  rest[i] = text[3 * q + i]
    <3>1. i \in 1..Len(text) - (3 * q + 1) + 1 /\ 3 * q + 1 + i - 1 = 3 * q + i
      BY <1>1, <1>3, <2>4
    <3> QED  BY <2>3, <3>1
  <2> QED  BY <2>3, <2>4, <2>5
<1>7. /\ others \in Seq(Frame) /\ Len(others) = Len(frames) - q
      /\ \A k \in 1..Len(others) : others[k] = frames[q + k]
  <2>1. \A i \in q + 1..Len(frames) : frames[i] \in Frame
    BY <1>1, ElementOfSeq
  <2>2. q + 1 \in Int /\ Len(frames) \in Int
    BY <1>1
  <2>3. /\ others \in Seq(Frame)
        /\ Len(others) = IF q + 1 <= Len(frames) THEN Len(frames) - (q + 1) + 1 ELSE 0
        /\ \A i \in 1..Len(frames) - (q + 1) + 1 : others[i] = frames[q + 1 + i - 1]
    BY <2>1, <2>2, SubSeqProperties
  <2> HIDE DEF others
  <2> QED  BY <1>1, <1>4, <2>3
<1> DEFINE kept == rest \o left
<1> HIDE DEF rest, others
<1>8. /\ kept \in Seq(Token)
      /\ Len(kept) = Len(rest) + Len(left)
      /\ \A i \in 1..Len(rest) + Len(left) :
           kept[i] = IF i <= Len(rest) THEN rest[i] ELSE left[i - Len(rest)]
  BY <1>6, ConcatProperties, Zenon
<1> HIDE DEF kept
<1>9. /\ Len(kept) = 3 * Len(others)
      /\ \A i \in 1..Len(kept) : kept[i] = all[3 * q + i]
  <2>1. Len(kept) = 3 * Len(others)
    <3>1. Len(kept) = Len(text) - 3 * q + Len(left)
      BY <1>6, <1>8
    <3>2. 3 * Len(frames) = Len(text) + Len(left) /\ Len(others) = Len(frames) - q
      BY <1>1, <1>7
    <3>3. Len(frames) \in Nat /\ Len(text) \in Nat /\ Len(left) \in Nat /\ q \in Nat
      BY <1>1
    <3> QED  BY <3>1, <3>2, <3>3
  <2>2. ASSUME NEW i \in 1..Len(kept)
        PROVE  kept[i] = all[3 * q + i]
    <3>1. CASE i <= Len(rest)
      <4>1. i \in 1..Len(rest) /\ 3 * q + i \in 1..Len(text)
        BY <1>1, <1>3, <1>6, <3>1
      <4>2. kept[i] = rest[i]
        BY <1>8, <3>1
      <4> QED  BY <1>6, <4>1, <4>2
    <3>2. CASE i > Len(rest)
      <4>1. i - Len(rest) \in 1..Len(left)
        BY <1>1, <1>6, <1>8, <3>2
      <4>2. kept[i] = left[i - Len(rest)]
        BY <1>1, <1>6, <1>8, <3>2
      <4>3. Len(text) + (i - Len(rest)) = 3 * q + i
        BY <1>1, <1>3, <1>6
      <4> QED  BY <4>1, <4>2, <4>3
    <3> QED  BY <1>1, <1>3, <1>6, <3>1, <3>2
  <2> QED  BY <2>1, <2>2
<1>10. Spells(kept, others)
  <2>1. ASSUME NEW k \in 1..Len(others)
        PROVE  /\ kept[3 * k - 2] = others[k]
               /\ kept[3 * k - 1] = NL /\ kept[3 * k] = NL
    <3>1. /\ q + k \in 1..Len(frames) /\ 3 * k - 2 \in 1..Len(kept)
          /\ 3 * k - 1 \in 1..Len(kept) /\ 3 * k \in 1..Len(kept)
      <4>1. /\ k \in Nat /\ k >= 1 /\ k <= Len(others) /\ Len(others) = Len(frames) - q
            /\ Len(kept) = 3 * Len(others) /\ Len(frames) \in Nat /\ q \in 0..Len(frames)
        BY <1>1, <1>4, <1>7, <1>9
      <4> QED  BY <4>1, SMTT(30)
    <3>2. /\ all[3 * (q + k) - 2] = frames[q + k]
          /\ all[3 * (q + k) - 1] = NL /\ all[3 * (q + k)] = NL
      BY <1>1, <3>1
    <3>3. /\ 3 * (q + k) - 2 = 3 * q + (3 * k - 2)
          /\ 3 * (q + k) - 1 = 3 * q + (3 * k - 1) /\ 3 * (q + k) = 3 * q + 3 * k
      BY <1>1, <1>4, <1>7
    <3> QED  BY <1>7, <1>9, <3>1, <3>2, <3>3
  <2> QED  BY <1>8, <1>9, <2>1 DEF Spells
<1> QED  BY <1>4, <1>5, <1>6, <1>10 DEF others, kept

\* So it is with what a turn of the read loop reads.
LEMMA ReadStep ==
  ASSUME NEW frames \in Seq(Frame),
         NEW kept \in Seq(Token), NEW line \in Seq(Token),
         Spells(kept \o line, frames), NEW n \in 1..Len(line)
  PROVE  \E q \in 0..Len(frames) :
           LET text == Read(kept \o SubSeq(line, 1, n))
               left == SubSeq(line, n + 1, Len(line)) IN
           /\ text.frames = SubSeq(frames, 1, q)
           /\ text.rest \in Seq(Token) /\ left \in Seq(Token)
           /\ Spells(text.rest \o left, SubSeq(frames, q + 1, Len(frames)))
<1> DEFINE all == kept \o line
           head == SubSeq(line, 1, n)
           left == SubSeq(line, n + 1, Len(line))
           text == kept \o head
<1>1. Len(kept) \in Nat /\ Len(line) \in Nat
  BY LenProperties
<1>2. /\ all \in Seq(Token) /\ Len(all) = Len(kept) + Len(line)
      /\ \A i \in 1..Len(kept) + Len(line) :
           all[i] = IF i <= Len(kept) THEN kept[i] ELSE line[i - Len(kept)]
  BY ConcatProperties, Zenon
<1>3. head \in Seq(Token) /\ Len(head) = n /\ \A i \in 1..n : head[i] = line[i]
  <2>1. \A i \in 1..n : line[i] \in Token
    BY <1>1, ElementOfSeq
  <2> QED  BY <1>1, <2>1, SubSeqProperties
<1>4. /\ left \in Seq(Token) /\ Len(left) = Len(line) - n
      /\ \A i \in 1..Len(left) : left[i] = line[n + i]
  <2>1. \A i \in n + 1..Len(line) : line[i] \in Token
    BY <1>1, ElementOfSeq
  <2>2. n + 1 \in Int /\ Len(line) \in Int
    BY <1>1
  <2>3. /\ left \in Seq(Token)
        /\ Len(left) = IF n + 1 <= Len(line) THEN Len(line) - (n + 1) + 1 ELSE 0
        /\ \A i \in 1..Len(line) - (n + 1) + 1 : left[i] = line[n + 1 + i - 1]
    BY <2>1, <2>2, SubSeqProperties
  <2> HIDE DEF left
  <2> QED  BY <1>1, <2>3
<1> HIDE DEF head, left
<1>5. /\ text \in Seq(Token) /\ Len(text) = Len(kept) + Len(head)
      /\ \A i \in 1..Len(kept) + Len(head) :
           text[i] = IF i <= Len(kept) THEN kept[i] ELSE head[i - Len(kept)]
  BY <1>3, ConcatProperties, Zenon
<1>6. Spells(all, frames)
  OBVIOUS
<1> HIDE DEF all, text
<1>7. \A i \in 1..Len(text) : text[i] = all[i]
  <2> TAKE i \in 1..Len(text)
  <2>1. i \in 1..Len(kept) + Len(line) /\ i \in 1..Len(kept) + Len(head)
    BY <1>1, <1>3, <1>5
  <2>2. CASE i <= Len(kept)
    BY <1>2, <1>5, <2>1, <2>2
  <2>3. CASE i > Len(kept)
    <3>1. i - Len(kept) \in 1..n
      BY <1>1, <1>3, <1>5, <2>1, <2>3
    <3>2. all[i] = line[i - Len(kept)] /\ text[i] = head[i - Len(kept)]
      BY <1>1, <1>2, <1>5, <2>1, <2>3
    <3> QED  BY <1>3, <3>1, <3>2
  <2> QED  BY <1>1, <2>1, <2>2, <2>3
<1>8. \A i \in 1..Len(left) : left[i] = all[Len(text) + i]
  <2> TAKE i \in 1..Len(left)
  <2>1. Len(text) = Len(kept) + n /\ Len(left) = Len(line) - n
    BY <1>3, <1>4, <1>5
  <2>2. /\ Len(text) + i \in 1..Len(kept) + Len(line)
        /\ ~(Len(text) + i <= Len(kept))
        /\ Len(text) + i - Len(kept) = n + i
    BY <1>1, <2>1
  <2>3. all[Len(text) + i] = line[n + i]
    BY <1>2, <2>2
  <2> QED  BY <1>4, <2>3
<1>9. Len(all) = Len(text) + Len(left)
  BY <1>1, <1>2, <1>3, <1>4, <1>5
<1>10. PICK q \in 0..Len(frames) :
         /\ Read(text).frames = SubSeq(frames, 1, q)
         /\ Read(text).rest \in Seq(Token)
         /\ Spells(Read(text).rest \o left, SubSeq(frames, q + 1, Len(frames)))
  BY <1>2, <1>4, <1>5, <1>6, <1>7, <1>8, <1>9, ReadPrefix
<1> QED  BY <1>4, <1>10 DEF text, head, left

\* A frame written to the stream is spelt after the others.
LEMMA SpellsMore ==
  ASSUME NEW frames \in Seq(Frame), NEW f \in Frame,
         NEW kept \in Seq(Token), NEW line \in Seq(Token),
         Spells(kept \o line, frames)
  PROVE  /\ line \o Encode(f) \in Seq(Token)
         /\ Spells(kept \o (line \o Encode(f)), Append(frames, f))
<1> DEFINE e == Encode(f)
           all == kept \o line
           more == Append(frames, f)
<1>1. e \in Seq(Token) /\ Len(e) = 3 /\ e[1] = f /\ e[2] = NL /\ e[3] = NL
  BY DEF Encode, Token
<1>2. /\ more \in Seq(Frame) /\ Len(more) = Len(frames) + 1 /\ Len(frames) \in Nat
      /\ \A k \in 1..Len(frames) : more[k] = frames[k]
      /\ more[Len(frames) + 1] = f
  BY AppendProperties, LenProperties
<1>3. /\ all \in Seq(Token) /\ Len(all) = 3 * Len(frames)
      /\ \A k \in 1..Len(frames) :
           all[3 * k - 2] = frames[k] /\ all[3 * k - 1] = NL /\ all[3 * k] = NL
  BY DEF Spells
<1> HIDE DEF e, more, all
<1>4. line \o e \in Seq(Token)
  BY <1>1, ConcatProperties, Zenon
<1>5. all \o e = kept \o (line \o e)
  <2>1. e \in Seq(Token)
    BY <1>1
  <2> QED  BY <2>1, ConcatAssociative DEF all
<1> DEFINE longer == all \o e
<1>6. /\ longer \in Seq(Token) /\ Len(longer) = Len(all) + Len(e)
      /\ \A i \in 1..Len(all) + Len(e) :
           longer[i] = IF i <= Len(all) THEN all[i] ELSE e[i - Len(all)]
  BY <1>1, <1>3, ConcatProperties, Zenon
<1> HIDE DEF longer
<1>7. ASSUME NEW k \in 1..Len(more)
      PROVE  /\ longer[3 * k - 2] = more[k]
             /\ longer[3 * k - 1] = NL /\ longer[3 * k] = NL
  <2>1. CASE k = Len(frames) + 1
    <3>1. /\ 3 * k - 2 - Len(all) = 1 /\ 3 * k - 1 - Len(all) = 2
          /\ 3 * k - Len(all) = 3 /\ Len(e) = 3 /\ Len(all) \in Nat
      BY <1>1, <1>2, <1>3, <2>1
    <3>2. \A i \in Len(all) + 1..Len(all) + 3 : longer[i] = e[i - Len(all)]
      BY <1>6, <3>1
    <3>3. /\ 3 * k - 2 \in Len(all) + 1..Len(all) + 3
          /\ 3 * k - 1 \in Len(all) + 1..Len(all) + 3
          /\ 3 * k \in Len(all) + 1..Len(all) + 3
      BY <1>2, <2>1, <3>1
    <3> QED  BY <1>1, <1>2, <2>1, <3>1, <3>2, <3>3
  <2>2. CASE k \in 1..Len(frames)
    <3>1. /\ 3 * k - 2 \in 1..Len(all) /\ 3 * k - 1 \in 1..Len(all)
          /\ 3 * k \in 1..Len(all) /\ Len(e) = 3
      BY <1>1, <1>2, <1>3, <2>2
    <3>2. \A i \in 1..Len(all) : longer[i] = all[i]
      BY <1>2, <1>3, <1>6, <3>1
    <3> QED  BY <1>2, <1>3, <2>2, <3>1, <3>2
  <2>3. k = Len(frames) + 1 \/ k \in 1..Len(frames)
    BY <1>2
  <2> QED  BY <2>1, <2>2, <2>3
<1>8. Len(longer) = 3 * Len(more)
  BY <1>1, <1>2, <1>3, <1>6
<1>9. Spells(longer, more)
  BY <1>6, <1>7, <1>8 DEF Spells
<1> QED  BY <1>4, <1>5, <1>9 DEF e, more, longer

-----------------------------------------------------------------------------
(* Counting the output in flight.                                          *)

\* The output in a stretch of frames is finite.
LEMMA OutsCounted ==
  ASSUME NEW frames, NEW c, NEW p \in Nat, NEW q \in Nat
  PROVE  /\ IsFiniteSet(OutsOf(frames, c, p, q))
         /\ OutsIn(frames, c, p, q) \in Nat
         /\ q <= p => OutsIn(frames, c, p, q) = 0
<1>1. IsFiniteSet(p + 1..q)
  BY FS_Interval
<1>2. OutsOf(frames, c, p, q) \in SUBSET (p + 1..q)
  BY DEF OutsOf
<1>3. IsFiniteSet(OutsOf(frames, c, p, q))
  BY <1>1, <1>2, FS_Subset
<1>4. q <= p => OutsOf(frames, c, p, q) = {}
  BY DEF OutsOf
<1> QED  BY <1>3, <1>4, FS_CardinalityType, FS_EmptySet DEF OutsIn

\* One frame more at the end.
LEMMA CountLast ==
  ASSUME NEW frames, NEW c, NEW p \in Nat, NEW q \in Nat, p <= q
  PROVE  OutsIn(frames, c, p, q + 1) =
           OutsIn(frames, c, p, q) + IF IsOut(frames[q + 1], c) THEN 1 ELSE 0
<1>1. q + 1 \notin OutsOf(frames, c, p, q)
  BY DEF OutsOf
<1>2. p + 1..q + 1 = (p + 1..q) \cup {q + 1}
  OBVIOUS
<1>3. OutsOf(frames, c, p, q + 1) =
        IF IsOut(frames[q + 1], c) THEN OutsOf(frames, c, p, q) \cup {q + 1}
        ELSE OutsOf(frames, c, p, q)
  BY <1>2 DEF OutsOf
<1>4. OutsIn(frames, c, p, q) \in Nat /\ IsFiniteSet(OutsOf(frames, c, p, q))
  BY OutsCounted
<1>5. CASE IsOut(frames[q + 1], c)
  <2>1. Cardinality(OutsOf(frames, c, p, q) \cup {q + 1}) =
          Cardinality(OutsOf(frames, c, p, q)) + 1
    BY <1>1, <1>4, FS_AddElement
  <2> QED  BY <1>3, <1>5, <2>1 DEF OutsIn
<1>6. CASE ~IsOut(frames[q + 1], c)
  BY <1>3, <1>4, <1>6 DEF OutsIn
<1> QED  BY <1>5, <1>6

\* One frame less at the beginning.
LEMMA CountFirst ==
  ASSUME NEW frames, NEW c, NEW p \in Nat, NEW q \in Nat, p < q
  PROVE  OutsIn(frames, c, p, q) =
           OutsIn(frames, c, p + 1, q) + IF IsOut(frames[p + 1], c) THEN 1 ELSE 0
<1>1. p + 1 \notin OutsOf(frames, c, p + 1, q)
  BY DEF OutsOf
<1>2. p + 1..q = (p + 1 + 1..q) \cup {p + 1}
  OBVIOUS
<1>3. OutsOf(frames, c, p, q) =
        IF IsOut(frames[p + 1], c) THEN OutsOf(frames, c, p + 1, q) \cup {p + 1}
        ELSE OutsOf(frames, c, p + 1, q)
  BY <1>2 DEF OutsOf
<1>4. OutsIn(frames, c, p + 1, q) \in Nat /\ IsFiniteSet(OutsOf(frames, c, p + 1, q))
  BY OutsCounted
<1>5. CASE IsOut(frames[p + 1], c)
  <2>1. Cardinality(OutsOf(frames, c, p + 1, q) \cup {p + 1}) =
          Cardinality(OutsOf(frames, c, p + 1, q)) + 1
    BY <1>1, <1>4, FS_AddElement
  <2> QED  BY <1>3, <1>5, <2>1 DEF OutsIn
<1>6. CASE ~IsOut(frames[p + 1], c)
  BY <1>3, <1>4, <1>6 DEF OutsIn
<1> QED  BY <1>5, <1>6

\* The same frames elsewhere.
LEMMA CountShift ==
  ASSUME NEW frames, NEW others, NEW c, NEW n \in Nat, NEW m \in Nat,
         \A k \in 1..m : others[k] = frames[n + k]
  PROVE  OutsIn(others, c, 0, m) = OutsIn(frames, c, n, n + m)
<1> DEFINE S == {j \in Nat : j <= m =>
                   OutsIn(others, c, 0, j) = OutsIn(frames, c, n, n + j)}
<1>1. 0 \in S
  BY OutsCounted
<1>2. ASSUME NEW j \in Nat, j \in S
      PROVE  j + 1 \in S
  <2>1. SUFFICES ASSUME j + 1 <= m
                 PROVE  OutsIn(others, c, 0, j + 1) = OutsIn(frames, c, n, n + (j + 1))
    OBVIOUS
  <2>2. OutsIn(others, c, 0, j) = OutsIn(frames, c, n, n + j)
    BY <1>2, <2>1
  <2>3. others[j + 1] = frames[n + j + 1]
    BY <2>1
  <2>4. OutsIn(others, c, 0, j + 1) =
          OutsIn(others, c, 0, j) + IF IsOut(others[j + 1], c) THEN 1 ELSE 0
    BY CountLast
  <2>5. OutsIn(frames, c, n, n + j + 1) =
          OutsIn(frames, c, n, n + j) + IF IsOut(frames[n + j + 1], c) THEN 1 ELSE 0
    BY CountLast
  <2>6. n + (j + 1) = n + j + 1
    OBVIOUS
  <2> QED  BY <2>2, <2>3, <2>4, <2>5, <2>6
<1> HIDE DEF S
<1>3. m \in S
  BY <1>1, <1>2, SetInduction
<1> QED  BY <1>3 DEF S

\* The same frames at the same places.
LEMMA CountSame ==
  ASSUME NEW frames, NEW others, NEW c, NEW p \in Nat, NEW q \in Nat,
         \A k \in p + 1..q : others[k] = frames[k]
  PROVE  OutsIn(others, c, p, q) = OutsIn(frames, c, p, q)
  BY DEF OutsIn, OutsOf


-----------------------------------------------------------------------------
(* Dispatching.                                                            *)

\* Frame f turns the client's maps and what it told its callers from s to t.
Turns(s, f, t) ==
  /\ t \in ClientState
  /\ t.streamHandlers =
       IF f.id \in s.streamHandlers /\ f.type \in {"exit", "error"}
       THEN s.streamHandlers \ {f.id} ELSE s.streamHandlers
  /\ t.pendingFrames =
       IF f.id \in s.streamHandlers THEN s.pendingFrames
       ELSE s.pendingFrames \ {f.id}
  /\ \A c \in Execs : t.outs[c] =
       IF c \in s.streamHandlers /\ IsOut(f, c) THEN s.outs[c] + 1 ELSE s.outs[c]
  /\ \A c \in Calls :
       /\ t.result[c] # s.result[c] =>
            f.id = c /\ c \in s.streamHandlers \cup s.pendingFrames
       /\ t.result[c] # s.result[c] /\ c \in s.streamHandlers =>
            /\ f.type \in {"exit", "error"} /\ t.result[c] = f.type
            /\ f.type = "exit" => s.result[c] = "none"

\* That is what a dispatch does.
LEMMA DispatchFacts ==
  ASSUME NEW s \in ClientState, NEW f \in Frame
  PROVE  Turns(s, f, Dispatch(s, f))
<1> DEFINE t == Dispatch(s, f)
<1>1. /\ s.streamHandlers \subseteq Execs /\ s.pendingFrames \subseteq OneShots
      /\ s.result \in [Calls -> FrameTypes \cup {"none", "send"}]
      /\ s.outs \in [Execs -> Nat]
      /\ s = [streamHandlers |-> s.streamHandlers, pendingFrames |-> s.pendingFrames,
              result |-> s.result, outs |-> s.outs]
      /\ f.type \in FrameTypes
  BY DEF ClientState, Frame, FrameTypes
<1>2. CASE f.id \in s.streamHandlers
  <2>1. t = [streamHandlers |->
               IF f.type \in {"exit", "error"} THEN s.streamHandlers \ {f.id}
               ELSE s.streamHandlers,
             pendingFrames |-> s.pendingFrames,
             result |-> [s.result EXCEPT ![f.id] =
               CASE f.type = "error" -> "error"
                 [] f.type = "exit" /\ s.result[f.id] = "none" -> "exit"
                 [] OTHER -> s.result[f.id]],
             outs |-> [s.outs EXCEPT ![f.id] =
               IF f.type = "out" THEN s.outs[f.id] + 1 ELSE s.outs[f.id]]]
    BY <1>1, <1>2 DEF Dispatch
  <2>2. /\ f.id \in Execs /\ f.id \in Calls
        /\ s.result[f.id] \in FrameTypes \cup {"none", "send"}
    BY <1>1, <1>2 DEF Calls
  <2>3. t \in ClientState
    BY <1>1, <2>1, <2>2 DEF ClientState, FrameTypes
  <2>4. /\ t.streamHandlers =
             IF f.type \in {"exit", "error"} THEN s.streamHandlers \ {f.id}
             ELSE s.streamHandlers
        /\ t.pendingFrames = s.pendingFrames
    BY <2>1
  <2>5. \A c \in Execs : t.outs[c] = IF IsOut(f, c) THEN s.outs[c] + 1 ELSE s.outs[c]
    BY <1>1, <2>1, <2>2 DEF IsOut
  <2>6. \A c \in Calls : t.result[c] =
          IF c = f.id THEN CASE f.type = "error" -> "error"
                 [] f.type = "exit" /\ s.result[f.id] = "none" -> "exit"
                 [] OTHER -> s.result[f.id]
          ELSE s.result[c]
    BY <1>1, <2>1, <2>2
  <2>7. \A c \in Execs : IsOut(f, c) => c \in s.streamHandlers
    BY <1>2 DEF IsOut
  <2> HIDE DEF t
  <2>8. ASSUME NEW c \in Calls, t.result[c] # s.result[c]
        PROVE  /\ f.id = c /\ f.type \in {"exit", "error"} /\ t.result[c] = f.type
               /\ f.type = "exit" => s.result[c] = "none"
    <3>1. f.id = c
      BY <2>6, <2>8
    <3>2. CASE f.type = "error"
      BY <2>6, <3>1, <3>2
    <3>3. CASE f.type = "exit" /\ s.result[f.id] = "none"
      BY <2>6, <3>1, <3>3
    <3>4. CASE f.type # "error" /\ ~(f.type = "exit" /\ s.result[f.id] = "none")
      BY <2>6, <2>8, <3>1, <3>4
    <3> QED  BY <3>2, <3>3, <3>4
  <2>9. Turns(s, f, t)
    BY <1>2, <2>3, <2>4, <2>5, <2>7, <2>8 DEF Turns
  <2> QED  BY <2>9 DEF t
<1>3. CASE f.id \notin s.streamHandlers /\ f.id \in s.pendingFrames
  <2>1. t = [streamHandlers |-> s.streamHandlers,
             pendingFrames |-> s.pendingFrames \ {f.id},
             result |-> [s.result EXCEPT ![f.id] = f.type], outs |-> s.outs]
    BY <1>1, <1>3 DEF Dispatch
  <2>2. f.id \in OneShots /\ f.id \in Calls /\ f.id \notin Execs
    BY <1>1, <1>3, CallsAssumption DEF Calls
  <2>3. t \in ClientState
    BY <1>1, <2>1, <2>2 DEF ClientState
  <2>4. \A c \in Calls : t.result[c] = IF c = f.id THEN f.type ELSE s.result[c]
    BY <1>1, <2>1, <2>2
  <2> QED  BY <1>1, <1>3, <2>1, <2>2, <2>3, <2>4 DEF IsOut, Turns
<1>4. CASE f.id \notin s.streamHandlers /\ f.id \notin s.pendingFrames
  <2>1. t = s
    BY <1>4 DEF Dispatch
  <2> QED  BY <1>4, <2>1 DEF IsOut, Turns
<1> QED  BY <1>2, <1>3, <1>4

\* The frames of a chunk are dispatched one after another.
LEMMA DispatchInTurn ==
  ASSUME NEW frames, Len(frames) \in Nat
  PROVE  \E after :
           /\ after[0] = client
           /\ \A k \in 1..Len(frames) : after[k] = Dispatch(after[k - 1], frames[k])
           /\ DispatchAll(frames) = after[Len(frames)]
<1> DEFINE Turn(g, n) == [k \in 0..n |-> IF k = 0 THEN client
                                         ELSE LET s == g[k - 1] IN Dispatch(s, frames[k])]
           S == {n \in Nat : \E g : g = Turn(g, n)}
<1>1. 0 \in S
  <2>1. [k \in 0..0 |-> client] = Turn([k \in 0..0 |-> client], 0)
    OBVIOUS
  <2> QED  BY <2>1
<1>2. ASSUME NEW n \in Nat, n \in S
      PROVE  n + 1 \in S
  <2>1. PICK g : g = Turn(g, n)
    BY <1>2
  <2> DEFINE h == [k \in 0..n + 1 |-> IF k = n + 1 THEN Dispatch(g[n], frames[n + 1])
                                      ELSE g[k]]
  <2>2. ASSUME NEW k \in 0..n + 1
        PROVE  h[k] = IF k = 0 THEN client ELSE Dispatch(h[k - 1], frames[k])
    <3>1. CASE k = n + 1
      BY <3>1
    <3>2. CASE k \in 0..n
      <4>1. h[k] = g[k] /\ (k # 0 => h[k - 1] = g[k - 1])
        BY <3>2
      <4>2. g[k] = IF k = 0 THEN client ELSE Dispatch(g[k - 1], frames[k])
        BY <2>1, <3>2
      <4> QED  BY <4>1, <4>2
    <3> QED  BY <3>1, <3>2
  <2>3. h = [k \in 0..n + 1 |-> h[k]]
    OBVIOUS
  <2> HIDE DEF h
  <2>4. h = Turn(h, n + 1)
    BY <2>2, <2>3
  <2> QED  BY <2>4
<1>3. PICK g : g = Turn(g, Len(frames))
  <2> HIDE DEF S
  <2>1. Len(frames) \in S
    BY <1>1, <1>2, SetInduction
  <2> QED  BY <2>1 DEF S
<1> DEFINE after == CHOOSE a : a = Turn(a, Len(frames))
<1>4. after = Turn(after, Len(frames))
  BY <1>3
<1>5. DispatchAll(frames) = after[Len(frames)]
  BY DEF DispatchAll
<1> HIDE DEF after
<1>6. after[0] = client
  BY <1>4
<1>7. \A k \in 1..Len(frames) : after[k] = Dispatch(after[k - 1], frames[k])
  BY <1>4
<1> QED  BY <1>5, <1>6, <1>7


\* A result that stands is not changed by a dispatch, but for the failed send of
\* an exec.
Stands(s, t) ==
  \A c \in Calls : \/ t.result[c] = s.result[c]
                   \/ s.result[c] = "none"
                   \/ c \in Execs /\ s.result[c] = "send"

\* What is known after p frames is known after one more.
LEMMA OneDispatch ==
  ASSUME CallTypes, Unserved, ExitsLast,
         NEW p \in Nat, p < Len(flight), NEW s, Told(s, p),
         NEW t, t = Dispatch(s, flight[p + 1])
  PROVE  Told(t, p + 1) /\ Stands(s, t)
<1> DEFINE f == flight[p + 1]
<1>1. /\ p + 1 \in 1..Len(flight) /\ Len(flight) \in Nat
      /\ f \in Frame /\ s \in ClientState
      /\ running \subseteq Execs /\ written \in [Execs -> Nat]
  BY LenProperties, ElementOfSeq DEF CallTypes, Told
<1>2. Turns(s, f, t)
  BY <1>1, DispatchFacts, Zenon
<1>3. /\ s.streamHandlers \subseteq Execs /\ s.pendingFrames \subseteq OneShots
      /\ s.outs \in [Execs -> Nat] /\ t.outs \in [Execs -> Nat]
  BY <1>1, <1>2 DEF ClientState, Turns
<1>4. /\ Untold(s) /\ Settled(s) /\ Accounted(s, p) /\ Reported(s) /\ Heard(s, p)
  BY DEF Told
<1>5. /\ Execs \subseteq Calls /\ OneShots \subseteq Calls /\ Execs \cap OneShots = {}
  BY CallsAssumption DEF Calls
<1> HIDE DEF f
<1>6. Untold(t)
  <2>1. ASSUME NEW c \in Execs, Req(c) \notin issued \/ Req(c) \in transit
        PROVE  t.outs[c] = 0
    <3>1. ~IsOut(f, c)
      BY <1>1, <2>1 DEF Unserved, IsOut, f
    <3> QED  BY <1>2, <1>4, <2>1, <3>1 DEF Untold, Turns
  <2>2. ASSUME NEW c \in Calls, Req(c) \notin issued
        PROVE  /\ c \notin t.streamHandlers \cup t.pendingFrames
               /\ t.result[c] = "none"
    BY <1>2, <1>4, <2>2 DEF Untold, Turns
  <2> QED  BY <2>1, <2>2 DEF Untold
<1>7. Settled(t)
  <2>1. ASSUME NEW c \in t.streamHandlers
        PROVE  t.result[c] \in {"none", "send"}
    <3>1. c \in s.streamHandlers /\ c \in Calls
      BY <1>2, <1>3, <1>5 DEF Turns
    <3>2. t.result[c] = s.result[c]
      BY <1>2, <2>1, <3>1 DEF Turns
    <3> QED  BY <1>4, <3>1, <3>2 DEF Settled
  <2>2. ASSUME NEW c \in t.pendingFrames
        PROVE  t.result[c] = "none"
    <3>1. c \in s.pendingFrames /\ c \in Calls /\ c \notin s.streamHandlers
      BY <1>2, <1>3, <1>5 DEF Turns
    <3>2. t.result[c] = s.result[c]
      BY <1>2, <2>2, <3>1 DEF Turns
    <3> QED  BY <1>4, <3>1, <3>2 DEF Settled
  <2> QED  BY <2>1, <2>2 DEF Settled
<1>8. Accounted(t, p + 1)
  <2>1. ASSUME NEW c \in t.streamHandlers, NEW q \in Nat, p < q,
               s.outs[c] + OutsIn(flight, c, p, q) = written[c]
        PROVE  t.outs[c] + OutsIn(flight, c, p + 1, q) = written[c]
    <3>1. c \in s.streamHandlers /\ c \in Execs
      BY <1>2, <1>3 DEF Turns
    <3>2. OutsIn(flight, c, p, q) =
            OutsIn(flight, c, p + 1, q) + IF IsOut(f, c) THEN 1 ELSE 0
      BY <2>1, CountFirst DEF f
    <3>3. OutsIn(flight, c, p + 1, q) \in Nat /\ s.outs[c] \in Nat
      BY <1>3, <3>1, OutsCounted
    <3>4. t.outs[c] = IF IsOut(f, c) THEN s.outs[c] + 1 ELSE s.outs[c]
      BY <1>2, <3>1 DEF Turns
    <3>5. CASE IsOut(f, c)
      <4>1. OutsIn(flight, c, p, q) = OutsIn(flight, c, p + 1, q) + 1
        BY <3>2, <3>5
      <4>2. t.outs[c] = s.outs[c] + 1
        BY <3>4, <3>5
      <4>3. \A x, y \in Nat : (x + 1) + y = x + (y + 1)
        OBVIOUS
      <4> QED  BY <2>1, <3>3, <4>1, <4>2, <4>3, Zenon
    <3>6. CASE ~IsOut(f, c)
      BY <2>1, <3>2, <3>3, <3>4, <3>6
    <3> QED  BY <3>5, <3>6
  <2>2. ASSUME NEW i \in p + 1 + 1..Len(flight),
               flight[i].id \in t.streamHandlers \ denied,
               flight[i].type = "exit"
        PROVE  t.outs[flight[i].id] + OutsIn(flight, flight[i].id, p + 1, i - 1)
                 = written[flight[i].id]
    <3>1. i \in p + 1..Len(flight) /\ i - 1 \in Nat /\ p < i - 1
      BY <1>1
    <3>2. flight[i].id \in s.streamHandlers \ denied
      BY <1>2, <2>2 DEF Turns
    <3>3. s.outs[flight[i].id] + OutsIn(flight, flight[i].id, p, i - 1)
            = written[flight[i].id]
      BY <1>4, <2>2, <3>1, <3>2 DEF Accounted
    <3> QED  BY <2>1, <2>2, <3>1, <3>3
  <2>3. ASSUME NEW c \in t.streamHandlers \cap activeProcesses, held[c] = conn,
               stream = "open"
        PROVE  t.outs[c] + OutsIn(flight, c, p + 1, Len(flight)) = written[c]
    <3>1. c \in s.streamHandlers \cap activeProcesses
      BY <1>2 DEF Turns
    <3>2. s.outs[c] + OutsIn(flight, c, p, Len(flight)) = written[c]
      BY <1>4, <2>3, <3>1 DEF Accounted
    <3> QED  BY <1>1, <2>1, <3>2
  <2> QED  BY <2>2, <2>3 DEF Accounted
<1>9. Reported(t)
  <2> SUFFICES ASSUME NEW c \in Execs \ denied, t.result[c] = "exit"
               PROVE  t.outs[c] = written[c] /\ c \notin running /\ Req(c) \notin transit
    BY DEF Reported
  <2>1. CASE s.result[c] = "exit"
    <3>1. c \notin s.streamHandlers
      BY <1>4, <2>1 DEF Settled
    <3>2. t.outs[c] = s.outs[c]
      BY <1>2, <3>1 DEF Turns
    <3> QED  BY <1>4, <2>1, <3>2 DEF Reported
  <2>2. CASE s.result[c] # "exit"
    <3>1. f.id = c /\ c \in s.streamHandlers /\ f.type = "exit"
      BY <1>2, <1>3, <1>5, <2>2 DEF Turns
    <3>2. s.outs[c] + OutsIn(flight, c, p, p) = written[c]
      <4>1. p + 1 \in p + 1..Len(flight) /\ p + 1 - 1 = p
        BY <1>1
      <4> QED  BY <1>4, <3>1, <4>1 DEF Accounted, f
    <3>3. t.outs[c] = s.outs[c] /\ OutsIn(flight, c, p, p) = 0 /\ s.outs[c] \in Nat
      BY <1>2, <1>3, <3>1, OutsCounted DEF IsOut, Turns
    <3>4. c \notin running
      BY <1>1, <3>1 DEF ExitsLast, activeProcesses, f
    <3>5. Req(c) \notin transit
      BY <1>1, <3>1 DEF Unserved, f
    <3> QED  BY <3>2, <3>3, <3>4, <3>5
  <2> QED  BY <2>1, <2>2
<1>10. Heard(t, p + 1)
  <2> SUFFICES ASSUME NEW c \in Execs \ (overtaken \cup denied),
                      c \in running \/ Req(c) \in transit
               PROVE  /\ c \in t.streamHandlers
                      /\ \A i \in p + 1 + 1..Len(flight) :
                           flight[i].id = c => flight[i].type \notin {"exit", "error"}
    BY DEF Heard
  <2>1. /\ c \in s.streamHandlers
        /\ \A i \in p + 1..Len(flight) :
             flight[i].id = c => flight[i].type \notin {"exit", "error"}
    BY <1>4 DEF Heard
  <2>2. f.id = c => f.type \notin {"exit", "error"}
    BY <1>1, <2>1 DEF f
  <2>3. \A i \in p + 1 + 1..Len(flight) : i \in p + 1..Len(flight)
    BY <1>1
  <2> QED  BY <1>2, <2>1, <2>2, <2>3 DEF Turns
<1>11. Stands(s, t)
  <2> SUFFICES ASSUME NEW c \in Calls, t.result[c] # s.result[c]
               PROVE  s.result[c] = "none" \/ (c \in Execs /\ s.result[c] = "send")
    BY DEF Stands
  <2>1. c \in s.streamHandlers \/ c \in s.pendingFrames
    BY <1>2 DEF Turns
  <2>2. c \in s.pendingFrames => s.result[c] = "none"
    BY <1>4 DEF Settled
  <2>3. c \in s.streamHandlers => c \in Execs /\ s.result[c] \in {"none", "send"}
    BY <1>3, <1>4 DEF Settled
  <2> QED  BY <2>1, <2>2, <2>3
<1> QED  BY <1>2, <1>6, <1>7, <1>8, <1>9, <1>10, <1>11 DEF Told, Turns

\* What is known is known after a chunk's frames are dispatched.
LEMMA AllDispatched ==
  ASSUME CallTypes, Unserved, ExitsLast, Told(client, 0),
         NEW n \in 0..Len(flight), NEW frames, frames = SubSeq(flight, 1, n)
  PROVE  Told(DispatchAll(frames), n) /\ Stands(client, DispatchAll(frames))
<1>1. /\ Len(flight) \in Nat /\ n \in Nat /\ Len(frames) = n
      /\ \A k \in 1..n : frames[k] = flight[k]
  <2>1. Len(flight) \in Nat
    BY LenProperties DEF CallTypes
  <2> QED  BY <2>1
<1>2. PICK after :
        /\ after[0] = client
        /\ \A k \in 1..n : after[k] = Dispatch(after[k - 1], frames[k])
        /\ DispatchAll(frames) = after[n]
  BY <1>1, DispatchInTurn
<1> DEFINE S == {k \in Nat : k <= n => Told(after[k], k) /\ Stands(client, after[k])}
<1>3. 0 \in S
  BY <1>2 DEF Stands
<1>4. ASSUME NEW k \in Nat, k \in S
      PROVE  k + 1 \in S
  <2>1. SUFFICES ASSUME k + 1 <= n
                 PROVE  Told(after[k + 1], k + 1) /\ Stands(client, after[k + 1])
    OBVIOUS
  <2>2. Told(after[k], k) /\ Stands(client, after[k]) /\ k < Len(flight)
    BY <1>1, <1>4, <2>1
  <2>3. after[k + 1] = Dispatch(after[k], flight[k + 1])
    <3>1. k + 1 \in 1..n /\ k + 1 - 1 = k
      BY <2>1
    <3> QED  BY <1>1, <1>2, <3>1
  <2>4. Told(after[k + 1], k + 1) /\ Stands(after[k], after[k + 1])
    BY <2>2, <2>3, OneDispatch
  <2> QED  BY <2>2, <2>4 DEF Stands
<1> HIDE DEF S
<1>5. n \in S
  BY <1>1, <1>3, <1>4, SetInduction
<1> QED  BY <1>1, <1>2, <1>5 DEF S


-----------------------------------------------------------------------------
(* The invariant is inductive: the beginning, and steps that send nothing. *)

\* A request is an exec's or a one-shot call's, or the kill of an exec.
LEMMA RequestFacts ==
  /\ \A c \in Calls : Req(c) \in Requests
  /\ \A c \in Execs : Kill(c) \in Requests
  /\ \A c, d : (Req(c) = Req(d) <=> c = d) /\ (Kill(c) = Kill(d) <=> c = d)
  /\ \A c, d : Req(c) # Kill(d)
  /\ \A r \in Requests : \/ \E c \in Calls : r = Req(c) /\ r[1] = c
                         \/ \E c \in Execs : r = Kill(c) /\ r[1] = c
  BY DEF Req, Kill, Requests

\* Nothing has been called, sent or served.
LEMMA InitIInv == Init => IInv
<1> SUFFICES ASSUME Init
             PROVE  IInv
  OBVIOUS
<1>1. client \in ClientState
  BY DEF Init, ClientState
<1>2. CallTypes
  BY <1>1 DEF Init, CallTypes
<1>3. WireSpells
  <2>1. /\ stream = "open" /\ buffer = <<>> /\ wire = <<>> /\ flight = <<>>
        /\ <<>> \in Seq(Token) /\ <<>> \o <<>> = <<>> /\ Len(<<>>) = 0
    BY DEF Init
  <2>2. Spells(<<>>, <<>>)
    BY <2>1 DEF Spells
  <2> QED  BY <2>1, <2>2 DEF WireSpells
<1>4. flight = <<>> /\ running = {} /\ denied = {} /\ issued = {} /\ transit = {}
  BY DEF Init
<1>5. Unserved /\ ExitsLast
  BY <1>4 DEF Init, Unserved, ExitsLast
<1>6. Untold(client) /\ Settled(client) /\ Reported(client)
  BY DEF Init, Untold, Settled, Reported, Calls
<1>7. Accounted(client, 0) /\ Heard(client, 0)
  BY <1>4 DEF Accounted, Heard, activeProcesses
<1> QED  BY <1>1, <1>2, <1>3, <1>5, <1>6, <1>7 DEF IInv, Told

\* What is known stays known when the stream goes with what is on it, or is
\* replaced.
LEMMA ToldCut ==
  ASSUME Told(client, 0), CallTypes, serverVars' = serverVars, callVars' = callVars,
         \A i \in 1..Len(flight') : flight'[i].id \notin Execs,
         stream' = "open" => conn' = conn + 1
  PROVE  Told(client, 0)'
<1> USE DEF serverVars, callVars
<1>1. /\ Untold(client)' /\ Settled(client)' /\ Reported(client)'
      /\ (client \in ClientState)'
  BY DEF Told, Untold, Settled, Reported
<1>2. client.streamHandlers \subseteq Execs /\ Execs \subseteq Calls
  BY DEF Told, ClientState, Calls
<1>3. Accounted(client, 0)'
  <2>1. \A c \in running : stream' = "open" => held[c] # conn'
    BY <1>2 DEF CallTypes
  <2> QED  BY <1>2, <2>1 DEF Accounted, activeProcesses
<1>4. Heard(client, 0)'
  BY DEF Told, Heard
<1> QED  BY <1>1, <1>3, <1>4 DEF Told

\* A stream that is gone has nothing on it.
LEMMA WireGone ==
  ASSUME stream' # "open", wire' = <<>>, flight' = <<>>, buffer' \in Seq(Token)
  PROVE  WireSpells'
  BY DEF WireSpells

\* The client's moves that change no handler, and the server's that send nothing.
LEMMA QuietStep ==
  ASSUME IInv,
         UNCHANGED <<flight, emitted, wire, buffer, client, written, running, denied>>,
         UNCHANGED <<source, stream, conn, overtaken>>,
         working' \subseteq OneShots, awaiting' \subseteq issued',
         held' \in [Calls -> 0..conn], \A c \in Execs : held'[c] = held[c],
         issued \subseteq issued', issued' \subseteq Requests, transit' \subseteq issued',
         \A c \in Calls : /\ Req(c) \in issued' => Req(c) \in issued
                          /\ Req(c) \in transit' => Req(c) \in transit,
         \A c \in Execs : Kill(c) \in issued' => Req(c) \in issued
  PROVE  IInv'
<1>1. CallTypes'
  BY DEF IInv, CallTypes
<1>2. WireSpells'
  BY DEF IInv, WireSpells
<1>3. Execs \subseteq Calls
  BY DEF Calls
<1>4. Unserved'
  BY <1>3 DEF IInv, Unserved
<1>5. ExitsLast'
  BY DEF IInv, ExitsLast, activeProcesses
<1>6. Told(client, 0)'
  <2>1. /\ Untold(client)' /\ Settled(client)' /\ Reported(client)'
        /\ (client \in ClientState)'
    BY <1>3 DEF IInv, Told, Untold, Settled, Reported
  <2>2. client.streamHandlers \subseteq Execs
    BY DEF IInv, Told, ClientState
  <2>3. Accounted(client, 0)'
    BY <2>2 DEF IInv, Told, Accounted, activeProcesses
  <2>4. Heard(client, 0)'
    BY <1>3 DEF IInv, Told, Heard
  <2> QED  BY <2>1, <2>3, <2>4 DEF Told
<1> QED  BY <1>1, <1>2, <1>4, <1>5, <1>6 DEF IInv

\* kill(), a refusal and a call taken up.
LEMMA KillRefuseServe ==
  ASSUME IInv, \/ \E c \in Execs : _sendKill(c)
               \/ \E r \in Requests : Refuse(r)
               \/ \E c \in OneShots : ServeCall(c)
  PROVE  IInv'
<1>1. /\ issued \subseteq Requests /\ transit \subseteq issued
      /\ awaiting \subseteq issued /\ working \subseteq OneShots
      /\ held \in [Calls -> 0..conn] /\ conn \in Nat
  BY DEF IInv, CallTypes
<1>2. ASSUME NEW c \in Execs, _sendKill(c)
      PROVE  IInv'
  <2>1. /\ issued' = issued \cup {Kill(c)} /\ transit' = transit \cup {Kill(c)}
        /\ Req(c) \in issued
        /\ UNCHANGED <<flight, emitted, wire, buffer, client, written, running, denied,
                       source, stream, conn, overtaken, working, awaiting, held>>
    BY <1>2 DEF _sendKill, wireVars, readVars
  <2>2. /\ issued' \subseteq Requests /\ transit' \subseteq issued'
        /\ \A d \in Calls : /\ Req(d) \in issued' => Req(d) \in issued
                            /\ Req(d) \in transit' => Req(d) \in transit
    BY <1>1, <2>1, RequestFacts
  <2>3. \A d \in Execs : Kill(d) \in issued' => Req(d) \in issued
    BY <2>1, RequestFacts DEF IInv, Unserved
  <2> QED  BY <1>1, <2>1, <2>2, <2>3, QuietStep
<1>3. ASSUME NEW r \in Requests, Refuse(r)
      PROVE  IInv'
  <2>1. /\ transit' \subseteq transit
        /\ UNCHANGED <<flight, emitted, wire, buffer, client, written, running, denied,
                       source, stream, conn, overtaken, working, awaiting, held, issued>>
    BY <1>3 DEF Refuse, wireVars, readVars, callVars
  <2>2. \A d \in Execs : Kill(d) \in issued' => Req(d) \in issued
    BY <2>1 DEF IInv, Unserved
  <2> QED  BY <1>1, <2>1, <2>2, QuietStep
<1>4. ASSUME NEW c \in OneShots, ServeCall(c)
      PROVE  IInv'
  <2>1. /\ transit' \subseteq transit /\ working' = working \cup {c}
        /\ held' = [held EXCEPT ![c] = conn]
        /\ UNCHANGED <<flight, emitted, wire, buffer, client, written, running, denied,
                       source, stream, conn, overtaken, awaiting, issued>>
    BY <1>4 DEF ServeCall, wireVars, readVars, callVars
  <2>2. \A d \in Execs : Kill(d) \in issued' => Req(d) \in issued
    BY <2>1 DEF IInv, Unserved
  <2>3. \A d \in Execs : held'[d] = held[d]
    BY <1>1, <2>1, CallsAssumption DEF Calls
  <2>4. held' \in [Calls -> 0..conn]
    <3>1. conn \in 0..conn
      BY <1>1
    <3> QED  BY <1>1, <2>1, <3>1
  <2> QED  BY <1>1, <2>1, <2>2, <2>3, <2>4, QuietStep
<1> QED  BY <1>2, <1>3, <1>4


\* exec() and sendAndWait: the call is listened to before its request leaves.
LEMMA CallStep ==
  ASSUME IInv, \/ \E c \in Execs : exec(c)
               \/ \E c \in OneShots : sendAndWait(c)
  PROVE  IInv'
<1>1. PICK c \in Calls :
        /\ Req(c) \notin issued
        /\ issued' = issued \cup {Req(c)} /\ awaiting' = awaiting \cup {Req(c)}
        /\ transit' = transit \cup {Req(c)}
        /\ \/ /\ c \in Execs
              /\ client' = [client EXCEPT !.streamHandlers = @ \cup {c}]
           \/ /\ c \in OneShots
              /\ client' = [client EXCEPT !.pendingFrames = @ \cup {c}]
        /\ UNCHANGED <<wireVars, readVars, working, running, denied, held, written, overtaken>>
  BY DEF exec, sendAndWait, Calls
<1>2. UNCHANGED <<source, stream, conn, wire, buffer, flight, emitted>>
  BY <1>1 DEF wireVars, readVars
<1>3. /\ client \in ClientState /\ Untold(client) /\ Settled(client)
      /\ Accounted(client, 0) /\ Reported(client) /\ Heard(client, 0)
      /\ CallTypes /\ WireSpells /\ Unserved /\ ExitsLast
  BY DEF IInv, Told
<1>4. /\ client' \in ClientState
      /\ client'.outs = client.outs /\ client'.result = client.result
      /\ client.streamHandlers \subseteq client'.streamHandlers
      /\ client'.streamHandlers \subseteq client.streamHandlers \cup {c}
      /\ client.pendingFrames \subseteq client'.pendingFrames
      /\ client'.pendingFrames \subseteq client.pendingFrames \cup {c}
      /\ c \in Execs => c \in client'.streamHandlers
      /\ client'.streamHandlers \subseteq Execs
  <2>1. /\ client = [streamHandlers |-> client.streamHandlers,
                     pendingFrames |-> client.pendingFrames,
                     result |-> client.result, outs |-> client.outs]
        /\ client.streamHandlers \subseteq Execs
        /\ client.pendingFrames \subseteq OneShots
        /\ client.outs \in [Execs -> Nat]
        /\ client.result \in [Calls -> FrameTypes \cup {"none", "send"}]
    BY <1>3 DEF ClientState
  <2>2. CASE c \in Execs /\ client' = [client EXCEPT !.streamHandlers = @ \cup {c}]
    <3>1. client' = [streamHandlers |-> client.streamHandlers \cup {c},
                     pendingFrames |-> client.pendingFrames,
                     result |-> client.result, outs |-> client.outs]
      BY <2>1, <2>2
    <3> QED  BY <2>1, <2>2, <3>1 DEF ClientState
  <2>3. CASE c \in OneShots /\ client' = [client EXCEPT !.pendingFrames = @ \cup {c}]
    <3>1. client' = [streamHandlers |-> client.streamHandlers,
                     pendingFrames |-> client.pendingFrames \cup {c},
                     result |-> client.result, outs |-> client.outs]
      BY <2>1, <2>3
    <3> QED  BY <2>1, <2>3, <3>1, CallsAssumption DEF ClientState
  <2> QED  BY <1>1, <2>2, <2>3
<1>5. CallTypes'
  BY <1>1, <1>2, <1>3, <1>4, RequestFacts DEF CallTypes
<1>6. WireSpells'
  BY <1>2, <1>3 DEF WireSpells
<1>7. Execs \subseteq Calls /\ \A d \in Calls \ {c} :
        /\ Req(d) \in issued' <=> Req(d) \in issued
        /\ Req(d) \in transit' <=> Req(d) \in transit
  BY <1>1, RequestFacts DEF Calls
<1>8. \A d \in Execs : Kill(d) \in issued' <=> Kill(d) \in issued
  BY <1>1, RequestFacts
<1>9. Unserved'
  <2> SUFFICES ASSUME NEW d \in Execs
               PROVE  /\ Req(d) \notin issued' =>
                           /\ Kill(d) \notin issued'
                           /\ \A i \in 1..Len(flight) : flight[i].id # d
                      /\ Req(d) \notin issued' \/ Req(d) \in transit' =>
                           /\ written[d] = 0 /\ d \notin running
                           /\ \A i \in 1..Len(flight) :
                                flight[i].id = d => flight[i].type \notin {"out", "exit"}
    BY <1>1, <1>2 DEF Unserved
  <2>1. CASE d = c
    BY <1>1, <1>3, <2>1 DEF Unserved
  <2>2. CASE d # c
    BY <1>3, <1>7, <1>8, <2>2 DEF Unserved
  <2> QED  BY <2>1, <2>2
<1>10. ExitsLast'
  BY <1>1, <1>2, <1>3 DEF ExitsLast, activeProcesses
<1>11. Untold(client)'
  BY <1>1, <1>3, <1>4, <1>7 DEF Untold
<1>12. Settled(client)'
  BY <1>1, <1>3, <1>4 DEF Settled, Untold
<1>13. c \in Execs => /\ c \notin running
                      /\ \A i \in 1..Len(flight) : flight[i].id # c
  BY <1>1, <1>3 DEF Unserved
<1>14. Accounted(client, 0)'
  <2>1. \A d \in client'.streamHandlers : d = c \/ d \in client.streamHandlers
    BY <1>4
  <2>2. \A i \in 0 + 1..Len(flight) : i \in 1..Len(flight)
    BY <1>3
  <2> QED  BY <1>1, <1>2, <1>3, <1>4, <1>13, <2>1, <2>2 DEF Accounted, activeProcesses
<1>15. Reported(client)'
  BY <1>1, <1>3, <1>4, <1>7 DEF Reported, Untold
<1>16. Heard(client, 0)'
  <2> SUFFICES ASSUME NEW d \in Execs \ (overtaken \cup denied),
                      d \in running \/ Req(d) \in transit'
               PROVE  /\ d \in client'.streamHandlers
                      /\ \A i \in 0 + 1..Len(flight) :
                           flight[i].id = d => flight[i].type \notin {"exit", "error"}
    BY <1>1, <1>2 DEF Heard
  <2>1. CASE d = c
    BY <1>4, <1>13, <2>1
  <2>2. CASE d # c
    BY <1>3, <1>4, <1>7, <2>2 DEF Heard
  <2> QED  BY <2>1, <2>2
<1> QED  BY <1>4, <1>5, <1>6, <1>9, <1>10, <1>11, <1>12, <1>14, <1>15, <1>16
            DEF IInv, Told

\* The answer to a request, or none: a send that fails settles its call.
LEMMA AnswerStep ==
  ASSUME IInv, NEW r \in Requests, Answer(r) \/ NoAnswer(r)
  PROVE  IInv'
<1>1. /\ UNCHANGED <<wireVars, readVars, serverVars, issued>>
      /\ awaiting' = awaiting \ {r} /\ r \in awaiting
      /\ \/ client' = client
         \/ /\ r[1] \in Execs /\ client' = [client EXCEPT !.result[r[1]] = "send"]
         \/ /\ r[1] \notin Execs
            /\ client' = [client EXCEPT !.pendingFrames = @ \ {r[1]},
                                        !.result[r[1]] = IF @ = "none" THEN "send" ELSE @]
  BY DEF Answer, NoAnswer, SendFails
<1>2. PICK c \in Calls : /\ c = r[1] /\ (r = Req(c) \/ (c \in Execs /\ r = Kill(c)))
  BY RequestFacts DEF Calls
<1>3. /\ client \in ClientState /\ Untold(client) /\ Settled(client)
      /\ Accounted(client, 0) /\ Reported(client) /\ Heard(client, 0)
      /\ CallTypes /\ WireSpells /\ Unserved /\ ExitsLast
  BY DEF IInv, Told
<1>4. Req(c) \in issued
  BY <1>1, <1>2, <1>3 DEF CallTypes, Unserved
<1>5. /\ client' \in ClientState
      /\ client'.outs = client.outs
      /\ client'.streamHandlers = client.streamHandlers
      /\ client'.pendingFrames \subseteq client.pendingFrames
      /\ \A d \in Calls : client'.result[d] # client.result[d] =>
           /\ d = c /\ client'.result[d] = "send"
           /\ d \in Execs \/ d \notin client'.pendingFrames
  <2>1. /\ client = [streamHandlers |-> client.streamHandlers,
                     pendingFrames |-> client.pendingFrames,
                     result |-> client.result, outs |-> client.outs]
        /\ client.streamHandlers \subseteq Execs
        /\ client.pendingFrames \subseteq OneShots
        /\ client.outs \in [Execs -> Nat]
        /\ client.result \in [Calls -> FrameTypes \cup {"none", "send"}]
    BY <1>3 DEF ClientState
  <2>2. CASE client' = client
    BY <1>3, <2>2
  <2>3. CASE client' = [client EXCEPT !.result[r[1]] = "send"] /\ c \in Execs
    <3>1. client' = [streamHandlers |-> client.streamHandlers,
                     pendingFrames |-> client.pendingFrames,
                     result |-> [client.result EXCEPT ![c] = "send"],
                     outs |-> client.outs]
      BY <1>2, <2>1, <2>3
    <3> QED  BY <2>1, <2>3, <3>1 DEF ClientState
  <2>4. CASE client' = [client EXCEPT !.pendingFrames = @ \ {r[1]},
                                      !.result[r[1]] = IF @ = "none" THEN "send" ELSE @]
    <3>1. client' = [streamHandlers |-> client.streamHandlers,
                     pendingFrames |-> client.pendingFrames \ {c},
                     result |-> [client.result EXCEPT
                       ![c] = IF client.result[c] = "none" THEN "send"
                              ELSE client.result[c]],
                     outs |-> client.outs]
      BY <1>2, <2>1, <2>4
    <3> QED  BY <2>1, <3>1 DEF ClientState
  <2> QED  BY <1>1, <1>2, <2>2, <2>3, <2>4
<1>6. /\ UNCHANGED <<source, stream, conn, wire, buffer, flight, emitted, issued>>
      /\ UNCHANGED <<transit, working, running, denied, held, written, overtaken>>
  BY <1>1 DEF wireVars, readVars, serverVars
<1>7. /\ client.streamHandlers \subseteq Execs /\ client.pendingFrames \subseteq OneShots
      /\ Execs \subseteq Calls /\ OneShots \subseteq Calls /\ Execs \cap OneShots = {}
  BY <1>3, CallsAssumption DEF ClientState, Calls
<1>8. CallTypes'
  BY <1>1, <1>3, <1>5, <1>6 DEF CallTypes
<1>9. WireSpells' /\ Unserved' /\ ExitsLast'
  BY <1>3, <1>6 DEF WireSpells, Unserved, ExitsLast, activeProcesses
<1>10. Untold(client)'
  BY <1>3, <1>4, <1>5, <1>6 DEF Untold
<1>11. Settled(client)'
  <2>1. \A d \in client'.streamHandlers : client'.result[d] \in {"none", "send"}
    BY <1>3, <1>5, <1>7 DEF Settled
  <2>2. \A d \in client'.pendingFrames : client'.result[d] = "none"
    BY <1>3, <1>5, <1>7 DEF Settled
  <2> QED  BY <2>1, <2>2 DEF Settled
<1>12. Accounted(client, 0)'
  BY <1>3, <1>5, <1>6 DEF Accounted, activeProcesses
<1>13. Reported(client)'
  BY <1>3, <1>5, <1>6, <1>7 DEF Reported
<1>14. Heard(client, 0)'
  BY <1>3, <1>5, <1>6 DEF Heard
<1> QED  BY <1>5, <1>8, <1>9, <1>10, <1>11, <1>12, <1>13, <1>14 DEF IInv, Told

\* The stream breaks, ends, is closed or is replaced.
LEMMA StreamStep ==
  ASSUME IInv, close \/ Lose \/ StreamEnds \/ EventSourceError
  PROVE  IInv'
<1>1. /\ serverVars' = serverVars /\ callVars' = callVars
      /\ UNCHANGED <<source, emitted>>
  BY DEF close, Lose, StreamEnds, EventSourceError
<1>2. /\ CallTypes /\ WireSpells /\ Unserved /\ ExitsLast /\ Told(client, 0)
      /\ buffer \in Seq(Token) /\ <<>> \in Seq(Token)
      /\ client \in ClientState
  BY DEF IInv, WireSpells, CallTypes
<1>3. \/ /\ stream' \in {"lost", "ended"} /\ conn' = conn
         /\ wire' = <<>> /\ flight' = <<>> /\ buffer' \in {buffer, <<>>}
      \/ /\ stream' = "open" /\ conn' = conn + 1
         /\ wire' = Encode(Greeting) /\ flight' = <<Greeting>> /\ buffer' = <<>>
  <2>1. stream # "open" => wire = <<>> /\ flight = <<>>
    BY <1>2 DEF WireSpells
  <2>2. CASE close
    BY <1>2, <2>2 DEF close, CallTypes
  <2>3. CASE Lose
    BY <2>3 DEF Lose
  <2>4. CASE StreamEnds
    BY <2>1, <2>4 DEF StreamEnds
  <2>5. CASE EventSourceError
    BY <2>1, <2>5 DEF EventSourceError
  <2> QED  BY <2>2, <2>3, <2>4, <2>5
<1>4. Greeting \in Frame /\ Greeting.id = NoCall /\ NoCall \notin Execs
  BY CallsAssumption DEF Greeting, Frame
<1>5. /\ flight' \in Seq(Frame) /\ Len(flight') \in Nat
      /\ \A i \in 1..Len(flight') : flight'[i].id \notin Execs
  <2>1. CASE flight' = <<>>
    BY <2>1
  <2>2. CASE flight' = <<Greeting>>
    BY <1>4, <2>2
  <2> QED  BY <1>3, <2>1, <2>2
<1>6. stream' = "open" => conn' = conn + 1
  BY <1>3
<1>7. Told(client, 0)'
  BY <1>1, <1>2, <1>5, <1>6, ToldCut
<1>8. CallTypes'
  <2>1. /\ conn' \in Nat \ {0} /\ held \in [Calls -> 0..conn']
        /\ stream' \in {"open", "lost", "ended"}
    BY <1>2, <1>3 DEF CallTypes
  <2> QED  BY <1>1, <1>2, <1>5, <2>1 DEF CallTypes, serverVars, callVars
<1>9. WireSpells'
  <2>1. CASE stream' # "open"
    BY <1>2, <1>3, <2>1, WireGone
  <2>2. CASE stream' = "open"
    <3>1. /\ wire' = Encode(Greeting) /\ flight' = <<Greeting>> /\ buffer' = <<>>
      BY <1>3, <2>2
    <3>2. Spells(<<>> \o <<>>, <<>>)
      BY DEF Spells
    <3>3. /\ <<>> \o Encode(Greeting) \in Seq(Token)
          /\ Spells(<<>> \o (<<>> \o Encode(Greeting)), Append(<<>>, Greeting))
      <4>1. <<>> \in Seq(Frame) /\ <<>> \in Seq(Token)
        OBVIOUS
      <4> QED  BY <1>4, <3>2, <4>1, SpellsMore
    <3>4. Encode(Greeting) \in Seq(Token) /\ <<>> \o Encode(Greeting) = Encode(Greeting)
      BY <1>4 DEF Encode, Token
    <3>5. Append(<<>>, Greeting) = <<Greeting>>
      BY <1>4
    <3>6. Spells(buffer' \o wire', flight')
      BY <3>1, <3>3, <3>4, <3>5, Zenon
    <3> QED  BY <1>2, <2>2, <3>1, <3>4, <3>6 DEF WireSpells
  <2> QED  BY <2>1, <2>2
<1>10. Unserved' /\ ExitsLast'
  BY <1>1, <1>2, <1>5 DEF Unserved, ExitsLast, serverVars, callVars, activeProcesses
<1> QED  BY <1>7, <1>8, <1>9, <1>10 DEF IInv


-----------------------------------------------------------------------------
(* The invariant is inductive: what the server sends.                      *)

\* One more frame is in flight, or the stream it was meant for is gone.
Sent(k, f) ==
  /\ flight' \in Seq(Frame)
  /\ IF stream = "open" /\ k = conn
     THEN /\ Len(flight') = Len(flight) + 1
          /\ flight'[Len(flight) + 1] = f
          /\ \A i \in 1..Len(flight) : flight'[i] = flight[i]
     ELSE flight' = flight

\* That is what sendEvent does, and the wire still spells what is in flight.
LEMMA SendFacts ==
  ASSUME CallTypes, WireSpells, NEW k, NEW c \in Calls \cup {NoCall},
         NEW type \in FrameTypes,
         SendTo(k, c, type), UNCHANGED <<stream, buffer>>
  PROVE  Sent(k, [id |-> c, type |-> type]) /\ WireSpells'
<1> DEFINE f == [id |-> c, type |-> type]
<1>1. f \in Frame
  BY DEF Frame, FrameTypes
<1>2. flight \in Seq(Frame) /\ Len(flight) \in Nat
  BY LenProperties DEF CallTypes
<1>3. CASE stream = "open" /\ k = conn
  <2>1. wire' = wire \o Encode(f) /\ flight' = Append(flight, f)
    BY <1>3 DEF SendTo
  <2>2. /\ buffer \in Seq(Token) /\ wire \in Seq(Token)
        /\ Spells(buffer \o wire, flight)
    BY <1>3 DEF WireSpells
  <2> HIDE DEF f
  <2>3. /\ wire \o Encode(f) \in Seq(Token)
        /\ Spells(buffer \o (wire \o Encode(f)), Append(flight, f))
    BY <1>1, <1>2, <2>2, SpellsMore, Zenon
  <2>4. wire' \in Seq(Token) /\ Spells(buffer \o wire', flight')
    BY <2>1, <2>3, Zenon
  <2>5. buffer' = buffer /\ stream' = "open"
    BY <1>3
  <2>6. Spells(buffer' \o wire', flight')
    BY <2>4, <2>5, Zenon
  <2>7. WireSpells'
    BY <2>2, <2>4, <2>5, <2>6 DEF WireSpells
  <2>8. Sent(k, f)
    <3> DEFINE longer == Append(flight, f)
    <3>1. flight' = longer
      BY <2>1
    <3>2. /\ longer \in Seq(Frame) /\ Len(longer) = Len(flight) + 1
          /\ \A i \in 1..Len(flight) : longer[i] = flight[i]
          /\ longer[Len(flight) + 1] = f
      BY <1>1, <1>2, AppendProperties
    <3> HIDE DEF longer
    <3> QED  BY <1>3, <3>1, <3>2 DEF Sent
  <2> QED  BY <2>7, <2>8 DEF f
<1>4. CASE ~(stream = "open" /\ k = conn)
  <2>1. UNCHANGED <<wire, flight>>
    BY <1>4 DEF SendTo
  <2>2. WireSpells'
    BY <2>1 DEF WireSpells
  <2> QED  BY <1>2, <1>4, <2>1, <2>2 DEF Sent
<1> QED  BY <1>3, <1>4

\* A frame that is sent adds to the output in flight of its own exec.
LEMMA SentCounts ==
  ASSUME CallTypes, NEW k, NEW f, Sent(k, f), NEW c
  PROVE  /\ \A q \in 0..Len(flight) : OutsIn(flight', c, 0, q) = OutsIn(flight, c, 0, q)
         /\ OutsIn(flight', c, 0, Len(flight')) =
              OutsIn(flight, c, 0, Len(flight))
                + IF stream = "open" /\ k = conn /\ IsOut(f, c) THEN 1 ELSE 0
<1>1. Len(flight) \in Nat
  BY LenProperties DEF CallTypes
<1>2. \A i \in 1..Len(flight) : flight'[i] = flight[i]
  BY DEF Sent
<1>3. ASSUME NEW q \in 0..Len(flight)
      PROVE  OutsIn(flight', c, 0, q) = OutsIn(flight, c, 0, q)
  <2>1. \A i \in 0 + 1..q : flight'[i] = flight[i]
    BY <1>1, <1>2
  <2> QED  BY <1>1, <2>1, CountSame
<1>4. OutsIn(flight, c, 0, Len(flight)) \in Nat
  BY <1>1, OutsCounted
<1>5. CASE stream = "open" /\ k = conn
  <2>1. Len(flight') = Len(flight) + 1 /\ flight'[Len(flight) + 1] = f
    BY <1>5 DEF Sent
  <2>2. OutsIn(flight', c, 0, Len(flight) + 1) =
          OutsIn(flight', c, 0, Len(flight))
            + IF IsOut(flight'[Len(flight) + 1], c) THEN 1 ELSE 0
    BY <1>1, CountLast
  <2> QED  BY <1>1, <1>3, <1>5, <2>1, <2>2
<1>6. CASE ~(stream = "open" /\ k = conn)
  <2>1. flight' = flight
    BY <1>6 DEF Sent
  <2> QED  BY <1>4, <1>6, <2>1
<1> QED  BY <1>3, <1>5, <1>6

\* Every frame in flight was there before or is the one sent.
LEMMA SentFrames ==
  ASSUME CallTypes, NEW k, NEW f, Sent(k, f)
  PROVE  /\ Len(flight) \in Nat /\ Len(flight') \in Nat
         /\ \A i \in 1..Len(flight') :
              \/ i \in 1..Len(flight) /\ flight'[i] = flight[i]
              \/ /\ i = Len(flight) + 1 /\ flight'[i] = f
                 /\ stream = "open" /\ k = conn
<1>1. Len(flight) \in Nat
  BY LenProperties DEF CallTypes
<1>2. CASE stream = "open" /\ k = conn
  <2>1. /\ Len(flight') = Len(flight) + 1 /\ flight'[Len(flight) + 1] = f
        /\ \A i \in 1..Len(flight) : flight'[i] = flight[i]
    BY <1>2 DEF Sent
  <2>2. ASSUME NEW i \in 1..Len(flight')
        PROVE  i \in 1..Len(flight) \/ i = Len(flight) + 1
    BY <1>1, <2>1
  <2> QED  BY <1>1, <1>2, <2>1, <2>2
<1>3. CASE ~(stream = "open" /\ k = conn)
  BY <1>1, <1>3 DEF Sent
<1> QED  BY <1>2, <1>3

\* The server's step on call c sends f, and no process of another call is
\* disturbed.
LEMMA SendStep ==
  ASSUME IInv, NEW k, NEW c \in Calls \cup {NoCall},
         NEW type \in {"out", "exit", "error", "res"},
         SendTo(k, c, type),
         UNCHANGED <<client, emitted, buffer, source, stream, conn, issued, awaiting>>,
         transit' \subseteq transit, working' \subseteq OneShots,
         overtaken \subseteq overtaken', overtaken' \subseteq Execs,
         running' \subseteq running, denied \subseteq denied', denied' \subseteq Execs,
         held' \in [Calls -> 0..conn], \A d \in running' : held'[d] = held[d],
         written' \in [Execs -> Nat],
         \A d \in Execs : written'[d] = written[d]
                            + IF type = "out" /\ d = c THEN 1 ELSE 0,
         c \in Execs => Req(c) \in issued,
         type = "out" => c \in running /\ k = held[c],
         type = "exit" => c \in running /\ c \notin activeProcesses' /\ k = held[c],
         type = "error" /\ c \in Execs =>
           (c \notin activeProcesses' /\ Req(c) \notin transit') \/ c \in overtaken',
         type = "res" => c \in OneShots
  PROVE  IInv'
<1> DEFINE f == [id |-> c, type |-> type]
<1>1. /\ CallTypes /\ WireSpells /\ Unserved /\ ExitsLast
      /\ client \in ClientState /\ Untold(client) /\ Settled(client)
      /\ Accounted(client, 0) /\ Reported(client) /\ Heard(client, 0)
  BY DEF IInv, Told
<1>2. Sent(k, f) /\ WireSpells'
  <2>1. type \in FrameTypes
    BY DEF FrameTypes
  <2> QED  BY <1>1, <2>1, SendFacts
<1>3. /\ Len(flight) \in Nat /\ Len(flight') \in Nat
      /\ \A i \in 1..Len(flight') :
           \/ i \in 1..Len(flight) /\ flight'[i] = flight[i]
           \/ /\ i = Len(flight) + 1 /\ flight'[i] = f
              /\ stream = "open" /\ k = conn
  BY <1>1, <1>2, SentFrames
<1>4. f.id = c /\ f.type = type
  OBVIOUS
<1> HIDE DEF f
<1>5. Execs \subseteq Calls /\ client.streamHandlers \subseteq Execs
  BY <1>1 DEF Calls, ClientState
<1>6. CallTypes'
  BY <1>1, <1>2 DEF CallTypes, Sent
<1>7. c \in running => Req(c) \in issued /\ Req(c) \notin transit /\ c \in Execs
  BY <1>1 DEF Unserved, CallTypes
<1>8. Unserved'
  <2> SUFFICES ASSUME NEW d \in Execs
               PROVE  /\ Req(d) \notin issued' =>
                           /\ Kill(d) \notin issued'
                           /\ \A i \in 1..Len(flight') : flight'[i].id # d
                      /\ Req(d) \notin issued' \/ Req(d) \in transit' =>
                           /\ written'[d] = 0 /\ d \notin running'
                           /\ \A i \in 1..Len(flight') : flight'[i].id = d =>
                                flight'[i].type \notin {"out", "exit"}
    BY DEF Unserved
  <2>1. Req(d) \notin issued' =>
          /\ Kill(d) \notin issued'
          /\ \A i \in 1..Len(flight') : flight'[i].id # d
    BY <1>1, <1>3, <1>4 DEF Unserved
  <2>2. ASSUME Req(d) \notin issued' \/ Req(d) \in transit'
        PROVE  /\ written'[d] = 0 /\ d \notin running'
               /\ \A i \in 1..Len(flight') :
                    flight'[i].id = d => flight'[i].type \notin {"out", "exit"}
    <3>1. /\ written[d] = 0 /\ d \notin running
          /\ \A i \in 1..Len(flight) :
               flight[i].id = d => flight[i].type \notin {"out", "exit"}
      BY <1>1, <2>2 DEF Unserved
    <3>2. d = c => type \notin {"out", "exit"}
      BY <1>7, <2>2
    <3> QED  BY <1>3, <1>4, <3>1, <3>2
  <2> QED  BY <2>1, <2>2
<1>9. ExitsLast'
  BY <1>1, <1>3, <1>4 DEF ExitsLast, activeProcesses
<1>10. Untold(client)' /\ Settled(client)'
  BY <1>1, <1>5 DEF Untold, Settled
<1>11. Accounted(client, 0)'
  <2>1. \A d : /\ \A q \in 0..Len(flight) :
                    OutsIn(flight', d, 0, q) = OutsIn(flight, d, 0, q)
               /\ OutsIn(flight', d, 0, Len(flight')) =
                    OutsIn(flight, d, 0, Len(flight))
                      + IF stream = "open" /\ k = conn /\ IsOut(f, d) THEN 1 ELSE 0
    BY <1>1, <1>2, SentCounts
  <2>2. ASSUME NEW i \in 0 + 1..Len(flight'),
               flight'[i].id \in client.streamHandlers \ denied',
               flight'[i].type = "exit"
        PROVE  client.outs[flight'[i].id] + OutsIn(flight', flight'[i].id, 0, i - 1)
                 = written'[flight'[i].id]
    <3>1. CASE i \in 1..Len(flight) /\ flight'[i] = flight[i]
      <4> DEFINE d == flight[i].id
      <4>1. client.outs[d] + OutsIn(flight, d, 0, i - 1) = written[d] /\ d \in Execs
        BY <1>1, <1>5, <2>2, <3>1 DEF Accounted, activeProcesses
      <4>2. d \notin running /\ d \notin denied
        BY <1>1, <2>2, <3>1, <4>1 DEF ExitsLast, activeProcesses
      <4>3. written'[d] = written[d]
        BY <1>1, <4>1, <4>2 DEF CallTypes
      <4>4. OutsIn(flight', d, 0, i - 1) = OutsIn(flight, d, 0, i - 1)
        BY <1>3, <2>1, <3>1
      <4> QED  BY <3>1, <4>1, <4>3, <4>4
    <3>2. CASE i = Len(flight) + 1 /\ flight'[i] = f /\ stream = "open" /\ k = conn
      <4>1. /\ type = "exit" /\ c \in running /\ held[c] = conn
            /\ c \in client.streamHandlers /\ c \notin denied
        BY <1>4, <2>2, <3>2
      <4>2. client.outs[c] + OutsIn(flight, c, 0, Len(flight)) = written[c]
        BY <1>1, <3>2, <4>1 DEF Accounted, activeProcesses
      <4>3. written'[c] = written[c]
        BY <1>1, <1>5, <4>1 DEF CallTypes
      <4>4. OutsIn(flight', c, 0, i - 1) = OutsIn(flight, c, 0, Len(flight))
        BY <1>3, <2>1, <3>2
      <4> QED  BY <1>4, <3>2, <4>2, <4>3, <4>4
    <3> QED  BY <1>3, <2>2, <3>1, <3>2
  <2>3. ASSUME NEW d \in client.streamHandlers \cap activeProcesses', held'[d] = conn,
               stream = "open"
        PROVE  client.outs[d] + OutsIn(flight', d, 0, Len(flight')) = written'[d]
    <3>1. client.outs[d] + OutsIn(flight, d, 0, Len(flight)) = written[d]
      BY <1>1, <2>3 DEF Accounted, activeProcesses
    <3>2. /\ client.outs[d] \in Nat /\ OutsIn(flight, d, 0, Len(flight)) \in Nat
          /\ d \in Execs
      BY <1>1, <1>3, <1>5, OutsCounted DEF ClientState
    <3>3. CASE type = "out" /\ d = c
      <4>1. k = conn /\ IsOut(f, d)
        BY <1>4, <2>3, <3>3 DEF IsOut, activeProcesses
      <4>2. written'[d] = written[d] + 1
        BY <3>2, <3>3
      <4>3. OutsIn(flight', d, 0, Len(flight')) = OutsIn(flight, d, 0, Len(flight)) + 1
        BY <2>1, <2>3, <4>1
      <4>4. \A x, y \in Nat : x + (y + 1) = (x + y) + 1
        OBVIOUS
      <4> QED  BY <3>1, <3>2, <4>2, <4>3, <4>4, Zenon
    <3>4. CASE ~(type = "out" /\ d = c)
      <4>1. ~IsOut(f, d)
        BY <1>4, <3>4 DEF IsOut
      <4>2. written'[d] = written[d]
        BY <1>1, <3>2, <3>4 DEF CallTypes
      <4> QED  BY <2>1, <3>1, <3>2, <4>1, <4>2
    <3> QED  BY <3>3, <3>4
  <2> QED  BY <2>2, <2>3 DEF Accounted, activeProcesses
<1>12. Reported(client)'
  <2> SUFFICES ASSUME NEW d \in Execs \ denied', client.result[d] = "exit"
               PROVE  /\ client.outs[d] = written'[d]
                      /\ d \notin running' /\ Req(d) \notin transit'
    BY DEF Reported
  <2>1. client.outs[d] = written[d] /\ d \notin running /\ Req(d) \notin transit
    BY <1>1 DEF Reported
  <2>2. written'[d] = written[d]
    BY <1>1, <2>1 DEF CallTypes
  <2> QED  BY <2>1, <2>2
<1>13. Heard(client, 0)'
  <2> SUFFICES ASSUME NEW d \in Execs \ (overtaken' \cup denied'),
                      d \in running' \/ Req(d) \in transit'
               PROVE  /\ d \in client.streamHandlers
                      /\ \A i \in 0 + 1..Len(flight') :
                           flight'[i].id = d => flight'[i].type \notin {"exit", "error"}
    BY DEF Heard
  <2>1. /\ d \in client.streamHandlers
        /\ \A i \in 0 + 1..Len(flight) :
             flight[i].id = d => flight[i].type \notin {"exit", "error"}
    BY <1>1 DEF Heard
  <2>2. d = c => type \notin {"exit", "error"}
    <3>1. d = c /\ type = "exit" => Req(c) \notin transit'
      BY <1>7
    <3> QED  BY <3>1 DEF activeProcesses
  <2> QED  BY <1>3, <1>4, <2>1, <2>2
<1> QED  BY <1>1, <1>2, <1>6, <1>8, <1>9, <1>10, <1>11, <1>12, <1>13 DEF IInv, Told


\* An exec request starts a process, which the client hears from the first.
LEMMA StartStep ==
  ASSUME IInv, NEW c \in Execs, Req(c) \in transit, transit' = transit \ {Req(c)},
         held' = [held EXCEPT ![c] = conn], running' = running \cup {c},
         UNCHANGED <<wire, flight, buffer, emitted, working, denied, written, overtaken>>,
         UNCHANGED <<source, stream, conn, issued, awaiting, client>>
  PROVE  IInv'
<1>1. /\ CallTypes /\ WireSpells /\ Unserved /\ ExitsLast
      /\ client \in ClientState /\ Untold(client) /\ Settled(client)
      /\ Accounted(client, 0) /\ Reported(client) /\ Heard(client, 0)
  BY DEF IInv, Told
<1>2. Execs \subseteq Calls /\ client.streamHandlers \subseteq Execs
  BY <1>1 DEF Calls, ClientState
<1>3. /\ written[c] = 0 /\ c \notin running /\ client.outs[c] = 0
      /\ \A i \in 1..Len(flight) :
           flight[i].id = c => flight[i].type \notin {"out", "exit"}
      /\ Len(flight) \in Nat /\ Req(c) \in issued
  <2>1. Len(flight) \in Nat /\ transit \subseteq issued
    BY <1>1, LenProperties DEF CallTypes
  <2> QED  BY <1>1, <2>1 DEF Unserved, Untold
<1>4. /\ held \in [Calls -> 0..conn] /\ conn \in 0..conn
      /\ held' \in [Calls -> 0..conn]
      /\ \A d \in Execs \ {c} : held'[d] = held[d]
  <2>1. held \in [Calls -> 0..conn] /\ conn \in 0..conn
    BY <1>1 DEF CallTypes
  <2> QED  BY <1>2, <2>1
<1>5. \A d \in Calls : /\ Req(d) \in transit' => Req(d) \in transit
                       /\ d # c /\ Req(d) \in transit => Req(d) \in transit'
  BY RequestFacts
<1>6. CallTypes'
  BY <1>1, <1>4 DEF CallTypes
<1>7. WireSpells'
  BY <1>1 DEF WireSpells
<1>8. Unserved'
  BY <1>1, <1>2, <1>3, <1>5 DEF Unserved
<1>9. ExitsLast'
  BY <1>1, <1>3 DEF ExitsLast, activeProcesses
<1>10. Untold(client)' /\ Settled(client)'
  BY <1>1, <1>2, <1>5 DEF Untold, Settled
<1>11. Accounted(client, 0)'
  <2>1. OutsIn(flight, c, 0, Len(flight)) = 0
    <3>1. OutsOf(flight, c, 0, Len(flight)) = {}
      BY <1>3 DEF OutsOf, IsOut
    <3> QED  BY <3>1, FS_EmptySet DEF OutsIn
  <2>2. ASSUME NEW d \in client.streamHandlers \cap activeProcesses', held'[d] = conn,
               stream = "open"
        PROVE  client.outs[d] + OutsIn(flight, d, 0, Len(flight)) = written[d]
    <3>1. CASE d = c
      BY <1>3, <2>1, <3>1
    <3>2. CASE d # c
      BY <1>1, <1>2, <1>4, <2>2, <3>2 DEF Accounted, activeProcesses
    <3> QED  BY <3>1, <3>2
  <2> QED  BY <1>1, <2>2 DEF Accounted, activeProcesses
<1>12. Reported(client)'
  BY <1>1, <1>2, <1>5 DEF Reported
<1>13. Heard(client, 0)'
  BY <1>1, <1>2, <1>5 DEF Heard
<1> QED  BY <1>1, <1>6, <1>7, <1>8, <1>9, <1>10, <1>11, <1>12, <1>13 DEF IInv, Told

\* The server's steps on one call.
LEMMA ServerStep ==
  ASSUME IInv, \/ \E c \in Execs : ServeExec(c) \/ ServeKill(c) \/ Output(c) \/ Exit(c)
               \/ \E c \in OneShots : Reply(c)
  PROVE  IInv'
<1>1. /\ Execs \subseteq Calls /\ OneShots \subseteq Calls
      /\ Execs \cap OneShots = {}
  BY CallsAssumption DEF Calls
<1>2. /\ transit \subseteq issued /\ working \subseteq OneShots
      /\ running \subseteq Execs /\ denied \subseteq Execs /\ overtaken \subseteq Execs
      /\ held \in [Calls -> 0..conn] /\ conn \in 0..conn
      /\ written \in [Execs -> Nat]
  BY DEF IInv, CallTypes
<1>3. /\ Unserved /\ Heard(client, 0)
  BY DEF IInv, Told
<1>4. ASSUME NEW c \in Execs, ServeExec(c)
      PROVE  IInv'
  <2>1. /\ Req(c) \in transit /\ transit' = transit \ {Req(c)}
        /\ held' = [held EXCEPT ![c] = conn]
        /\ UNCHANGED <<source, stream, conn, buffer, emitted, working, denied, written,
                       overtaken, issued, awaiting, client>>
    BY <1>4 DEF ServeExec, wireVars, callVars
  <2>2. CASE running' = running \cup {c} /\ UNCHANGED <<wire, flight>>
    BY <2>1, <2>2, StartStep
  <2>3. CASE SendTo(conn, c, "error") /\ UNCHANGED running
    <3>1. c \notin running /\ c \notin activeProcesses' /\ Req(c) \in issued
      BY <1>2, <1>3, <2>1, <2>3 DEF Unserved, activeProcesses
    <3>2. /\ held' \in [Calls -> 0..conn] /\ \A d \in running : held'[d] = held[d]
      BY <1>1, <1>2, <2>1, <3>1
    <3>3. \A d \in Execs : written'[d] = written[d] + 0
      BY <1>2, <2>1
    <3> QED  BY <1>1, <1>2, <2>1, <2>3, <3>1, <3>2, <3>3, SendStep
  <2> QED  BY <1>4, <2>2, <2>3 DEF ServeExec
<1>5. ASSUME NEW c \in Execs, ServeKill(c)
      PROVE  IInv'
  <2>1. /\ Kill(c) \in transit /\ transit' = transit \ {Kill(c)}
        /\ overtaken' = IF Req(c) \in transit THEN overtaken \cup {c} ELSE overtaken
        /\ UNCHANGED <<source, stream, conn, buffer, emitted, working, running, held,
                       written, issued, awaiting, client>>
    BY <1>5 DEF ServeKill, wireVars, callVars
  <2>2. \A d \in Calls : Req(d) \in transit' <=> Req(d) \in transit
    BY <2>1, RequestFacts
  <2>3. Req(c) \in issued
    BY <1>2, <1>3, <2>1 DEF Unserved
  <2>4. CASE c \in activeProcesses /\ UNCHANGED <<wire, flight, denied>>
    <3>1. /\ CallTypes /\ WireSpells /\ ExitsLast /\ client \in ClientState
          /\ Untold(client) /\ Settled(client) /\ Accounted(client, 0) /\ Reported(client)
      BY DEF IInv, Told
    <3>2. Req(c) \notin transit
      BY <1>3, <2>4 DEF Unserved, activeProcesses
    <3>3. overtaken' = overtaken
      BY <2>1, <3>2
    <3>4. CallTypes'
      BY <2>1, <2>4, <3>1, <3>3 DEF CallTypes
    <3>5. WireSpells' /\ Unserved' /\ ExitsLast'
      BY <1>1, <1>3, <2>1, <2>2, <2>4, <3>1
         DEF WireSpells, Unserved, ExitsLast, activeProcesses
    <3>6. Untold(client)' /\ Settled(client)' /\ Reported(client)'
      BY <1>1, <2>1, <2>2, <2>4, <3>1 DEF Untold, Settled, Reported
    <3>7. Accounted(client, 0)'
      BY <2>1, <2>4, <3>1 DEF Accounted, activeProcesses
    <3>8. Heard(client, 0)'
      BY <1>1, <1>3, <2>1, <2>2, <2>4, <3>3 DEF Heard
    <3> QED  BY <2>1, <3>1, <3>4, <3>5, <3>6, <3>7, <3>8 DEF IInv, Told
  <2>5. CASE /\ c \notin activeProcesses /\ SendTo(conn, c, "error")
             /\ UNCHANGED denied
    <3>1. (c \notin activeProcesses' /\ Req(c) \notin transit') \/ c \in overtaken'
      BY <1>1, <2>1, <2>2, <2>5 DEF activeProcesses
    <3>2. /\ overtaken \subseteq overtaken' /\ overtaken' \subseteq Execs
          /\ transit' \subseteq transit
      BY <1>2, <2>1
    <3>3. \A d \in Execs : written'[d] = written[d] + 0
      BY <1>2, <2>1
    <3> QED  BY <1>1, <1>2, <2>1, <2>3, <2>5, <3>1, <3>2, <3>3, SendStep
  <2>6. CASE /\ c \in activeProcesses /\ SendTo(held[c], c, "exit")
             /\ denied' = denied \cup {c}
    <3>1. c \in running /\ c \notin activeProcesses' /\ Req(c) \notin transit
      BY <1>3, <2>6 DEF Unserved, activeProcesses
    <3>2. /\ overtaken' = overtaken /\ transit' \subseteq transit
          /\ denied \subseteq denied' /\ denied' \subseteq Execs
      BY <1>2, <2>1, <2>6, <3>1
    <3>3. \A d \in Execs : written'[d] = written[d] + 0
      BY <1>2, <2>1
    <3> QED  BY <1>1, <1>2, <2>1, <2>3, <2>6, <3>1, <3>2, <3>3, SendStep
  <2> QED  BY <1>5, <2>4, <2>5, <2>6 DEF ServeKill
<1>6. ASSUME NEW c \in Execs, Output(c)
      PROVE  IInv'
  <2>1. /\ c \in running /\ written' = [written EXCEPT ![c] = @ + 1]
        /\ SendTo(held[c], c, "out")
        /\ UNCHANGED <<source, stream, conn, buffer, emitted, transit, working, running,
                       denied, held, overtaken, issued, awaiting, client>>
    BY <1>6 DEF Output, wireVars, callVars
  <2>2. Req(c) \in issued
    BY <1>3, <2>1 DEF Unserved
  <2>3. \A d \in Execs : written'[d] = written[d] + IF d = c THEN 1 ELSE 0
    BY <1>2, <2>1
  <2>4. written' \in [Execs -> Nat]
    BY <1>2, <2>1
  <2> QED  BY <1>1, <1>2, <2>1, <2>2, <2>3, <2>4, SendStep
<1>7. ASSUME NEW c \in Execs, Exit(c)
      PROVE  IInv'
  <2>1. /\ c \in running /\ running' = running \ {c}
        /\ SendTo(held[c], c, "exit")
        /\ UNCHANGED <<source, stream, conn, buffer, emitted, transit, working, denied, held,
                       written, overtaken, issued, awaiting, client>>
    BY <1>7 DEF Exit, wireVars, callVars
  <2>2. Req(c) \in issued /\ c \notin activeProcesses'
    BY <1>3, <2>1 DEF Unserved, activeProcesses
  <2>3. \A d \in Execs : written'[d] = written[d] + 0
    BY <1>2, <2>1
  <2> QED  BY <1>1, <1>2, <2>1, <2>2, <2>3, SendStep
<1>8. ASSUME NEW c \in OneShots, Reply(c)
      PROVE  IInv'
  <2>1. PICK d \in {c, NoCall}, type \in {"res", "error"} :
          /\ SendTo(held[c], d, type)
          /\ type = "res" => d = c
    BY <1>8 DEF Reply, SendGarbled
  <2>2. /\ c \in working /\ working' = working \ {c}
        /\ UNCHANGED <<source, stream, conn, buffer, emitted, transit, running, denied, held,
                       written, overtaken, issued, awaiting, client>>
    BY <1>8 DEF Reply, wireVars, callVars
  <2>3. \A x \in Execs : written'[x] = written[x] + 0
    BY <1>2, <2>2
  <2>4. d \notin Execs /\ d \in Calls \cup {NoCall}
    BY <1>1, CallsAssumption
  <2> QED  BY <1>1, <1>2, <2>1, <2>2, <2>3, <2>4, SendStep
<1> QED  BY <1>4, <1>5, <1>6, <1>7, <1>8


-----------------------------------------------------------------------------
(* The invariant is inductive: what the client reads.                      *)

\* A turn of the read loop takes some frames off the head of the flight,
\* dispatches them and leaves the others spelt.
LEMMA ReadFacts ==
  ASSUME CallTypes, WireSpells, _readStream
  PROVE  \E q \in 0..Len(flight) :
           /\ emitted' = emitted \o SubSeq(flight, 1, q)
           /\ flight' = SubSeq(flight, q + 1, Len(flight))
           /\ client' = DispatchAll(SubSeq(flight, 1, q))
           /\ WireSpells'
<1>1. PICK n \in 1..Len(wire) :
        \E text \in {Read(buffer \o SubSeq(wire, 1, n))} :
        /\ wire' = SubSeq(wire, n + 1, Len(wire))
        /\ buffer' = text.rest
        /\ emitted' = emitted \o text.frames
        /\ flight' = SubSeq(flight, Len(text.frames) + 1, Len(flight))
        /\ client' = DispatchAll(text.frames)
  BY DEF _readStream
<1>2. /\ stream = "open" /\ stream' = "open"
      /\ flight \in Seq(Frame) /\ buffer \in Seq(Token) /\ wire \in Seq(Token)
      /\ Spells(buffer \o wire, flight)
  BY DEF _readStream, wireVars, CallTypes, WireSpells
<1> DEFINE text == Read(buffer \o SubSeq(wire, 1, n))
           left == SubSeq(wire, n + 1, Len(wire))
<1>3. PICK q \in 0..Len(flight) :
        /\ text.frames = SubSeq(flight, 1, q)
        /\ text.rest \in Seq(Token) /\ left \in Seq(Token)
        /\ Spells(text.rest \o left, SubSeq(flight, q + 1, Len(flight)))
  BY <1>2, ReadStep, Zenon
<1>4. /\ wire' = left /\ buffer' = text.rest
      /\ emitted' = emitted \o text.frames
      /\ flight' = SubSeq(flight, Len(text.frames) + 1, Len(flight))
      /\ client' = DispatchAll(text.frames)
  BY <1>1
<1> HIDE DEF text, left
<1>5. Len(flight) \in Nat
  BY <1>2, LenProperties
<1>6. Len(SubSeq(flight, 1, q)) = q
  <2>1. \A i \in 1..q : flight[i] \in Frame
    BY <1>2, <1>5, ElementOfSeq
  <2>2. 1 \in Int /\ q \in Int /\ q \in Nat
    BY <1>5
  <2>3. Len(SubSeq(flight, 1, q)) = IF 1 <= q THEN q - 1 + 1 ELSE 0
    BY <2>1, <2>2, SubSeqProperties
  <2> QED  BY <2>2, <2>3
<1>7. flight' = SubSeq(flight, q + 1, Len(flight))
  BY <1>3, <1>4, <1>6, Zenon
<1>8. WireSpells'
  <2>1. buffer' \in Seq(Token) /\ wire' \in Seq(Token)
    BY <1>3, <1>4, Zenon
  <2>2. Spells(buffer' \o wire', flight')
    BY <1>3, <1>4, <1>7, Zenon
  <2> QED  BY <1>2, <2>1, <2>2 DEF WireSpells
<1>9. /\ emitted' = emitted \o SubSeq(flight, 1, q)
      /\ client' = DispatchAll(SubSeq(flight, 1, q))
  BY <1>3, <1>4, Zenon
<1> QED  BY <1>7, <1>8, <1>9

\* What is left of the flight, frame by frame.
LEMMA FlightLeft ==
  ASSUME CallTypes, NEW q \in 0..Len(flight),
         flight' = SubSeq(flight, q + 1, Len(flight))
  PROVE  /\ flight' \in Seq(Frame) /\ SubSeq(flight, 1, q) \in Seq(Frame)
         /\ Len(flight) \in Nat /\ Len(flight') = Len(flight) - q
         /\ \A i \in 1..Len(flight') : flight'[i] = flight[q + i]
<1>1. Len(flight) \in Nat /\ flight \in Seq(Frame)
  BY LenProperties DEF CallTypes
<1>2. \A i \in 1..Len(flight) : flight[i] \in Frame
  BY <1>1, ElementOfSeq
<1>3. SubSeq(flight, 1, q) \in Seq(Frame)
  <2>1. \A i \in 1..q : flight[i] \in Frame
    BY <1>1, <1>2
  <2>2. 1 \in Int /\ q \in Int
    BY <1>1
  <2> QED  BY <2>1, <2>2, SubSeqProperties
<1> DEFINE others == SubSeq(flight, q + 1, Len(flight))
<1>4. /\ others \in Seq(Frame)
      /\ Len(others) = IF q + 1 <= Len(flight) THEN Len(flight) - (q + 1) + 1 ELSE 0
      /\ \A i \in 1..Len(flight) - (q + 1) + 1 : others[i] = flight[q + 1 + i - 1]
  <2>1. \A i \in q + 1..Len(flight) : flight[i] \in Frame
    BY <1>1, <1>2
  <2>2. q + 1 \in Int /\ Len(flight) \in Int
    BY <1>1
  <2> QED  BY <2>1, <2>2, SubSeqProperties
<1>5. flight' = others
  OBVIOUS
<1> HIDE DEF others
<1>6. Len(others) = Len(flight) - q
  <2>1. CASE q + 1 <= Len(flight)
    BY <1>1, <1>4, <2>1
  <2>2. CASE q = Len(flight)
    <3>1. ~(q + 1 <= Len(flight)) /\ Len(flight) - q = 0
      BY <1>1, <2>2
    <3> QED  BY <1>4, <3>1
  <2> QED  BY <1>1, <2>1, <2>2
<1>7. ASSUME NEW i \in 1..Len(others)
      PROVE  others[i] = flight[q + i]
  <2>1. i \in 1..Len(flight) - (q + 1) + 1 /\ q + 1 + i - 1 = q + i
    BY <1>1, <1>6
  <2> QED  BY <1>4, <2>1
<1> QED  BY <1>1, <1>3, <1>4, <1>5, <1>6, <1>7

\* So what was known before the read, and of every frame read, is known after.
LEMMA ReadLoopStep ==
  ASSUME IInv, _readStream
  PROVE  IInv' /\ Stands(client, client')
<1>1. /\ CallTypes /\ WireSpells /\ Unserved /\ ExitsLast /\ Told(client, 0)
  BY DEF IInv
<1>2. PICK q \in 0..Len(flight) :
        /\ emitted' = emitted \o SubSeq(flight, 1, q)
        /\ flight' = SubSeq(flight, q + 1, Len(flight))
        /\ client' = DispatchAll(SubSeq(flight, 1, q))
        /\ WireSpells'
  BY <1>1, ReadFacts
<1>3. /\ flight' \in Seq(Frame) /\ SubSeq(flight, 1, q) \in Seq(Frame)
      /\ Len(flight) \in Nat /\ Len(flight') = Len(flight) - q
      /\ \A i \in 1..Len(flight') : flight'[i] = flight[q + i]
  BY <1>1, <1>2, FlightLeft
<1>4. Told(client', q) /\ Stands(client, client')
  <2>1. Told(DispatchAll(SubSeq(flight, 1, q)), q)
        /\ Stands(client, DispatchAll(SubSeq(flight, 1, q)))
    BY <1>1, AllDispatched, Zenon
  <2> QED  BY <1>2, <2>1, Zenon
<1>5. /\ UNCHANGED <<source, conn, closed, disconnected, stream>>
      /\ UNCHANGED <<transit, verdict, working, running, denied, held, written, overtaken>>
      /\ UNCHANGED <<issued, awaiting>>
  BY DEF _readStream, wireVars, serverVars
<1>6. emitted' \in Seq(Frame)
  <2>1. emitted \in Seq(Frame)
    BY <1>1 DEF CallTypes
  <2>2. emitted \o SubSeq(flight, 1, q) \in Seq(Frame)
    BY <1>3, <2>1, ConcatProperties, Zenon
  <2> QED  BY <1>2, <2>2, Zenon
<1>7. CallTypes'
  BY <1>1, <1>3, <1>4, <1>5, <1>6 DEF CallTypes, Told
<1>8. \A i \in 1..Len(flight') : q + i \in 1..Len(flight) /\ q + i \in q + 1..Len(flight)
  BY <1>3
<1>9. Unserved' /\ ExitsLast'
  <2>1. Unserved'
    BY <1>1, <1>3, <1>5, <1>8 DEF Unserved
  <2>2. ExitsLast'
    BY <1>1, <1>3, <1>5, <1>8 DEF ExitsLast, activeProcesses
  <2> QED  BY <2>1, <2>2
<1>10. /\ client' \in ClientState /\ Untold(client') /\ Settled(client')
       /\ Accounted(client', q) /\ Reported(client') /\ Heard(client', q)
  BY <1>4 DEF Told
<1>11. Untold(client)' /\ Settled(client)' /\ Reported(client)'
  BY <1>5, <1>10 DEF Untold, Settled, Reported
<1>12. ASSUME NEW c, NEW j \in 0..Len(flight')
       PROVE  OutsIn(flight', c, 0, j) = OutsIn(flight, c, q, q + j)
  <2>1. \A k \in 1..j : flight'[k] = flight[q + k]
    BY <1>3
  <2>2. q \in Nat /\ j \in Nat
    BY <1>3
  <2> QED  BY <2>1, <2>2, CountShift
<1>13. Accounted(client, 0)'
  <2>1. ASSUME NEW i \in 0 + 1..Len(flight'),
               flight'[i].id \in client'.streamHandlers \ denied,
               flight'[i].type = "exit"
        PROVE  client'.outs[flight'[i].id] + OutsIn(flight', flight'[i].id, 0, i - 1)
                 = written[flight'[i].id]
    <3> DEFINE c == flight'[i].id
    <3>1. flight'[i] = flight[q + i] /\ q + i \in q + 1..Len(flight)
      BY <1>3, <1>8
    <3>2. client'.outs[c] + OutsIn(flight, c, q, q + i - 1) = written[c]
      <4> DEFINE j == q + i
      <4>1. j \in q + 1..Len(flight) /\ c = flight[j].id /\ flight[j].type = "exit"
        BY <2>1, <3>1
      <4> HIDE DEF j
      <4>2. client'.outs[c] + OutsIn(flight, c, q, j - 1) = written[c]
        BY <1>10, <2>1, <4>1 DEF Accounted, activeProcesses
      <4> QED  BY <4>2 DEF j
    <3>3. i - 1 \in 0..Len(flight') /\ q + (i - 1) = q + i - 1
      BY <1>3
    <3>4. OutsIn(flight', c, 0, i - 1) = OutsIn(flight, c, q, q + i - 1)
      BY <1>12, <3>3
    <3> QED  BY <3>2, <3>4
  <2>2. ASSUME NEW c \in client'.streamHandlers \cap activeProcesses, held[c] = conn,
               stream = "open"
        PROVE  client'.outs[c] + OutsIn(flight', c, 0, Len(flight')) = written[c]
    <3>1. client'.outs[c] + OutsIn(flight, c, q, Len(flight)) = written[c]
      BY <1>10, <2>2 DEF Accounted, activeProcesses
    <3>2. Len(flight') \in 0..Len(flight') /\ q + Len(flight') = Len(flight)
      BY <1>3
    <3>3. OutsIn(flight', c, 0, Len(flight')) = OutsIn(flight, c, q, Len(flight))
      BY <1>12, <3>2
    <3> QED  BY <3>1, <3>3
  <2> QED  BY <1>5, <2>1, <2>2 DEF Accounted, activeProcesses
<1>14. Heard(client, 0)'
  <2> SUFFICES ASSUME NEW c \in Execs \ (overtaken \cup denied),
                      c \in running \/ Req(c) \in transit
               PROVE  /\ c \in client'.streamHandlers
                      /\ \A i \in 0 + 1..Len(flight') :
                           flight'[i].id = c => flight'[i].type \notin {"exit", "error"}
    BY <1>5 DEF Heard
  <2>1. /\ c \in client'.streamHandlers
        /\ \A i \in q + 1..Len(flight) :
             flight[i].id = c => flight[i].type \notin {"exit", "error"}
    BY <1>10 DEF Heard
  <2> QED  BY <1>3, <1>8, <2>1
<1>15. Told(client, 0)'
  BY <1>10, <1>11, <1>13, <1>14 DEF Told
<1> QED  BY <1>2, <1>4, <1>7, <1>9, <1>15 DEF IInv

-----------------------------------------------------------------------------
(* The theorems.                                                           *)

\* Every step keeps the invariant.
LEMMA NextIInv ==
  ASSUME IInv, [Next]_vars
  PROVE  IInv'
<1>1. CASE close \/ Lose \/ StreamEnds \/ EventSourceError
  BY <1>1, StreamStep
<1>2. CASE _readStream
  BY <1>2, ReadLoopStep
<1>3. ASSUME NEW c \in Execs, exec(c) \/ _sendKill(c) \/ ServeExec(c) \/ ServeKill(c)
                              \/ Output(c) \/ Exit(c)
      PROVE  IInv'
  BY <1>3, CallStep, KillRefuseServe, ServerStep
<1>4. ASSUME NEW c \in OneShots, sendAndWait(c) \/ ServeCall(c) \/ Reply(c)
      PROVE  IInv'
  BY <1>4, CallStep, KillRefuseServe, ServerStep
<1>5. ASSUME NEW r \in Requests, Answer(r) \/ NoAnswer(r) \/ Refuse(r)
      PROVE  IInv'
  BY <1>5, AnswerStep, KillRefuseServe
<1>6. CASE UNCHANGED vars
  <2>1. /\ UNCHANGED <<source, conn, closed, disconnected, stream>>
        /\ UNCHANGED <<wire, buffer, flight, emitted, issued, awaiting, client>>
        /\ UNCHANGED <<transit, verdict, working, running, denied, held, written, overtaken>>
    BY <1>6 DEF vars, wireVars, readVars, serverVars, callVars
  <2> QED  BY <2>1 DEF IInv, CallTypes, WireSpells, Unserved, ExitsLast, Told, Untold,
                       Settled, Accounted, Reported, Heard, activeProcesses
<1> QED  BY <1>1, <1>2, <1>3, <1>4, <1>5, <1>6 DEF Next

\* The invariant holds throughout.
THEOREM Inductive == Spec => []IInv
<1>1. Init => IInv
  BY InitIInv
<1>2. IInv /\ [Next]_vars => IInv'
  BY NextIInv
<1> QED  BY <1>1, <1>2, PTL DEF Spec

\* A handle that reports an exit has been given everything its process wrote, and
\* the process is gone, for any calls, kills, chunks, lost streams and output: all
\* but the handles of processes that were killed without permission to signal them.
THEOREM ExitsComplete == Spec => []ExitIsComplete
<1>1. IInv => ExitIsComplete
  BY DEF IInv, Told, Reported, ExitIsComplete
<1> QED  BY <1>1, Inductive, PTL

\* A process that nobody listens to was overtaken by its kill, or is one that the
\* server may not signal and was told to kill.
THEOREM ListensToAll == Spec => []OnlyOvertakenOrphans
<1>1. IInv => OnlyOvertakenOrphans
  BY DEF IInv, CallTypes, Told, Heard, OnlyOvertakenOrphans
<1> QED  BY <1>1, Inductive, PTL

\* The calls that are not on the stream settle no call twice.
LEMMA OtherStands ==
  ASSUME IInv, [Next]_vars, ~_readStream
  PROVE  \A c \in Calls : LET was == client.result[c] IN
           \/ client'.result[c] = was
           \/ was = "none"
           \/ c \in Execs /\ (client'.result[c] = "send" \/ was = "send")
<1> SUFFICES ASSUME NEW c \in Calls, client'.result[c] # client.result[c]
             PROVE  \/ client.result[c] = "none"
                    \/ c \in Execs /\ client'.result[c] = "send"
  OBVIOUS
<1>1. /\ client \in ClientState
      /\ client.result \in [Calls -> FrameTypes \cup {"none", "send"}]
  BY DEF IInv, Told, ClientState
<1>2. client' # client
  OBVIOUS
<1>3. PICK r \in Requests : Answer(r) \/ NoAnswer(r)
  <2>1. ~(close \/ Lose \/ StreamEnds \/ EventSourceError) /\ ~(UNCHANGED vars)
    BY <1>2 DEF close, Lose, StreamEnds, EventSourceError, callVars, vars
  <2>2. \A d \in Execs : ~(_sendKill(d) \/ ServeExec(d) \/ ServeKill(d) \/ Output(d)
                            \/ Exit(d))
    BY <1>2 DEF _sendKill, ServeExec, ServeKill, Output, Exit, callVars
  <2>3. \A d \in OneShots : ~(ServeCall(d) \/ Reply(d))
    BY <1>2 DEF ServeCall, Reply, callVars
  <2>4. \A r \in Requests : ~Refuse(r)
    BY <1>2 DEF Refuse, callVars
  <2>5. \A d \in Execs : ~exec(d)
    BY <1>1 DEF exec, ClientState
  <2>6. \A d \in OneShots : ~sendAndWait(d)
    BY <1>1 DEF sendAndWait, ClientState
  <2> QED  BY <2>1, <2>2, <2>3, <2>4, <2>5, <2>6 DEF Next
<1>4. CASE r[1] \in Execs /\ client' = [client EXCEPT !.result[r[1]] = "send"]
  BY <1>1, <1>4
<1>5. CASE client' = [client EXCEPT !.pendingFrames = @ \ {r[1]},
                                    !.result[r[1]] = IF @ = "none" THEN "send" ELSE @]
  BY <1>1, <1>5
<1> QED  BY <1>2, <1>3, <1>4, <1>5 DEF Answer, NoAnswer, SendFails

\* A settled call keeps its answer, whatever comes in later.
THEOREM SettlesOnce == Spec => SettledOnce
<1>1. IInv /\ [Next]_vars =>
        [\A c \in Calls : LET was == client.result[c] IN
           \/ client'.result[c] = was
           \/ was = "none"
           \/ c \in Execs /\ (client'.result[c] = "send" \/ was = "send")]_vars
  <2> SUFFICES ASSUME IInv, [Next]_vars
               PROVE  \A c \in Calls : LET was == client.result[c] IN
                        \/ client'.result[c] = was
                        \/ was = "none"
                        \/ c \in Execs /\ (client'.result[c] = "send" \/ was = "send")
    OBVIOUS
  <2>1. CASE _readStream
    <3>1. Stands(client, client')
      BY <2>1, ReadLoopStep
    <3> QED  BY <3>1 DEF Stands
  <2>2. CASE ~_readStream
    BY <2>2, OtherStands
  <2> QED  BY <2>1, <2>2
<1> QED  BY <1>1, Inductive, PTL DEF Spec, SettledOnce


-----------------------------------------------------------------------------
(* The stream implements FrameChannel.                                     *)

\* A send puts one frame in the channel, or none.
LEMMA SendRefines ==
  ASSUME CallTypes, NEW k, NEW c \in Calls \cup {NoCall}, NEW type \in FrameTypes,
         SendTo(k, c, type), emitted' = emitted
  PROVE  Channel!Send \/ UNCHANGED <<flight, emitted>>
<1> DEFINE f == [id |-> c, type |-> type]
<1>1. f \in Frame
  BY DEF Frame, FrameTypes
<1>2. flight' = Append(flight, f) \/ flight' = flight
  BY DEF SendTo
<1> HIDE DEF f
<1> QED  BY <1>1, <1>2 DEF Channel!Send

\* A turn of the read loop delivers some frames, or none.
LEMMA ReadRefines ==
  ASSUME IInv, _readStream
  PROVE  Channel!Deliver \/ UNCHANGED <<flight, emitted>>
<1>1. CallTypes /\ WireSpells
  BY DEF IInv
<1>2. PICK q \in 0..Len(flight) :
        /\ emitted' = emitted \o SubSeq(flight, 1, q)
        /\ flight' = SubSeq(flight, q + 1, Len(flight))
  BY <1>1, ReadFacts
<1>3. flight \in Seq(Frame) /\ emitted \in Seq(Frame) /\ Len(flight) \in Nat
  BY <1>1, LenProperties DEF CallTypes
<1>4. CASE q = 0
  <2>1. SubSeq(flight, 1, 0) = <<>>
    BY SubSeqEmpty
  <2>2. emitted \o <<>> = emitted
    BY <1>3, ConcatEmptySeq
  <2>3. emitted' = emitted
    BY <1>2, <1>4, <2>1, <2>2
  <2>4. SubSeq(flight, 1, Len(flight)) = flight
    BY <1>3, SubSeqFull
  <2>5. 0 + 1 = 1
    OBVIOUS
  <2>6. flight' = flight
    BY <1>2, <1>4, <2>4, <2>5
  <2> QED  BY <2>3, <2>6
<1>5. CASE q # 0
  <2>1. q \in 1..Len(flight)
    BY <1>3, <1>5
  <2> QED  BY <1>2, <2>1 DEF Channel!Deliver
<1> QED  BY <1>4, <1>5

\* The channel is cut when the stream is.
LEMMA CutRefines ==
  ASSUME IInv, close \/ Lose \/ StreamEnds \/ EventSourceError
  PROVE  Channel!Cut \/ UNCHANGED <<flight, emitted>>
<1>1. emitted' = emitted /\ flight' \in {flight, <<>>, <<Greeting>>}
  BY DEF close, Lose, StreamEnds, EventSourceError
<1>2. Greeting \in Frame
  BY DEF Greeting, Frame
<1> QED  BY <1>1, <1>2 DEF Channel!Cut

\* The server's other steps, and the client's, leave the channel alone.
LEMMA StepRefines ==
  ASSUME IInv, [Next]_vars
  PROVE  [Channel!Next]_<<flight, emitted>>
<1>1. CallTypes
  BY DEF IInv
<1>2. CASE close \/ Lose \/ StreamEnds \/ EventSourceError
  BY <1>2, CutRefines DEF Channel!Next
<1>3. CASE _readStream
  BY <1>3, ReadRefines DEF Channel!Next
<1>4. ASSUME NEW c \in Execs, ServeExec(c) \/ ServeKill(c) \/ Output(c) \/ Exit(c)
      PROVE  Channel!Send \/ UNCHANGED <<flight, emitted>>
  <2>1. \/ UNCHANGED flight
        \/ \E k, type : type \in FrameTypes /\ SendTo(k, c, type)
    BY <1>4 DEF ServeExec, ServeKill, Output, Exit, FrameTypes
  <2>2. emitted' = emitted /\ c \in Calls
    BY <1>4 DEF ServeExec, ServeKill, Output, Exit, Calls
  <2> QED  BY <1>1, <2>1, <2>2, SendRefines
<1>5. ASSUME NEW c \in OneShots, Reply(c)
      PROVE  Channel!Send \/ UNCHANGED <<flight, emitted>>
  <2>1. PICK d \in {c, NoCall}, type \in FrameTypes : SendTo(held[c], d, type)
    BY <1>5 DEF Reply, SendGarbled, FrameTypes
  <2>2. emitted' = emitted /\ d \in Calls \cup {NoCall}
    BY <1>5 DEF Reply, Calls
  <2> QED  BY <1>1, <2>1, <2>2, SendRefines
<1>6. ASSUME NEW c, exec(c) \/ _sendKill(c) \/ sendAndWait(c) \/ ServeCall(c)
      PROVE  UNCHANGED <<flight, emitted>>
  BY <1>6 DEF exec, _sendKill, sendAndWait, ServeCall, readVars
<1>7. ASSUME NEW r, Answer(r) \/ NoAnswer(r) \/ Refuse(r)
      PROVE  UNCHANGED <<flight, emitted>>
  BY <1>7 DEF Answer, NoAnswer, Refuse, readVars
<1>8. CASE UNCHANGED vars
  BY <1>8 DEF vars, readVars
<1> QED  BY <1>2, <1>3, <1>4, <1>5, <1>6, <1>7, <1>8 DEF Next, Channel!Next

\* However the stream is cut into chunks and wherever it breaks, its frames are
\* dispatched whole, once and in order.
THEOREM WireRefines == Spec => WireFaithful
<1>1. Init => Channel!Init
  BY DEF Init, Channel!Init
<1>2. IInv /\ [Next]_vars => [Channel!Next]_<<flight, emitted>>
  BY StepRefines
<1> QED  BY <1>1, <1>2, Inductive, PTL DEF Spec, WireFaithful, Channel!Spec

=============================================================================
