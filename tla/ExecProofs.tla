----------------------------- MODULE ExecProofs -----------------------------
(***************************************************************************)
(* Proofs about ExecService and HttpExec, for any number of execs, polls,  *)
(* chunks and kills, and any output.  The inductive invariant of the       *)
(* service says, for each stage of a child process, whether it is active,  *)
(* what its request's copy counts and whether it can still hold its pipes. *)
(* Every step of HttpExec is a step of the service or leaves it alone, so  *)
(* that invariant carries over; what is added ties the polls under way,    *)
(* the cursor and the chunks received to the output, and says why a buffer *)
(* is marked done.                                                         *)
(***************************************************************************)
EXTENDS HttpExec, FiniteSetTheorems, TLAPS

-----------------------------------------------------------------------------
(* The exec service.                                                       *)

\* A request that started no process has left no trace but its count.
NotStarted ==
  \A e \in Execs :
    /\ outcome[e] # "started" =>
         child[e] = "none" /\ e \notin pipes /\ log[e] = <<>>
    /\ outcome[e] = "started" => child[e] # "none"
    /\ outcome[e] = "none" => copy[e] = 0

\* The stages of a child.
Stages ==
  \A e \in Execs :
    /\ e \in active => copy[e] = 1 /\ child[e] \in {"alive", "dead", "failed"}
    /\ e \notin active /\ child[e] \in {"alive", "dead", "errored"}
         => copy[e] = 0
    /\ child[e] \in {"closed", "gone"} => copy[e] \in {-1, 0}
    /\ child[e] = "failed" => e \in active
    /\ e \in pipes => child[e] \in {"alive", "dead"}

\* No more timers than kills.
TimersOfKills == \A e \in Execs : timers[e] <= kills[e]

IInv ==
  /\ TypeOK
  /\ NotStarted
  /\ Stages
  /\ TimersOfKills
  /\ ActiveUntilReported
  /\ OrderlyExit

\* Output adds no exit.
LEMMA EmitOut ==
  ASSUME TypeOK, NEW e \in Execs, Emit(e, "out")
  PROVE  /\ log' \in [Execs -> Seq({"out", "exit"})]
         /\ \A f \in Execs : Exits(f)' = Exits(f)
         /\ \A f \in Execs \ {e} : log'[f] = log[f]
<1> USE DEF TypeOK, Emit
<1>1. log[e] \in Seq({"out", "exit"}) /\ log'[e] = Append(log[e], "out")
  OBVIOUS
<1>2. /\ Len(log'[e]) = Len(log[e]) + 1
      /\ \A i \in 1..Len(log[e]) : log'[e][i] = log[e][i]
      /\ log'[e][Len(log[e]) + 1] = "out"
      /\ Len(log[e]) \in Nat
  BY <1>1
<1>3. Exits(e)' = Exits(e)
  BY <1>2 DEF Exits
<1>4. \A f \in Execs \ {e} : log'[f] = log[f]
  OBVIOUS
<1>5. \A f \in Execs \ {e} : Exits(f)' = Exits(f)
  BY <1>4 DEF Exits
<1>6. log' \in [Execs -> Seq({"out", "exit"})]
  BY <1>1
<1> QED  BY <1>3, <1>4, <1>5, <1>6

\* An exit is appended after all there was.
LEMMA EmitExit ==
  ASSUME TypeOK, NEW e \in Execs, Emit(e, "exit")
  PROVE  /\ log' \in [Execs -> Seq({"out", "exit"})]
         /\ Exits(e)' = Exits(e) \cup {Len(log'[e])}
         /\ \A f \in Execs \ {e} : Exits(f)' = Exits(f) /\ log'[f] = log[f]
<1> USE DEF TypeOK, Emit
<1>1. log[e] \in Seq({"out", "exit"}) /\ log'[e] = Append(log[e], "exit")
  OBVIOUS
<1>2. /\ Len(log'[e]) = Len(log[e]) + 1
      /\ \A i \in 1..Len(log[e]) : log'[e][i] = log[e][i]
      /\ log'[e][Len(log[e]) + 1] = "exit"
      /\ Len(log[e]) \in Nat
  BY <1>1
<1>3. Exits(e)' = Exits(e) \cup {Len(log'[e])}
  BY <1>2 DEF Exits
<1>4. \A f \in Execs \ {e} : log'[f] = log[f]
  OBVIOUS
<1>5. \A f \in Execs \ {e} : Exits(f)' = Exits(f)
  BY <1>4 DEF Exits
<1>6. log' \in [Execs -> Seq({"out", "exit"})]
  BY <1>1
<1> QED  BY <1>3, <1>4, <1>5, <1>6

\* Nothing has been asked for.
LEMMA InitIInv == Init => IInv
<1> SUFFICES ASSUME Init
             PROVE  IInv
  OBVIOUS
<1> USE ExecAssumption DEF Init
<1>1. log \in [Execs -> Seq({"out", "exit"})]
  OBVIOUS
<1>2. TypeOK
  BY <1>1 DEF TypeOK, StoredCount
<1>3. \A e \in Execs : Exits(e) = {}
  BY DEF Exits
<1>4. (NotStarted /\ Stages /\ TimersOfKills)
  BY DEF NotStarted, Stages, TimersOfKills, StoredCount
<1>5. ActiveUntilReported /\ OrderlyExit
  BY <1>3 DEF ActiveUntilReported, OrderlyExit
<1> QED  BY <1>2, <1>4, <1>5 DEF IInv

\* What is unchanged when no frame is emitted.
LEMMA Silent == UNCHANGED log => \A e \in Execs : Exits(e)' = Exits(e)
  BY DEF Exits

\* exec.req.
LEMMA RequestIInv ==
  ASSUME IInv, NEW e \in Execs, Refuse(e) \/ Start(e)
  PROVE  IInv'
<1> USE ExecAssumption DEF IInv
<1>1. UNCHANGED <<limit, log, kills, timers, doomed, killed>>
  BY DEF Refuse, Start
<1>2. \A f \in Execs : Exits(f)' = Exits(f)
  BY <1>1, Silent
<1>3. outcome[e] = "none" /\ child[e] = "none" /\ log[e] = <<>> /\ copy[e] = 0
  BY DEF Refuse, Start, NotStarted
<1>4. Exits(e) = {}
  BY <1>3 DEF Exits
<1>5. TypeOK'
  <2>1. CASE Refuse(e)
    BY <1>1, <2>1 DEF TypeOK, Refuse
  <2>2. CASE Start(e)
    <3>1. copy' \in [Execs -> -1..1]
      BY <1>3, <2>2 DEF TypeOK, Start
    <3>2. /\ outcome' \in [Execs -> {"none", "FORBIDDEN", "LIMIT_EXCEEDED",
                                     "threw", "started"}]
          /\ child' \in [Execs -> {"none", "alive", "dead", "failed",
                                   "errored", "closed", "gone"}]
          /\ pipes' \in SUBSET Execs
          /\ active' \in SUBSET Execs
      BY <2>2 DEF TypeOK, Start
    <3> QED  BY <1>1, <3>1, <3>2 DEF TypeOK
  <2> QED  BY <2>1, <2>2
<1>6. NotStarted'
  BY <1>1, <1>3 DEF TypeOK, NotStarted, Refuse, Start
<1>7. Stages'
  BY <1>3 DEF TypeOK, Stages, Refuse, Start
<1>8. TimersOfKills'
  BY <1>1 DEF TimersOfKills
<1>9. ActiveUntilReported'
  BY <1>2, <1>3, <1>4 DEF TypeOK, ActiveUntilReported, Refuse, Start
<1>10. OrderlyExit'
  BY <1>1, <1>2, <1>3, <1>4 DEF TypeOK, OrderlyExit, Refuse, Start
<1> QED  BY <1>5, <1>6, <1>7, <1>8, <1>9, <1>10

\* Output, the end of the leader and the end of the pipes.
LEMMA ProcessIInv ==
  ASSUME IInv, NEW e \in Execs, Data(e) \/ LeaderExits(e) \/ PipesEnd(e)
  PROVE  IInv'
<1> USE ExecAssumption DEF IInv
<1>1. UNCHANGED <<limit, outcome, copy, active, kills, timers, doomed, killed>>
  BY DEF Data, LeaderExits, PipesEnd
<1>2. /\ log' \in [Execs -> Seq({"out", "exit"})]
      /\ \A f \in Execs : Exits(f)' = Exits(f)
      /\ \A f \in Execs : e \notin pipes \/ f # e => log'[f] = log[f]
  BY EmitOut, Silent DEF Data, LeaderExits, PipesEnd, TypeOK
<1>3. child[e] \in {"alive", "dead"} /\ outcome[e] = "started"
  BY DEF Data, LeaderExits, PipesEnd, Stages, NotStarted
<1>4. /\ child' \in [Execs -> {"none", "alive", "dead", "failed", "errored",
                               "closed", "gone"}]
      /\ child'[e] \in {"alive", "dead"}
      /\ \A f \in Execs \ {e} : child'[f] = child[f]
      /\ pipes' \subseteq pipes /\ \A f \in Execs \ {e} : f \in pipes <=> f \in pipes'
  BY <1>3 DEF TypeOK, Data, LeaderExits, PipesEnd
<1>5. TypeOK'
  BY <1>1, <1>2, <1>4 DEF TypeOK
<1>6. NotStarted'
  BY <1>1, <1>2, <1>3, <1>4 DEF NotStarted
<1>7. Stages'
  BY <1>1, <1>3, <1>4 DEF Stages
<1>8. (TimersOfKills /\ ActiveUntilReported)'
  BY <1>1, <1>2 DEF TimersOfKills, ActiveUntilReported
<1>9. OrderlyExit'
  BY <1>2, <1>3, <1>4 DEF OrderlyExit
<1> QED  BY <1>5, <1>6, <1>7, <1>8, <1>9

\* 'close' and 'error' report an exit.
LEMMA EventIInv ==
  ASSUME IInv, NEW e \in Execs, Close(e) \/ SpawnError(e)
  PROVE  IInv'
<1> USE ExecAssumption DEF IInv
<1>1. /\ UNCHANGED <<limit, outcome, pipes, kills, timers, doomed, killed>>
      /\ ReportExit(e)
  BY DEF Close, SpawnError
<1>2. /\ log' \in [Execs -> Seq({"out", "exit"})]
      /\ Exits(e)' = Exits(e) \cup {Len(log'[e])}
      /\ \A f \in Execs \ {e} : Exits(f)' = Exits(f) /\ log'[f] = log[f]
  BY <1>1, EmitExit DEF ReportExit
<1>3. \/ child[e] = "dead" /\ e \notin pipes
         /\ child' = [child EXCEPT ![e] = "closed"]
      \/ child[e] = "errored" /\ child' = [child EXCEPT ![e] = "gone"]
      \/ child[e] = "failed" /\ child' = [child EXCEPT ![e] = "errored"]
  BY DEF Close, SpawnError
<1>4. /\ outcome[e] = "started" /\ e \notin pipes
      /\ copy[e] \in {0, 1}
      /\ child[e] = "failed" => copy[e] = 1
      /\ child[e] = "errored" => copy[e] = 0
  BY <1>3 DEF NotStarted, Stages, TypeOK
<1>5. TypeOK'
  <2>1. /\ copy' \in [Execs -> -1..1]
        /\ active' \in SUBSET Execs
    BY <1>1, <1>4 DEF TypeOK, ReportExit
  <2>2. child' \in [Execs -> {"none", "alive", "dead", "failed", "errored",
                              "closed", "gone"}]
    BY <1>3 DEF TypeOK
  <2> QED  BY <1>1, <1>2, <2>1, <2>2 DEF TypeOK
<1>6. NotStarted'
  BY <1>1, <1>2, <1>3, <1>4 DEF TypeOK, NotStarted, ReportExit
<1>7. Stages'
  BY <1>1, <1>3, <1>4 DEF TypeOK, Stages, ReportExit
<1>8. TimersOfKills'
  BY <1>1 DEF TimersOfKills
<1>9. ActiveUntilReported'
  BY <1>1, <1>2, <1>4 DEF TypeOK, ActiveUntilReported, ReportExit
<1>10. OrderlyExit'
  BY <1>1, <1>2, <1>3, <1>4 DEF TypeOK, OrderlyExit
<1> QED  BY <1>5, <1>6, <1>7, <1>8, <1>9, <1>10

\* A kill, now or five seconds later.
LEMMA KillIInv ==
  ASSUME IInv, NEW e \in Execs,
         \/ KillNotFound(e) \/ TimerFires(e)
         \/ \E signal \in Signals : Kill(e, signal)
  PROVE  IInv'
<1> USE ExecAssumption DEF IInv
<1>1. /\ UNCHANGED <<limit, outcome, child, pipes>>
      /\ kills' \in [Execs -> 0..MaxKills]
      /\ timers' \in [Execs -> 0..MaxKills]
      /\ killed' \in SUBSET Execs
      /\ doomed' \in SUBSET Execs
      /\ TimersOfKills'
  <2>1. CASE KillNotFound(e)
    BY <2>1 DEF KillNotFound, TypeOK, TimersOfKills
  <2>2. CASE TimerFires(e)
    <3>1. UNCHANGED <<limit, outcome, child, pipes, kills, killed>>
          /\ doomed' \in SUBSET Execs
      BY <2>2 DEF TimerFires, Signal, TypeOK
    <3>2. timers' \in [Execs -> 0..MaxKills] /\ TimersOfKills'
      BY <2>2 DEF TimerFires, TypeOK, TimersOfKills
    <3> QED  BY <3>1, <3>2 DEF TypeOK
  <2>3. CASE \E signal \in Signals : Kill(e, signal)
    <3>1. PICK signal \in Signals : Kill(e, signal)
      BY <2>3
    <3>2. /\ UNCHANGED <<limit, outcome, child, pipes>>
          /\ killed' \in SUBSET Execs /\ doomed' \in SUBSET Execs
      BY <3>1 DEF Kill, Signal, TypeOK
    <3>3. kills' \in [Execs -> 0..MaxKills]
      BY <3>1 DEF Kill, TypeOK
    <3>4. timers' \in [Execs -> 0..MaxKills] /\ TimersOfKills'
      BY <3>1 DEF Kill, TypeOK, TimersOfKills
    <3> QED  BY <3>2, <3>3, <3>4
  <2> QED  BY <2>1, <2>2, <2>3
<1>2. \/ UNCHANGED <<active, copy, log>>
      \/ /\ e \in active /\ child[e] = "alive" /\ e \in Privileged
         /\ ReportExit(e)
  BY DEF KillNotFound, TimerFires, Kill, Signal
<1>3. CASE UNCHANGED <<active, copy, log>>
  <2>1. \A f \in Execs : Exits(f)' = Exits(f)
    BY <1>3, Silent
  <2>2. TypeOK'
    BY <1>1, <1>3 DEF TypeOK
  <2>3. (NotStarted /\ Stages /\ ActiveUntilReported /\ OrderlyExit)'
    BY <1>1, <1>3, <2>1
    DEF NotStarted, Stages, ActiveUntilReported, OrderlyExit
  <2> QED  BY <1>1, <2>2, <2>3
<1>4. CASE /\ e \in active /\ child[e] = "alive" /\ e \in Privileged
           /\ ReportExit(e)
  <2>1. /\ log' \in [Execs -> Seq({"out", "exit"})]
        /\ Exits(e)' = Exits(e) \cup {Len(log'[e])}
        /\ \A f \in Execs \ {e} : Exits(f)' = Exits(f) /\ log'[f] = log[f]
    BY <1>4, EmitExit DEF ReportExit
  <2>2. copy[e] = 1 /\ outcome[e] = "started"
    BY <1>4 DEF Stages, NotStarted
  <2>3. TypeOK'
    <3>1. /\ copy' \in [Execs -> -1..1]
          /\ active' \in SUBSET Execs
      BY <1>4, <2>2 DEF TypeOK, ReportExit
    <3> QED  BY <1>1, <2>1, <3>1 DEF TypeOK
  <2>4. (NotStarted /\ Stages)'
    BY <1>1, <1>4, <2>1, <2>2, SMTT(20)
    DEF TypeOK, NotStarted, Stages, ReportExit
  <2>5. ActiveUntilReported'
    BY <1>1, <1>4, <2>1 DEF TypeOK, ActiveUntilReported, ReportExit
  <2>6. OrderlyExit'
    BY <1>1, <1>4, <2>1 DEF OrderlyExit
  <2> QED  BY <1>1, <2>3, <2>4, <2>5, <2>6
<1> QED  BY <1>2, <1>3, <1>4

\* Every step preserves the invariant.
LEMMA NextIInv == IInv /\ [Next]_vars => IInv'
<1> SUFFICES ASSUME IInv, [Next]_vars
             PROVE  IInv'
  OBVIOUS
<1>1. CASE UNCHANGED vars
  <2>1. \A e \in Execs : Exits(e)' = Exits(e)
    BY <1>1, Silent DEF vars
  <2> QED  BY <1>1, <2>1
           DEF vars, IInv, TypeOK, NotStarted, Stages, TimersOfKills,
               ActiveUntilReported, OrderlyExit
<1> QED  BY <1>1, RequestIInv, ProcessIInv, EventIInv, KillIInv DEF Next

\* The invariant holds in every reachable state of the exec service.
THEOREM Inductive == Spec => []IInv
  BY InitIInv, NextIInv, PTL DEF Spec

\* Types, for every instance.
THEOREM TypeCorrect == Spec => []TypeOK
<1>1. IInv => TypeOK  BY DEF IInv
<1> QED  BY <1>1, Inductive, PTL

\* A process is in activeProcesses exactly while its exit is owed.
THEOREM TracksUntilReported == Spec => []ActiveUntilReported
<1>1. IInv => ActiveUntilReported  BY DEF IInv
<1> QED  BY <1>1, Inductive, PTL

\* One exit, after the output, whatever races with it.
THEOREM ExitsInOrder == Spec => []OrderlyExit
<1>1. IInv => OrderlyExit  BY DEF IInv
<1> QED  BY <1>1, Inductive, PTL

-----------------------------------------------------------------------------
(* Buffered exec over HTTP.                                                *)

allVars == <<vars, httpVars>>

\* The output is bounded, and the client has received nothing beyond it.
OutputTied ==
  \A e \in Execs :
    /\ Outs(e) \in 0..MaxChunks
    /\ got[e] \subseteq 1..Outs(e)
    /\ cursor[e] <= Outs(e)

\* A poll continues what the client has, and an answer ends at the output of
\* the moment it was given, the last one if the buffer was done.
PollTied ==
  \A p \in Polls :
    poll[p].at # "idle" =>
      /\ poll[p].exec \in Execs
      /\ 1..poll[p].from \subseteq got[poll[p].exec]
      /\ poll[p].from <= Outs(poll[p].exec)
      /\ poll[p].at = "answered" /\ poll[p].verdict \notin Errors =>
           /\ poll[p].from <= poll[p].next
           /\ poll[p].next <= Outs(poll[p].exec)
      /\ poll[p].verdict = "done" => poll[p].exec \in done

HInv ==
  /\ IInv
  /\ HttpTypeOK
  /\ OutputTied
  /\ PollTied
  /\ NoGap

-----------------------------------------------------------------------------

\* A step of the exec service extends the log of one exec by at most a frame.
LEMMA LogStep ==
  ASSUME NEW e \in Execs, Refuse(e) \/ Start(e) \/ ProcessStep(e)
  PROVE  \/ UNCHANGED log
         \/ Emit(e, "out") /\ e \in pipes /\ Outs(e) < MaxChunks
         \/ Emit(e, "exit")
  BY DEF Refuse, Start, ProcessStep, Data, LeaderExits, PipesEnd, Close,
         SpawnError, KillNotFound, TimerFires, Kill, Signal, ReportExit, Outs

\* The exits of a log are positions in it.
LEMMA ExitsFinite ==
  ASSUME TypeOK, NEW e \in Execs
  PROVE  /\ Len(log[e]) \in Nat
         /\ Exits(e) \subseteq 1..Len(log[e])
         /\ IsFiniteSet(Exits(e))
         /\ Cardinality(Exits(e)) \in Nat
<1>1. Len(log[e]) \in Nat
  BY DEF TypeOK
<1>2. Exits(e) \subseteq 1..Len(log[e])
  BY DEF Exits
<1>3. IsFiniteSet(1..Len(log[e]))
  BY <1>1, FS_Interval
<1>4. IsFiniteSet(Exits(e))
  BY <1>2, <1>3, FS_Subset
<1> QED  BY <1>1, <1>2, <1>4, FS_CardinalityType

\* Output only grows, only while somebody holds a pipe, and never too far.
LEMMA OutsStep ==
  ASSUME ExecAssumption, TypeOK, NEW e \in Execs,
         Refuse(e) \/ Start(e) \/ ProcessStep(e),
         NEW f \in Execs, Outs(f) \in 0..MaxChunks
  PROVE  /\ Outs(f)' \in 0..MaxChunks
         /\ Outs(f) <= Outs(f)'
         /\ f \notin pipes \/ Exits(f)' # Exits(f) => Outs(f)' = Outs(f)
<1> USE DEF ExecAssumption
<1>1. CASE UNCHANGED log
  BY <1>1 DEF Outs, Exits
<1>2. CASE Emit(e, "out") /\ e \in pipes /\ Outs(e) < MaxChunks
  <2>1. Exits(f)' = Exits(f) /\ (f # e => log'[f] = log[f])
    BY <1>2, EmitOut
  <2>2. Len(log'[e]) = Len(log[e]) + 1
    BY <1>2 DEF TypeOK, Emit
  <2>3. Len(log[e]) \in Nat /\ Cardinality(Exits(e)) \in Nat
    BY ExitsFinite
  <2>4. CASE f = e
    BY <1>2, <2>1, <2>2, <2>3, <2>4 DEF Outs
  <2>5. CASE f # e
    BY <2>1, <2>5 DEF Outs
  <2> QED  BY <2>4, <2>5
<1>3. CASE Emit(e, "exit")
  <2>1. /\ Exits(e)' = Exits(e) \cup {Len(log'[e])}
        /\ f # e => Exits(f)' = Exits(f) /\ log'[f] = log[f]
    BY <1>3, EmitExit
  <2>2. Len(log'[e]) = Len(log[e]) + 1
    BY <1>3 DEF TypeOK, Emit
  <2>3. /\ Len(log[e]) \in Nat /\ Cardinality(Exits(e)) \in Nat
        /\ Exits(e) \subseteq 1..Len(log[e]) /\ IsFiniteSet(Exits(e))
    BY ExitsFinite
  <2>4. Len(log'[e]) \notin Exits(e)
    BY <2>2, <2>3
  <2>5. Cardinality(Exits(e)') = Cardinality(Exits(e)) + 1
    BY <2>1, <2>3, <2>4, FS_AddElement
  <2>6. CASE f = e
    <3>1. Len(log'[e]) - Cardinality(Exits(e)') = Len(log[e]) - Cardinality(Exits(e))
      <4>1. Len(log[e]) \in Nat /\ Cardinality(Exits(e)) \in Nat
        BY <2>3
      <4> QED  BY <2>2, <2>5, <4>1, SMTT(20)
    <3>2. Outs(e)' = Outs(e)
      BY <3>1 DEF Outs
    <3> QED  BY <2>6, <3>2
  <2>7. CASE f # e
    BY <2>1, <2>7 DEF Outs
  <2> QED  BY <2>6, <2>7
<1> QED  BY <1>1, <1>2, <1>3, LogStep

\* When the exec service stands still, so do its exits and its output.
LEMMA OutsStill ==
  ASSUME UNCHANGED vars
  PROVE  \A f \in Execs : Exits(f)' = Exits(f) /\ Outs(f)' = Outs(f)
  BY DEF vars, Exits, Outs

\* Every step is one of the exec service, or leaves it alone.
LEMMA ServiceStep == [HttpNext]_allVars => [Next]_vars
<1> SUFFICES ASSUME [HttpNext]_allVars
             PROVE  [Next]_vars
  OBVIOUS
<1>1. CASE UNCHANGED allVars
  BY <1>1 DEF allVars
<1>2. CASE \E e \in Execs : Invoke(e) \/ ProcessStep(e)
  BY <1>2 DEF Invoke, ProcessStep, Next
<1>3. CASE \E e \in Execs :
             \/ TimeoutFires(e) \/ StartPolling(e)
             \/ \E p \in Polls : SendPoll(p, e)
  BY <1>3 DEF TimeoutFires, StartPolling, SendPoll
<1>4. CASE \E p \in Polls : ServePoll(p) \/ Arrive(p) \/ LosePoll(p)
  BY <1>4 DEF ServePoll, Arrive, LosePoll
<1>5. CASE Expire
  BY <1>5 DEF Expire
<1> QED  BY <1>1, <1>2, <1>3, <1>4, <1>5 DEF HttpNext

\* The exec service behaves under HTTP as it does alone.
THEOREM KeepsService == HttpSpec => Spec
  BY ServiceStep, PTL DEF HttpSpec, HttpInit, Spec, allVars

-----------------------------------------------------------------------------

\* Nothing has been invoked or polled.
LEMMA HttpInitHInv == HttpInit => HInv
<1> SUFFICES ASSUME HttpInit
             PROVE  HInv
  OBVIOUS
<1> USE ExecAssumption, HttpAssumption DEF HttpInit
<1>1. IInv
  BY InitIInv
<1>2. \A e \in Execs : Outs(e) = 0
  <2> SUFFICES ASSUME NEW e \in Execs
               PROVE  Outs(e) = 0
    OBVIOUS
  <2>1. log[e] = <<>>
    BY DEF Init
  <2>2. Exits(e) = {}
    BY <2>1 DEF Exits
  <2> QED  BY <2>1, <2>2, FS_EmptySet DEF Outs
<1>3. HttpTypeOK
  BY DEF HttpTypeOK, Poll, IdlePoll
<1>4. OutputTied /\ NoGap
  BY <1>2 DEF OutputTied, NoGap
<1>5. PollTied
  BY DEF PollTied, IdlePoll, Errors
<1> QED  BY <1>1, <1>3, <1>4, <1>5 DEF HInv

\* What a step of the exec service leaves of the client's half of the
\* invariant.
LEMMA ClientHalf ==
  ASSUME HInv, NEW e \in Execs, Refuse(e) \/ Start(e) \/ ProcessStep(e),
         UNCHANGED clientVars, done \subseteq done'
  PROVE  (OutputTied /\ PollTied /\ NoGap)'
<1> USE DEF HInv, clientVars
<1>1. \A f \in Execs : Outs(f)' \in 0..MaxChunks /\ Outs(f) <= Outs(f)'
  BY ExecAssumption, OutsStep DEF IInv, OutputTied
<1>2. \A f \in Execs : Outs(f) \in 0..MaxChunks /\ cursor[f] \in 0..MaxChunks
  BY DEF OutputTied, HttpTypeOK
<1>3. OutputTied'
  BY <1>1, <1>2 DEF OutputTied
<1>4. PollTied'
  <2> SUFFICES ASSUME NEW p \in Polls, poll[p].at # "idle"
               PROVE  /\ poll[p].exec \in Execs
                      /\ 1..poll[p].from \subseteq got[poll[p].exec]
                      /\ poll[p].from <= Outs(poll[p].exec)'
                      /\ poll[p].at = "answered" /\ poll[p].verdict \notin Errors
                           => /\ poll[p].from <= poll[p].next
                              /\ poll[p].next <= Outs(poll[p].exec)'
                      /\ poll[p].verdict = "done" => poll[p].exec \in done'
    BY DEF PollTied
  <2>1. poll[p].from \in Nat /\ poll[p].next \in Nat
    BY ExecAssumption DEF HttpTypeOK, Poll
  <2> QED  BY <1>1, <1>2, <2>1, ExecAssumption DEF PollTied
<1>5. NoGap'
  BY DEF NoGap
<1> QED  BY <1>3, <1>4, <1>5

\* An invoke answers a refusal or arms the timeout; a step of the process
\* answers if it is an exit.
LEMMA ServerHInv ==
  ASSUME HInv, NEW e \in Execs, Invoke(e) \/ ProcessStep(e)
  PROVE  HInv'
<1> USE DEF HInv
<1>1. IInv'
  BY ServiceStep, NextIInv DEF HttpNext
<1>2. UNCHANGED clientVars
  BY DEF Invoke, ProcessStep
<1>3. Outs(e) \in 0..MaxChunks
  BY DEF OutputTied
<1>4. HttpTypeOK' /\ done \subseteq done'
  BY <1>2, <1>3
  DEF HttpTypeOK, clientVars, serverVars, bufferVars, hostVars, Invoke,
      ProcessStep, OnExit, Resolve
<1>5. Refuse(e) \/ Start(e) \/ ProcessStep(e)
  BY DEF Invoke
<1>6. (OutputTied /\ PollTied /\ NoGap)'
  BY <1>2, <1>4, <1>5, ClientHalf
<1> QED  BY <1>1, <1>4, <1>6

\* The timeout, the start of a polling and a new poll.
LEMMA TimersHInv ==
  ASSUME HInv, NEW e \in Execs,
         \/ TimeoutFires(e) \/ StartPolling(e)
         \/ \E p \in Polls : SendPoll(p, e)
  PROVE  HInv'
<1> USE DEF HInv
<1>1. UNCHANGED vars
  BY DEF TimeoutFires, StartPolling, SendPoll
<1>2. IInv' /\ \A f \in Execs : Outs(f)' = Outs(f)
  BY <1>1, NextIInv, OutsStill
<1>3. UNCHANGED <<got, cursor>>
  BY DEF TimeoutFires, StartPolling, SendPoll, clientVars
<1>4. (OutputTied /\ NoGap)'
  BY <1>2, <1>3 DEF OutputTied, NoGap
<1>5. CASE TimeoutFires(e)
  <2>1. HttpTypeOK'
    BY <1>5 DEF TimeoutFires, clientVars, hostVars, HttpTypeOK, Resolve
  <2>2. PollTied'
    BY <1>5, <1>2 DEF TimeoutFires, clientVars, PollTied
  <2> QED  BY <1>2, <1>4, <2>1, <2>2
<1>6. CASE StartPolling(e)
  <2>1. HttpTypeOK'
    BY <1>6 DEF StartPolling, serverVars, bufferVars, hostVars, HttpTypeOK
  <2>2. PollTied'
    BY <1>6, <1>2 DEF StartPolling, serverVars, bufferVars, hostVars, PollTied
  <2> QED  BY <1>2, <1>4, <2>1, <2>2
<1>7. ASSUME NEW p \in Polls, SendPoll(p, e)
      PROVE  HInv'
  <2> DEFINE new == [at |-> "sent", exec |-> e, from |-> cursor[e],
                     next |-> 0, verdict |-> "none"]
  <2>1. poll' = [poll EXCEPT ![p] = new]
    BY <1>7 DEF SendPoll
  <2>2. new \in Poll
    BY ExecAssumption DEF HttpTypeOK, Poll
  <2>3. HttpTypeOK'
    BY <1>7, <2>1, <2>2 DEF SendPoll, serverVars, bufferVars, hostVars, HttpTypeOK
  <2>4. PollTied'
    <3>1. poll'[p] = new
      BY <2>1 DEF HttpTypeOK
    <3>2. \A q \in Polls \ {p} : poll'[q] = poll[q]
      BY <2>1 DEF HttpTypeOK
    <3>3. UNCHANGED done
      BY <1>7 DEF SendPoll, serverVars, bufferVars, hostVars
    <3>4. 1..cursor[e] \subseteq got[e] /\ cursor[e] <= Outs(e)
      BY DEF NoGap, OutputTied
    <3> QED  BY <3>1, <3>2, <3>3, <3>4, <1>2, <1>3 DEF PollTied
  <2> QED  BY <1>2, <1>4, <2>3, <2>4
<1> QED  BY <1>5, <1>6, <1>7

\* A poll that is answered, arrives or is lost changes that poll alone.
LEMMA PollsApart ==
  ASSUME PollTied, HttpTypeOK, UNCHANGED vars,
         \A e \in Execs : got[e] \subseteq got'[e], done \subseteq done',
         NEW p \in Polls, NEW new \in Poll, poll' = [poll EXCEPT ![p] = new],
         new.at # "idle" =>
           /\ new.exec \in Execs
           /\ 1..new.from \subseteq got'[new.exec]
           /\ new.from <= Outs(new.exec)
           /\ new.at = "answered" /\ new.verdict \notin Errors =>
                new.from <= new.next /\ new.next <= Outs(new.exec)
           /\ new.verdict = "done" => new.exec \in done'
  PROVE  PollTied'
<1>1. poll'[p] = new /\ \A q \in Polls \ {p} : poll'[q] = poll[q]
  BY DEF HttpTypeOK
<1>2. \A f \in Execs : Outs(f)' = Outs(f)
  BY OutsStill
<1> QED  BY <1>1, <1>2 DEF PollTied

\* handlePoll: the answer reaches from the client's cursor to the output.
LEMMA ServeHInv ==
  ASSUME HInv, NEW p \in Polls, ServePoll(p)
  PROVE  HInv'
<1> USE DEF HInv
<1>1. UNCHANGED <<vars, got, cursor, done, waiting, reply, carried, polling,
                  lostDone>>
  BY DEF ServePoll
<1>2. IInv' /\ \A f \in Execs : Outs(f)' = Outs(f)
  BY <1>1, NextIInv, OutsStill
<1>3. (OutputTied /\ NoGap)'
  BY <1>1, <1>2 DEF OutputTied, NoGap
<1>4. PICK e, next, verdict :
        /\ UNCHANGED hostVars
        /\ e = poll[p].exec
        /\ poll' = [poll EXCEPT ![p] =
             [at |-> "answered", exec |-> e, from |-> poll[p].from,
              next |-> next, verdict |-> verdict]]
        /\ \/ next = 0 /\ verdict \in Errors
           \/ next = Outs(e) /\ verdict = "more"
           \/ next = Outs(e) /\ verdict = "done" /\ e \in done
        /\ buffered' \subseteq buffered
        /\ poll[p].at = "sent"
  BY DEF ServePoll, Errors
<1>5. /\ e \in Execs
      /\ 1..poll[p].from \subseteq got[e]
      /\ poll[p].from <= Outs(e)
  BY <1>4 DEF PollTied
<1>6. Outs(e) \in 0..MaxChunks /\ poll[p].from \in 0..MaxChunks
  BY <1>5 DEF OutputTied, HttpTypeOK, Poll
<1>7. PICK new : new = [at |-> "answered", exec |-> e, from |-> poll[p].from,
                        next |-> next, verdict |-> verdict]
  OBVIOUS
<1>8. new \in Poll
  BY <1>4, <1>5, <1>6, <1>7, ExecAssumption DEF Poll, Errors
<1>9. poll' = [poll EXCEPT ![p] = new]
  BY <1>4, <1>7
<1>10. HttpTypeOK'
  BY <1>1, <1>4, <1>8, <1>9 DEF HttpTypeOK, hostVars
<1>11. /\ new.exec = e /\ new.from = poll[p].from /\ new.next = next
       /\ new.verdict = verdict
  BY <1>7
<1>12. new.verdict \notin Errors => new.next = Outs(e)
  BY <1>4, <1>11 DEF Errors
<1>13. new.verdict = "done" => e \in done'
  BY <1>1, <1>4, <1>11 DEF Errors
<1>14. /\ new.exec \in Execs
       /\ 1..new.from \subseteq got'[new.exec]
       /\ new.from <= Outs(new.exec)
       /\ new.at = "answered" /\ new.verdict \notin Errors =>
            new.from <= new.next /\ new.next <= Outs(new.exec)
       /\ new.verdict = "done" => new.exec \in done'
  BY <1>1, <1>5, <1>6, <1>11, <1>12, <1>13
<1>15. UNCHANGED vars /\ done \subseteq done'
       /\ \A f \in Execs : got[f] \subseteq got'[f]
  BY <1>1
<1>16. PollTied'
  BY <1>8, <1>9, <1>14, <1>15, PollsApart
<1> QED  BY <1>2, <1>3, <1>10, <1>16

\* An answer that arrives extends what the client has without a gap, even if
\* its cursor goes back.
LEMMA ArriveHInv ==
  ASSUME HInv, NEW p \in Polls, Arrive(p)
  PROVE  HInv'
<1> USE DEF HInv
<1>1. UNCHANGED <<vars, serverVars, lostDone>> /\ poll[p].at = "answered"
  BY DEF Arrive
<1>2. IInv' /\ \A f \in Execs : Outs(f)' = Outs(f)
  BY <1>1, NextIInv, OutsStill
<1>3. poll' = [poll EXCEPT ![p] = IdlePoll]
  BY DEF Arrive
<1>4. IdlePoll \in Poll /\ IdlePoll.at = "idle"
  BY ExecAssumption DEF IdlePoll, Poll
<1>5. CASE poll[p].verdict \in Errors
  <2>1. UNCHANGED <<got, cursor, polling>>
    BY <1>5 DEF Arrive
  <2>2. HttpTypeOK'
    BY <1>1, <1>3, <1>4, <2>1 DEF HttpTypeOK, serverVars, bufferVars, hostVars
  <2>3. (OutputTied /\ NoGap)'
    BY <1>2, <2>1 DEF OutputTied, NoGap
  <2>4. PollTied'
    BY <1>1, <1>3, <1>4, <2>1, PollsApart DEF serverVars, bufferVars, hostVars
  <2> QED  BY <1>2, <2>2, <2>3, <2>4
<1>6. CASE poll[p].verdict \notin Errors
  <2>1. PICK e, from, next :
          /\ e = poll[p].exec /\ from = poll[p].from /\ next = poll[p].next
          /\ got' = [got EXCEPT ![e] = @ \cup (from + 1)..next]
          /\ cursor' = [cursor EXCEPT ![e] = next]
          /\ polling' = polling \/ polling' = [polling EXCEPT ![e] = "off"]
    <3>1. /\ got' = [got EXCEPT ![poll[p].exec]
                       = @ \cup (poll[p].from + 1)..poll[p].next]
          /\ cursor' = [cursor EXCEPT ![poll[p].exec] = poll[p].next]
          /\ \/ polling' = polling
             \/ polling' = [polling EXCEPT ![poll[p].exec] = "off"]
      BY <1>6, ZenonT(30) DEF Arrive
    <3> QED  BY <3>1
  <2>2. /\ e \in Execs
        /\ 1..from \subseteq got[e]
        /\ from <= next /\ next <= Outs(e)
    BY <1>1, <1>6, <2>1 DEF PollTied
  <2>3. /\ from \in 0..MaxChunks /\ next \in 0..MaxChunks
        /\ Outs(e) \in 0..MaxChunks /\ MaxChunks \in Nat
    BY <2>1, <2>2, ExecAssumption DEF HttpTypeOK, Poll, OutputTied
  <2>4. /\ got'[e] = got[e] \cup (from + 1)..next
        /\ \A f \in Execs \ {e} : got'[f] = got[f]
        /\ cursor'[e] = next
        /\ \A f \in Execs \ {e} : cursor'[f] = cursor[f]
    BY <2>1, <2>2, SMTT(20) DEF HttpTypeOK
  <2>5. got' \in [Execs -> SUBSET (1..MaxChunks)]
    BY <2>1, <2>2, <2>3 DEF HttpTypeOK
  <2>6. HttpTypeOK'
    BY <1>1, <1>3, <1>4, <2>1, <2>2, <2>3, <2>5
    DEF HttpTypeOK, serverVars, bufferVars, hostVars
  <2>7. OutputTied'
    <3>1. got'[e] \subseteq 1..Outs(e)
      BY <2>2, <2>3, <2>4 DEF OutputTied
    <3> QED  BY <1>2, <2>2, <2>4, <3>1 DEF OutputTied
  <2>8. NoGap'
    <3>1. 1..next \subseteq got'[e]
      BY <2>2, <2>3, <2>4
    <3>2. ASSUME NEW i \in got'[e]
          PROVE  1..i \subseteq got'[e]
      <4>1. CASE i \in got[e]
        BY <2>2, <2>4, <4>1 DEF NoGap
      <4>2. CASE i \in (from + 1)..next
        BY <2>3, <3>1, <4>2
      <4> QED  BY <2>4, <4>1, <4>2
    <3> QED  BY <2>2, <2>4, <3>1, <3>2 DEF NoGap
  <2>9. \A f \in Execs : got[f] \subseteq got'[f]
    BY <2>2, <2>4
  <2>10. PollTied'
    BY <1>1, <1>3, <1>4, <2>9, PollsApart DEF serverVars, bufferVars, hostVars
  <2> QED  BY <1>2, <2>6, <2>7, <2>8, <2>10
<1> QED  BY <1>5, <1>6

\* A lost poll leaves the client where it was.
LEMMA LoseHInv ==
  ASSUME HInv, NEW p \in Polls, LosePoll(p)
  PROVE  HInv'
<1> USE DEF HInv
<1>1. UNCHANGED <<vars, serverVars, polling, cursor, got>>
  BY DEF LosePoll
<1>2. IInv' /\ \A f \in Execs : Outs(f)' = Outs(f)
  BY <1>1, NextIInv, OutsStill
<1>3. poll' = [poll EXCEPT ![p] = IdlePoll]
  BY DEF LosePoll
<1>4. IdlePoll \in Poll /\ IdlePoll.at = "idle"
  BY ExecAssumption DEF IdlePoll, Poll
<1>5. lostDone' \in SUBSET Execs
  BY DEF LosePoll, HttpTypeOK, PollTied
<1>6. HttpTypeOK'
  BY <1>1, <1>3, <1>4, <1>5 DEF HttpTypeOK, serverVars, bufferVars, hostVars
<1>7. (OutputTied /\ NoGap)'
  BY <1>1, <1>2 DEF OutputTied, NoGap
<1>8. PollTied'
  BY <1>1, <1>3, <1>4, PollsApart DEF serverVars, bufferVars, hostVars
<1> QED  BY <1>2, <1>6, <1>7, <1>8

\* The session lapses.
LEMMA ExpireHInv ==
  ASSUME HInv, Expire
  PROVE  HInv'
<1> USE DEF HInv
<1>1. UNCHANGED <<vars, bufferVars, server, clientVars>> /\ session' = "expired"
  BY DEF Expire
<1>2. IInv' /\ \A f \in Execs : Outs(f)' = Outs(f)
  BY <1>1, NextIInv, OutsStill
<1>3. HttpTypeOK'
  BY <1>1 DEF HttpTypeOK, bufferVars, clientVars
<1>4. (OutputTied /\ PollTied /\ NoGap)'
  BY <1>1, <1>2 DEF OutputTied, PollTied, NoGap, bufferVars, clientVars
<1> QED  BY <1>2, <1>3, <1>4

\* Every step preserves the invariant.
LEMMA HttpNextHInv == HInv /\ [HttpNext]_allVars => HInv'
<1> SUFFICES ASSUME HInv, [HttpNext]_allVars
             PROVE  HInv'
  OBVIOUS
<1>1. CASE UNCHANGED allVars
  <2>1. UNCHANGED vars /\ UNCHANGED httpVars
    BY <1>1 DEF allVars
  <2>2. IInv' /\ \A f \in Execs : Outs(f)' = Outs(f)
    BY <2>1, NextIInv, OutsStill DEF HInv
  <2> QED  BY <2>1, <2>2
           DEF HInv, httpVars, HttpTypeOK, OutputTied, PollTied, NoGap
<1>2. CASE HttpNext
  BY <1>2, ServerHInv, TimersHInv, ServeHInv, ArriveHInv, LoseHInv, ExpireHInv
  DEF HttpNext
<1> QED  BY <1>1, <1>2

\* The invariant holds in every reachable state.
THEOREM HttpInductive == HttpSpec => []HInv
  BY HttpInitHInv, HttpNextHInv, PTL DEF HttpSpec, allVars

\* Types, for every instance.
THEOREM HttpTypeCorrect == HttpSpec => []HttpTypeOK
<1>1. HInv => HttpTypeOK
  BY DEF HInv
<1> QED  BY <1>1, HttpInductive, PTL

\* startPolling never skips a chunk, whatever answers overlap, overtake each
\* other or get lost.
THEOREM PollsWithoutGap == HttpSpec => []NoGap
<1>1. HInv => NoGap
  BY DEF HInv
<1> QED  BY <1>1, HttpInductive, PTL

-----------------------------------------------------------------------------
(* Nothing is forgotten.                                                   *)

\* Why a buffer is done, and when it may be missing.
DoneTied ==
  \A e \in Execs :
    /\ outcome[e] = "none" => e \notin done /\ e \notin waiting
    /\ e \in done /\ reply[e] # "TIMEOUT" =>
         Exits(e) # {} \/ outcome[e] \in {"FORBIDDEN", "LIMIT_EXCEEDED"}
    /\ outcome[e] # "none" /\ e \notin buffered => e \in done
    /\ polling[e] = "off" => e \in done
    /\ reply[e] # "none" => e \in done
    /\ reply[e] = "exit" => Exits(e) # {}

\* When polling has ended, so has the output, and the client has it.
EndTied ==
  \A e \in Execs \ Privileged :
    reply[e] # "TIMEOUT" =>
      /\ polling[e] = "off" => got[e] = 1..Outs(e)
      /\ outcome[e] # "none" /\ e \notin buffered => got[e] = 1..Outs(e)
      /\ \A p \in Polls :
           (poll[p].at = "answered" /\ poll[p].verdict = "done"
              /\ poll[p].exec = e) => poll[p].next = Outs(e)

AInv ==
  /\ HInv
  /\ AnswerComplete
  /\ DoneTied
  /\ EndTied

\* An exec that is done and has not timed out holds no pipe.
LEMMA Settled ==
  ASSUME IInv, DoneTied, NEW e \in Execs \ Privileged,
         e \in done, reply[e] # "TIMEOUT"
  PROVE  e \notin pipes
<1>1. CASE Exits(e) # {}
  BY <1>1 DEF IInv, OrderlyExit
<1>2. CASE outcome[e] \in {"FORBIDDEN", "LIMIT_EXCEEDED"}
  BY <1>2 DEF IInv, NotStarted
<1> QED  BY <1>1, <1>2 DEF DoneTied

\* Exits are never taken back, and an outcome is final.
LEMMA ExitsStep ==
  ASSUME TypeOK, NEW e \in Execs, Refuse(e) \/ Start(e) \/ ProcessStep(e),
         NEW f \in Execs
  PROVE  /\ Exits(f) \subseteq Exits(f)'
         /\ f # e => outcome'[f] = outcome[f]
         /\ outcome[f] # "none" => outcome'[f] = outcome[f]
<1>1. Exits(f) \subseteq Exits(f)'
  BY LogStep, EmitOut, EmitExit, Silent
<1>2. UNCHANGED outcome \/
        (outcome[e] = "none" /\ \E o : outcome' = [outcome EXCEPT ![e] = o])
  BY DEF Refuse, Start, ProcessStep, Data, LeaderExits, PipesEnd, Close,
         SpawnError, KillNotFound, TimerFires, Kill
<1> QED  BY <1>1, <1>2 DEF TypeOK

\* Nothing is done, answered or polled at first.
LEMMA HttpInitAInv == HttpInit => AInv
<1> SUFFICES ASSUME HttpInit
             PROVE  AInv
  OBVIOUS
<1>1. HInv
  BY HttpInitHInv
<1>2. AnswerComplete /\ DoneTied /\ EndTied
  BY DEF HttpInit, Init, AnswerComplete, DoneTied, EndTied, IdlePoll
<1> QED  BY <1>1, <1>2 DEF AInv

\* What an invoke or a step of the process does to the answers of each exec.
LEMMA AnswerStep ==
  ASSUME AInv, NEW e \in Execs, Invoke(e) \/ ProcessStep(e),
         NEW f \in Execs
  PROVE  /\ f # e => /\ f \in done' <=> f \in done
                     /\ f \in waiting' <=> f \in waiting
                     /\ f \in buffered' <=> f \in buffered
                     /\ reply'[f] = reply[f] /\ carried'[f] = carried[f]
         /\ buffered \subseteq buffered' /\ done \subseteq done'
         /\ reply[f] # "none" =>
              reply'[f] = reply[f] /\ carried'[f] = carried[f]
         /\ reply'[f] = "TIMEOUT" => reply[f] = "TIMEOUT"
  BY DEF AInv, HInv, HttpTypeOK, serverVars, bufferVars, hostVars, Invoke,
         ProcessStep, OnExit, Resolve

\* An invoke or a step of the process keeps the reasons.
LEMMA ServerDone ==
  ASSUME AInv, NEW e \in Execs, Invoke(e) \/ ProcessStep(e)
  PROVE  DoneTied'
<1> USE DEF AInv, HInv, IInv
<1> SUFFICES ASSUME NEW f \in Execs
             PROVE
    /\ outcome'[f] = "none" => f \notin done' /\ f \notin waiting'
    /\ f \in done' /\ reply'[f] # "TIMEOUT" =>
         Exits(f)' # {} \/ outcome'[f] \in {"FORBIDDEN", "LIMIT_EXCEEDED"}
    /\ outcome'[f] # "none" /\ f \notin buffered' => f \in done'
    /\ polling'[f] = "off" => f \in done'
    /\ reply'[f] # "none" => f \in done'
    /\ reply'[f] = "exit" => Exits(f)' # {}
  BY DEF DoneTied
<1>1. Refuse(e) \/ Start(e) \/ ProcessStep(e)
  BY DEF Invoke
<1>2. UNCHANGED polling
  BY DEF Invoke, ProcessStep, clientVars
<1>3. /\ Exits(f) \subseteq Exits(f)'
      /\ f # e => outcome'[f] = outcome[f]
      /\ outcome[f] # "none" => outcome'[f] = outcome[f]
  BY <1>1, ExitsStep
<1>4. CASE f # e
  BY <1>2, <1>3, <1>4, AnswerStep DEF DoneTied
<1>5. CASE f = e /\ Invoke(e)
  <2>1. /\ outcome'[e] # "none" /\ e \in buffered' /\ outcome[e] = "none"
        /\ e \notin done /\ (polling[e] = "off" => e \in done)
    BY <1>5 DEF Invoke, Refuse, Start, TypeOK, DoneTied
  <2>2. \/ /\ outcome'[e] \in {"FORBIDDEN", "LIMIT_EXCEEDED"}
           /\ e \in done'
           /\ reply'[e] = "exit" => reply[e] = "exit"
        \/ done' = done /\ reply' = reply
    BY <1>5 DEF Invoke, Resolve, HttpTypeOK
  <2> QED  BY <1>2, <1>3, <1>5, <2>1, <2>2 DEF DoneTied
<1>6. CASE f = e /\ ProcessStep(e) /\ Exits(e)' = Exits(e)
  <2>1. UNCHANGED bufferVars \/ Exits(e)' # Exits(e)
    BY <1>6 DEF ProcessStep
  <2>2. UNCHANGED outcome
    BY <1>6 DEF ProcessStep, Data, LeaderExits, PipesEnd, Close, SpawnError,
                KillNotFound, TimerFires, Kill
  <2> QED  BY <1>2, <1>6, <2>1, <2>2 DEF serverVars, bufferVars, hostVars, DoneTied
<1>7. CASE f = e /\ ProcessStep(e) /\ Exits(e)' # Exits(e)
  <2>1. OnExit(e)
    BY <1>7 DEF ProcessStep
  <2>2. Exits(e)' # {}
    BY <1>3, <1>7
  <2>3. outcome'[e] # "none"
    <3>1. outcome[e] # "none"
      BY <1>7 DEF ProcessStep, Data, LeaderExits, PipesEnd, Close, SpawnError,
                  KillNotFound, TimerFires, Kill, NotStarted, Stages,
                  ActiveUntilReported, TypeOK, Signal, Exits
    <3> QED  BY <1>3, <1>7, <3>1
  <2>4. e \in done'
    BY <2>1 DEF OnExit
  <2> QED  BY <1>7, <2>2, <2>3, <2>4
<1> QED  BY <1>1, <1>4, <1>5, <1>6, <1>7

\* The output of an exec that is done and has not timed out has ended; a step
\* that reports an exit adds none either.
LEMMA OutputEnded ==
  ASSUME AInv, NEW e \in Execs, Invoke(e) \/ ProcessStep(e),
         NEW f \in Execs \ Privileged,
         \/ f \in done /\ reply[f] # "TIMEOUT"
         \/ Exits(f)' # Exits(f)
  PROVE  Outs(f)' = Outs(f)
<1>1. Refuse(e) \/ Start(e) \/ ProcessStep(e)
  BY DEF Invoke
<1>2. TypeOK /\ Outs(f) \in 0..MaxChunks
  BY DEF AInv, HInv, IInv, OutputTied
<1>3. f \notin pipes \/ Exits(f)' # Exits(f)
  BY Settled DEF AInv, HInv
<1> QED  BY <1>1, <1>2, <1>3, ExecAssumption, OutsStep

\* An answer of an invoke or of an exit is complete.
LEMMA ServerAnswer ==
  ASSUME AInv, NEW e \in Execs, Invoke(e) \/ ProcessStep(e)
  PROVE  AnswerComplete'
<1> SUFFICES ASSUME NEW f \in Execs \ Privileged
             PROVE
    /\ reply'[f] = "exit" => carried'[f] = Outs(f)'
    /\ reply'[f] # "none" => f \in done'
    /\ (outcome'[f] # "none" /\ reply'[f] = "none") => f \in waiting'
  BY DEF AnswerComplete
<1>1. /\ reply[f] = "exit" => carried[f] = Outs(f)
      /\ reply[f] # "none" => f \in done
      /\ (outcome[f] # "none" /\ reply[f] = "none") => f \in waiting
  BY DEF AInv, AnswerComplete
<1>2. CASE reply[f] # "none"
  BY <1>1, <1>2, AnswerStep, OutputEnded
<1>3. CASE reply[f] = "none" /\ f # e
  <2>1. outcome'[f] = outcome[f]
    <3>1. TypeOK /\ (Refuse(e) \/ Start(e) \/ ProcessStep(e))
      BY DEF AInv, HInv, IInv, Invoke
    <3> QED  BY <1>3, <3>1, ExitsStep
  <2> QED  BY <1>1, <1>3, <2>1, AnswerStep
<1>4. CASE reply[f] = "none" /\ f = e /\ Invoke(e)
  BY <1>4 DEF Invoke, Resolve, AInv, HInv, HttpTypeOK
<1>5. CASE reply[f] = "none" /\ f = e /\ ProcessStep(e)
  <2>1. CASE Exits(e)' = Exits(e)
    <3>1. UNCHANGED <<reply, waiting>>
      BY <1>5, <2>1 DEF ProcessStep, serverVars, bufferVars, hostVars
    <3>2. UNCHANGED outcome
      BY <1>5 DEF ProcessStep, Data, LeaderExits, PipesEnd, Close, SpawnError,
                  KillNotFound, TimerFires, Kill
    <3> QED  BY <1>1, <1>5, <3>1, <3>2
  <2>2. CASE Exits(e)' # Exits(e)
    <3>1. OnExit(e)
      BY <1>5, <2>2 DEF ProcessStep
    <3>2. reply'[e] = "exit" /\ carried'[e] = Outs(e) /\ e \in done'
      BY <1>5, <3>1 DEF OnExit, Resolve, AInv, HInv, HttpTypeOK
    <3>3. Outs(e)' = Outs(e)
      BY <1>5, <2>2, OutputEnded
    <3> QED  BY <1>5, <3>2, <3>3
  <2> QED  BY <2>1, <2>2
<1> QED  BY <1>2, <1>3, <1>4, <1>5

\* What the client has when the polling ends is not overtaken by more output.
LEMMA ServerEnd ==
  ASSUME AInv, NEW e \in Execs, Invoke(e) \/ ProcessStep(e)
  PROVE  EndTied'
<1> SUFFICES ASSUME NEW f \in Execs \ Privileged, reply'[f] # "TIMEOUT"
             PROVE
    /\ polling'[f] = "off" => got'[f] = 1..Outs(f)'
    /\ outcome'[f] # "none" /\ f \notin buffered' => got'[f] = 1..Outs(f)'
    /\ \A p \in Polls :
         (poll'[p].at = "answered" /\ poll'[p].verdict = "done"
            /\ poll'[p].exec = f) => poll'[p].next = Outs(f)'
  BY DEF EndTied
<1>1. UNCHANGED <<polling, got, poll>>
  BY DEF Invoke, ProcessStep, clientVars
<1>2. reply[f] # "TIMEOUT"
  BY AnswerStep
<1>3. f \in done => Outs(f)' = Outs(f)
  BY <1>2, OutputEnded
<1>4. polling[f] = "off" => f \in done
  BY DEF AInv, DoneTied
<1>5. outcome'[f] # "none" /\ f \notin buffered' =>
        outcome[f] # "none" /\ f \notin buffered /\ f \in done
  <2>1. f \notin buffered' => f \notin buffered
    BY AnswerStep
  <2>2. outcome[f] # "none" /\ f \notin buffered => f \in done
    BY DEF AInv, DoneTied
  <2>3. CASE outcome'[f] = outcome[f]
    BY <2>1, <2>2, <2>3
  <2>4. CASE Invoke(e)
    <3>1. e \in buffered'
      BY <2>4 DEF Invoke
    <3>2. f # e => outcome'[f] = outcome[f]
      <4>1. TypeOK /\ (Refuse(e) \/ Start(e) \/ ProcessStep(e))
        BY <2>4 DEF AInv, HInv, IInv, Invoke
      <4> QED  BY <4>1, ExitsStep
    <3> QED  BY <2>3, <3>1, <3>2
  <2>5. CASE ProcessStep(e)
    <3>1. UNCHANGED outcome
      BY <2>5 DEF ProcessStep, Data, LeaderExits, PipesEnd, Close, SpawnError,
                  KillNotFound, TimerFires, Kill
    <3> QED  BY <2>3, <3>1
  <2> QED  BY <2>4, <2>5
<1>6. \A p \in Polls :
        poll[p].at = "answered" /\ poll[p].verdict = "done"
          /\ poll[p].exec = f => f \in done
  BY DEF AInv, HInv, PollTied
<1>7. /\ polling[f] = "off" => got[f] = 1..Outs(f)
      /\ outcome[f] # "none" /\ f \notin buffered => got[f] = 1..Outs(f)
      /\ \A p \in Polls :
           (poll[p].at = "answered" /\ poll[p].verdict = "done"
              /\ poll[p].exec = f) => poll[p].next = Outs(f)
  BY <1>2 DEF AInv, EndTied
<1> QED  BY <1>1, <1>3, <1>4, <1>5, <1>6, <1>7

\* A step of the exec service, with what the transport makes of it.
LEMMA ServerAInv ==
  ASSUME AInv, NEW e \in Execs, Invoke(e) \/ ProcessStep(e)
  PROVE  AInv'
<1>1. HInv'
  BY ServerHInv DEF AInv
<1> QED  BY <1>1, ServerAnswer, ServerDone, ServerEnd DEF AInv

\* The timeout answers and marks the buffer; after it nothing is promised.
LEMMA TimeoutAInv ==
  ASSUME AInv, NEW e \in Execs, TimeoutFires(e)
  PROVE  AInv'
<1>1. HInv'
  BY TimersHInv DEF AInv
<1>2. /\ UNCHANGED <<vars, buffered, carried, polling, cursor, got, poll>>
      /\ e \notin done /\ e \in waiting
      /\ waiting' = waiting \ {e} /\ done' = done \cup {e}
      /\ Resolve(e, "TIMEOUT")
  BY DEF TimeoutFires, clientVars
<1>3. \A f \in Execs : Outs(f)' = Outs(f) /\ Exits(f)' = Exits(f)
  BY <1>2, OutsStill
<1>4. UNCHANGED outcome
  BY <1>2 DEF vars
<1>5. \A f \in Execs : reply'[f] = IF f = e THEN "TIMEOUT" ELSE reply[f]
  <2>1. reply[e] = "none"
    BY <1>2 DEF AInv, DoneTied
  <2> QED  BY <1>2, <2>1 DEF Resolve, AInv, HInv, HttpTypeOK
<1>6. AnswerComplete'
  BY <1>2, <1>3, <1>4, <1>5 DEF AInv, AnswerComplete
<1>7. DoneTied'
  BY <1>2, <1>3, <1>4, <1>5 DEF AInv, DoneTied
<1>8. EndTied'
  BY <1>2, <1>3, <1>4, <1>5 DEF AInv, EndTied
<1> QED  BY <1>1, <1>6, <1>7, <1>8 DEF AInv

\* The start of a polling and a new poll.
LEMMA PollingAInv ==
  ASSUME AInv, NEW e \in Execs,
         StartPolling(e) \/ \E p \in Polls : SendPoll(p, e)
  PROVE  AInv'
<1>1. HInv'
  BY TimersHInv DEF AInv
<1>2. UNCHANGED <<vars, serverVars, got>>
  BY DEF StartPolling, SendPoll
<1>3. \A f \in Execs : Outs(f)' = Outs(f) /\ Exits(f)' = Exits(f)
  BY <1>2, OutsStill
<1>4. \A f \in Execs : polling'[f] = "off" => polling[f] = "off"
  BY DEF StartPolling, SendPoll, AInv, HInv, HttpTypeOK
<1>5. \A q \in Polls : poll'[q].at = "answered" => poll'[q] = poll[q]
  BY DEF StartPolling, SendPoll, AInv, HInv, HttpTypeOK
<1>6. AnswerComplete'
  BY <1>2, <1>3 DEF AInv, AnswerComplete, vars, serverVars, bufferVars, hostVars
<1>7. DoneTied'
  BY <1>2, <1>3, <1>4 DEF AInv, DoneTied, vars, serverVars, bufferVars, hostVars
<1>8. EndTied'
  BY <1>2, <1>3, <1>4, <1>5 DEF AInv, EndTied, vars, serverVars, bufferVars, hostVars
<1> QED  BY <1>1, <1>6, <1>7, <1>8 DEF AInv

\* handlePoll forgets a buffer only if the client's cursor is at its end.
LEMMA ServeAInv ==
  ASSUME AInv, NEW p \in Polls, ServePoll(p)
  PROVE  AInv'
<1>1. HInv'
  BY ServeHInv DEF AInv
<1>2. /\ UNCHANGED <<vars, done, waiting, reply, carried, polling, got>>
      /\ poll[p].at = "sent"
  BY DEF ServePoll
<1>3. \A f \in Execs : Outs(f)' = Outs(f) /\ Exits(f)' = Exits(f)
  BY <1>2, OutsStill
<1>4. PICK e, from : e = poll[p].exec /\ from = poll[p].from
  OBVIOUS
<1>5. /\ e \in Execs
      /\ 1..from \subseteq got[e]
      /\ got[e] \subseteq 1..Outs(e)
  BY <1>2, <1>4 DEF AInv, HInv, PollTied, OutputTied
<1>6. \A f \in Execs : f \notin buffered' =>
        f \notin buffered \/ (f = e /\ e \in done /\ Outs(e) = from)
  BY <1>4 DEF ServePoll
<1>7. \A q \in Polls :
        \/ poll'[q] = poll[q]
        \/ poll'[q].exec = e
             /\ (poll'[q].verdict = "done" => poll'[q].next = Outs(e))
  BY <1>4 DEF ServePoll, AInv, HInv, HttpTypeOK
<1>8. AnswerComplete'
  BY <1>2, <1>3 DEF AInv, AnswerComplete, vars
<1>9. DoneTied'
  BY <1>2, <1>3, <1>6 DEF AInv, DoneTied, vars
<1>10. EndTied'
  <2>1. Outs(e) = from => got[e] = 1..Outs(e)
    BY <1>5
  <2> QED  BY <1>2, <1>3, <1>5, <1>6, <1>7, <2>1 DEF AInv, EndTied, vars
<1> QED  BY <1>1, <1>8, <1>9, <1>10 DEF AInv

\* The answer that stops the polling brings the last of the output.
LEMMA ArriveAInv ==
  ASSUME AInv, NEW p \in Polls, Arrive(p)
  PROVE  AInv'
<1>1. HInv'
  BY ArriveHInv DEF AInv
<1>2. UNCHANGED <<vars, serverVars>> /\ poll[p].at = "answered"
  BY DEF Arrive
<1>3. \A f \in Execs : Outs(f)' = Outs(f) /\ Exits(f)' = Exits(f)
  BY <1>2, OutsStill
<1>4. PICK e : e = poll[p].exec
  OBVIOUS
<1>5. e \in Execs /\ (poll[p].verdict = "done" => e \in done)
  BY <1>2, <1>4 DEF AInv, HInv, PollTied
<1>6. \A f \in Execs : got[f] \subseteq got'[f]
  BY <1>4, <1>5 DEF Arrive, AInv, HInv, HttpTypeOK
<1>7. \A f \in Execs :
        polling'[f] = "off" =>
          \/ polling[f] = "off"
          \/ f = e /\ poll[p].verdict = "done" /\ cursor'[e] = poll[p].next
  BY <1>4, <1>5 DEF Arrive, AInv, HInv, HttpTypeOK
<1>8. \A q \in Polls : poll'[q].at = "answered" => poll'[q] = poll[q]
  BY DEF Arrive, IdlePoll, AInv, HInv, HttpTypeOK
<1>9. AnswerComplete'
  BY <1>2, <1>3 DEF AInv, AnswerComplete, vars, serverVars, bufferVars, hostVars
<1>10. DoneTied'
  BY <1>2, <1>3, <1>5, <1>7 DEF AInv, DoneTied, vars, serverVars, bufferVars, hostVars
<1>11. EndTied'
  <2>1. \A f \in Execs : got'[f] \subseteq 1..Outs(f)
                          /\ 1..cursor'[f] \subseteq got'[f]
    BY <1>1, <1>3 DEF HInv, OutputTied, NoGap
  <2>2. \A f \in Execs : got[f] = 1..Outs(f) => got'[f] = 1..Outs(f)
    BY <1>6, <2>1
  <2>3. e \notin Privileged /\ reply[e] # "TIMEOUT"
          /\ poll[p].verdict = "done" => poll[p].next = Outs(e)
    BY <1>2, <1>4, <1>5 DEF AInv, EndTied
  <2>4. \A f \in Execs \ Privileged :
          reply[f] # "TIMEOUT" /\ polling'[f] = "off" => got'[f] = 1..Outs(f)
    BY <1>7, <2>1, <2>2, <2>3 DEF AInv, EndTied
  <2> QED  BY <1>2, <1>3, <1>8, <2>2, <2>4
           DEF AInv, EndTied, vars, serverVars, bufferVars, hostVars
<1> QED  BY <1>1, <1>9, <1>10, <1>11 DEF AInv

\* A lost answer takes nothing from what the client has.
LEMMA LoseAInv ==
  ASSUME AInv, NEW p \in Polls, LosePoll(p)
  PROVE  AInv'
<1>1. HInv'
  BY LoseHInv DEF AInv
<1>2. UNCHANGED <<vars, serverVars, polling, got>>
  BY DEF LosePoll
<1>3. \A f \in Execs : Outs(f)' = Outs(f) /\ Exits(f)' = Exits(f)
  BY <1>2, OutsStill
<1>4. \A q \in Polls : poll'[q].at = "answered" => poll'[q] = poll[q]
  BY DEF LosePoll, IdlePoll, AInv, HInv, HttpTypeOK
<1>5. (AnswerComplete /\ DoneTied)'
  BY <1>2, <1>3 DEF AInv, AnswerComplete, DoneTied, vars, serverVars, bufferVars, hostVars
<1>6. EndTied'
  BY <1>2, <1>3, <1>4 DEF AInv, EndTied, vars, serverVars, bufferVars, hostVars
<1> QED  BY <1>1, <1>5, <1>6 DEF AInv

\* The end of the session changes nothing at either end.
LEMMA ExpireAInv ==
  ASSUME AInv, Expire
  PROVE  AInv'
<1>1. HInv'
  BY ExpireHInv DEF AInv
<1>2. UNCHANGED <<vars, bufferVars, clientVars>>
  BY DEF Expire
<1>3. \A f \in Execs : Outs(f)' = Outs(f) /\ Exits(f)' = Exits(f)
  BY <1>2, OutsStill
<1>4. (AnswerComplete /\ DoneTied)'
  BY <1>2, <1>3
  DEF AInv, AnswerComplete, DoneTied, vars, bufferVars, clientVars
<1>5. EndTied'
  BY <1>2, <1>3 DEF AInv, EndTied, vars, bufferVars, clientVars
<1> QED  BY <1>1, <1>4, <1>5 DEF AInv

\* Every step keeps the answers complete and the output remembered.
LEMMA HttpNextAInv == AInv /\ [HttpNext]_allVars => AInv'
<1> SUFFICES ASSUME AInv, [HttpNext]_allVars
             PROVE  AInv'
  OBVIOUS
<1>1. CASE UNCHANGED allVars
  <2>1. UNCHANGED vars /\ UNCHANGED httpVars
    BY <1>1 DEF allVars
  <2>2. HInv' /\ \A f \in Execs : Outs(f)' = Outs(f) /\ Exits(f)' = Exits(f)
    BY <1>1, <2>1, HttpNextHInv, OutsStill DEF AInv
  <2> QED  BY <2>1, <2>2
           DEF AInv, vars, httpVars, AnswerComplete, DoneTied, EndTied
<1>2. CASE HttpNext
  BY <1>2, ServerAInv, TimeoutAInv, PollingAInv, ServeAInv, ArriveAInv, LoseAInv,
     ExpireAInv
  DEF HttpNext
<1> QED  BY <1>1, <1>2

\* Why buffers are done, and what the client has when its polling ends, hold in
\* every reachable state.
LEMMA AnswersInductive == HttpSpec => []AInv
  BY HttpInitAInv, HttpNextAInv, PTL DEF HttpSpec, allVars

\* An invoke answered with an exit frame is answered with the whole output.
THEOREM AnswersComplete == HttpSpec => []AnswerComplete
<1>1. AInv => AnswerComplete
  BY DEF AInv
<1> QED  BY <1>1, AnswersInductive, PTL

\* Only a poll that has everything makes the server forget a buffer.
THEOREM ForgetsWhatWasRead == HttpSpec => ForgetsOnlyRead
<1>1. ASSUME HInv, [HttpNext]_allVars, NEW e \in Execs,
             e \in buffered, e \notin buffered'
      PROVE  got[e] = 1..Outs(e)
  <2>1. PICK p \in Polls : ServePoll(p)
    <3>1. HttpNext
      BY <1>1 DEF allVars, httpVars
    <3>2. ASSUME NEW f \in Execs,
                 \/ Invoke(f) \/ ProcessStep(f) \/ TimeoutFires(f)
                 \/ StartPolling(f) \/ \E p \in Polls : SendPoll(p, f)
          PROVE  buffered \subseteq buffered'
      BY <3>2 DEF Invoke, ProcessStep, OnExit, TimeoutFires, StartPolling,
                  SendPoll, serverVars, bufferVars
    <3>3. ASSUME NEW p \in Polls, Arrive(p) \/ LosePoll(p)
          PROVE  buffered \subseteq buffered'
      BY <3>3 DEF Arrive, LosePoll, serverVars, bufferVars
    <3>4. ASSUME Expire
          PROVE  buffered \subseteq buffered'
      BY <3>4 DEF Expire, bufferVars
    <3> QED  BY <1>1, <3>1, <3>2, <3>3, <3>4 DEF HttpNext
  <2>2. poll[p].exec = e /\ Outs(e) = poll[p].from /\ poll[p].at = "sent"
    BY <1>1, <2>1 DEF ServePoll
  <2>3. 1..poll[p].from \subseteq got[e] /\ got[e] \subseteq 1..Outs(e)
    BY <1>1, <2>2 DEF HInv, PollTied, OutputTied
  <2> QED  BY <2>2, <2>3
<1>2. HInv /\ [HttpNext]_allVars =>
        [\A e \in Execs : e \in buffered /\ e \notin buffered'
                              => got[e] = 1..Outs(e)]_<<vars, httpVars>>
  BY <1>1
<1> QED  BY <1>2, HttpInductive, PTL DEF HttpSpec, ForgetsOnlyRead, allVars

\* Neither the end of the polling nor the removal of the buffer costs the
\* client output, unless the invoke timed out.
THEOREM ForgetsNothing == HttpSpec => []NothingForgotten
<1>1. AInv => NothingForgotten
  BY DEF AInv, EndTied, NothingForgotten
<1> QED  BY <1>1, AnswersInductive, PTL

=============================================================================
