------------------------- MODULE ReplReconnectProofs -------------------------
(***************************************************************************)
(* Proofs about ReplReconnect, for any number of disconnect handlers,      *)
(* sessions and attempts.                                                  *)
(***************************************************************************)
EXTENDS ReplReconnect, FiniteSetTheorems, TLAPS

Stages == {"off", "info", "connect", "ready", "failed", "won", "gaveUp"}

ReplTypes ==
  /\ transport \in {"sse", "http"} /\ cached \in {"none", "valid", "stale"}
  /\ minted \in 0..MaxSessions
  /\ stage \in [Tasks -> Stages]
  /\ session \in [Tasks -> 0..MaxSessions]
  /\ at \in {"start", "prompt", "busy", "setting", "reconnecting", "over"}
  /\ target \in 0..MaxSessions
  /\ active \in 0..MaxSessions
  /\ watchers \in [Clients -> Nat]
  /\ closing \in BOOLEAN /\ missed \in BOOLEAN /\ ownRetry \in BOOLEAN
  /\ cwd \in {Root, Dest}
  /\ remoteCwd \in [Clients -> {Root, Dest}]
  /\ setting \subseteq Clients \X {Root, Dest}

\* The handlers that are replacing the active client.
Busy == {h \in Handlers : stage[h] # "off"}

\* Before the program has a client nothing watches one, nothing is sent to one,
\* and only the first connect has the cached session.  The loop runs a command
\* or connects.
Early ==
  /\ active = 0 => /\ at \in {"start", "over"} /\ Busy = {}
                   /\ \A c \in Clients : watchers[c] = 0
  /\ at = "start" => active = 0 /\ setting = {}
  /\ at \in {"busy", "setting"} => target # 0
  /\ at \in {"prompt", "busy", "setting"} => stage[Loop] = "off"
  /\ cached # "none" => active = 0 /\ \A t \in Tasks : session[t] = 0
  /\ cached = "valid" => minted = 1

\* Whoever connects has a session that nobody else has, that no client in use
\* has, and that nobody watches.
SessionsApart ==
  /\ active <= minted
  /\ \A c \in Clients : c > minted => watchers[c] = 0
  /\ \A t \in Tasks :
       /\ session[t] <= minted
       /\ session[t] # 0 <=> stage[t] \in {"connect", "ready"}
       /\ session[t] # 0 => /\ session[t] # active /\ watchers[session[t]] = 0
                            /\ \A u \in Tasks \ {t} : session[u] # session[t]

\* A cwd.set under way for the active session carries the directory shown.
CwdTied ==
  at \notin {"start", "over"} /\ ~missed =>
    IF \E s \in setting : s[1] = active
    THEN \A s \in setting : s[1] = active => s[2] = cwd
    ELSE remoteCwd[active] = cwd

IInv == ReplTypes /\ Early /\ SessionsApart /\ CwdTied /\ WatchedOnce

\* Nothing is connected, sent or watched before the first client.
LEMMA InitIInv == Init => IInv
<1> SUFFICES ASSUME Init
             PROVE  IInv
  OBVIOUS
<1> USE ReplAssumption DEF Init, NegotiateInit, Clients
<1>1. ReplTypes
  <2>1. remoteCwd \in [Clients -> {Root, Dest}]
    <3>1. PICK p \in {Root, Dest} : remoteCwd = [c \in Clients |-> IF c = 1 THEN p ELSE Root]
      OBVIOUS
    <3> QED  BY <3>1
  <2>2. /\ stage \in [Tasks -> Stages]
        /\ session \in [Tasks -> 0..MaxSessions]
        /\ watchers \in [Clients -> Nat]
    BY DEF Stages
  <2>3. /\ minted \in 0..MaxSessions
        /\ transport \in {"sse", "http"} /\ cached \in {"none", "valid", "stale"}
        /\ at = "start" /\ target = 0 /\ active = 0 /\ setting = {}
        /\ closing = FALSE /\ missed = FALSE /\ ownRetry = FALSE /\ cwd = Root
    OBVIOUS
  <2> QED  BY <2>1, <2>2, <2>3 DEF ReplTypes
<1>2. Early
  BY DEF Early, Busy
<1>3. SessionsApart
  BY DEF SessionsApart
<1>4. CwdTied /\ WatchedOnce
  BY DEF CwdTied, WatchedOnce
<1> QED  BY <1>1, <1>2, <1>3, <1>4 DEF IInv

\* Handlers are finitely many.
LEMMA BusyFinite ==
  IsFiniteSet(Busy) /\ Cardinality(Busy) \in Nat
<1>1. IsFiniteSet(Handlers)
  BY ReplAssumption
<1>2. Busy \in SUBSET Handlers
  BY DEF Busy
<1>3. IsFiniteSet(Busy)
  BY <1>1, <1>2, FS_Subset
<1> QED  BY <1>3, FS_CardinalityType

\* The count is the same as long as the same handlers run, on the same client.
LEMMA SameCount ==
  ASSUME WatchedOnce, Busy' = Busy, UNCHANGED <<transport, active, watchers>>,
         at' \notin {"start", "over"} => at \notin {"start", "over"},
         closing => closing', ownRetry => ownRetry'
  PROVE  WatchedOnce'
  BY DEF WatchedOnce, Busy

-----------------------------------------------------------------------------
(* The command loop, the start that fails and the end.                     *)

LoopMoves ==
  \/ StartFails \/ Quit \/ End \/ Reply \/ Answered \/ CwdSet \/ OtherError \/ NetworkError
  \/ Retry \/ LoopGivesUp \/ \E kind \in {"run", "cd"} : Line(kind)

\* What they leave alone.
LoopFrame ==
  /\ UNCHANGED <<transport, cached, minted, session, active, watchers, ownRetry,
                 remoteCwd>>
  /\ stage' \in [Tasks -> Stages]
  /\ \A h \in Handlers : stage'[h] = stage[h]
  /\ \A t \in Tasks : stage'[t] \in {"connect", "ready"}
                        <=> stage[t] \in {"connect", "ready"}
  /\ at' \in {"start", "prompt", "busy", "setting", "reconnecting", "over"}
  /\ at' = "start" => at = "start" /\ setting' = setting
  /\ at' \notin {"start", "over"} => at \notin {"start", "over"}
  /\ target' \in 0..MaxSessions
  /\ at' \in {"busy", "setting"} => target' # 0
  /\ at' \in {"prompt", "busy", "setting"} => stage'[Loop] = "off"
  /\ closing' \in BOOLEAN /\ (closing => closing')

\* Each of them stays within that frame.
LEMMA LoopMovesFrame ==
  ASSUME IInv, LoopMoves
  PROVE  LoopFrame
<1> SUFFICES ASSUME at # "start" \/ StartFails
             PROVE  LoopFrame
  BY DEF LoopMoves, Quit, End, Reply, Answered, CwdSet, OtherError, NetworkError, Retry,
         LoopGivesUp, Line
<1> USE ReplAssumption DEF LoopFrame, IInv, ReplTypes, Early, Stages, To, Prompt, cwdVars,
        clientVars, historyVars, loopVars, negotiateVars
<1>1. CASE StartFails
  BY <1>1 DEF StartFails
<1>2. CASE Quit
  BY <1>2 DEF Quit
<1>3. CASE End
  BY <1>3 DEF End
<1>4. CASE Answered
  BY <1>4 DEF Answered, SetCwd
<1>5. CASE CwdSet
  BY <1>5 DEF CwdSet
<1>6. CASE OtherError
  BY <1>6 DEF OtherError
<1>7. CASE NetworkError
  <2>1. CASE retrying
    BY <1>7, <2>1 DEF NetworkError
  <2>2. CASE ~retrying
    BY <1>7, <2>2 DEF NetworkError
  <2> QED  BY <2>1, <2>2
<1>8. CASE Retry
  BY <1>8 DEF Retry
<1>9. CASE LoopGivesUp
  BY <1>9 DEF LoopGivesUp
<1>10. ASSUME NEW kind \in {"run", "cd"}, Line(kind)
       PROVE  LoopFrame
  BY <1>10 DEF Line
<1>11. CASE Reply
  BY <1>11 DEF Reply
<1> QED  BY <1>1, <1>2, <1>3, <1>4, <1>5, <1>6, <1>7, <1>8, <1>9, <1>10, <1>11
         DEF LoopMoves

\* No command moves a session, a handler or a client.
LEMMA LoopIInv ==
  ASSUME IInv, LoopMoves
  PROVE  IInv'
<1>1. LoopFrame
  BY LoopMovesFrame
<1> USE ReplAssumption DEF IInv, LoopFrame
<1>2. /\ setting' \subseteq Clients \X {Root, Dest}
      /\ cwd' \in {Root, Dest} /\ missed' \in BOOLEAN
  <2>1. CASE UNCHANGED <<cwd, setting, missed>>
    BY <2>1 DEF ReplTypes
  <2>2. CASE /\ Answered /\ cwd' = Dest /\ setting' = setting \cup {<<target, Dest>>}
             /\ missed' = (missed \/ target # active \/ Overlaps(target))
    <3>1. <<target, Dest>> \in Clients \X {Root, Dest}
      BY <2>2 DEF Answered, ReplTypes, Early, Clients
    <3>2. missed' \in BOOLEAN
      BY <2>2 DEF ReplTypes, Overlaps
    <3> QED  BY <2>2, <3>1, <3>2 DEF ReplTypes
  <2>3. CASE OtherError
    BY <2>3 DEF OtherError, ReplTypes
  <2> QED
    BY <2>1, <2>2, <2>3
       DEF LoopMoves, StartFails, Quit, End, Reply, Answered, CwdSet, NetworkError,
           Retry, LoopGivesUp, Line, SetCwd, cwdVars
<1>3. ReplTypes'
  BY <1>1, <1>2 DEF ReplTypes
<1>4. Busy' = Busy
  BY <1>1 DEF Busy
<1>5. Early'
  BY <1>1, <1>4 DEF Early
<1>6. SessionsApart'
  BY <1>1 DEF SessionsApart
<1>7. CwdTied'
  <2>1. CASE Answered /\ UNCHANGED <<cwd, setting, missed>>
    BY <1>1, <2>1 DEF CwdTied
  <2>2. CASE /\ Answered /\ cwd' = Dest /\ setting' = setting \cup {<<target, Dest>>}
             /\ missed' = (missed \/ target # active \/ Overlaps(target))
    <3> SUFFICES ASSUME ~missed'
                 PROVE  CwdTied'
      BY DEF CwdTied
    <3>1. target = active /\ \A s \in setting : s[1] # active
      BY <2>2 DEF Overlaps
    <3>2. setting' = setting \cup {<<active, Dest>>}
      BY <2>2, <3>1
    <3>3. <<active, Dest>> \in setting' /\ <<active, Dest>>[1] = active
      BY <3>2
    <3>4. \A s \in setting' : s[1] = active => s[2] = Dest
      BY <3>1, <3>2
    <3> HIDE DEF IInv
    <3> QED  BY <1>1, <2>2, <3>3, <3>4 DEF CwdTied
  <2>3. CASE OtherError
    <3>1. CASE UNCHANGED <<setting, missed>>
      BY <1>1, <2>3, <3>1 DEF CwdTied, OtherError
    <3>2. CASE /\ setting' = setting \ {<<target, Dest>>}
               /\ missed' = (missed \/ target = active)
      <4> SUFFICES ASSUME ~missed'
                   PROVE  CwdTied'
        BY DEF CwdTied
      <4>1. target # active /\ ~missed
        BY <3>2
      <4>2. <<target, Dest>>[1] = target
        OBVIOUS
      <4>3. \A s : s[1] = active => (s \in setting' <=> s \in setting)
        BY <3>2, <4>1, <4>2
      <4>4. UNCHANGED <<active, cwd, remoteCwd>>
        BY <1>1, <2>3 DEF OtherError
      <4> QED  BY <1>1, <4>1, <4>3, <4>4 DEF CwdTied
    <3> QED  BY <2>3, <3>1, <3>2 DEF OtherError
  <2>4. CASE UNCHANGED <<cwd, setting, missed>>
    BY <1>1, <2>4 DEF CwdTied
  <2> QED
    BY <2>1, <2>2, <2>3, <2>4
       DEF LoopMoves, StartFails, Quit, End, Reply, Answered, CwdSet, NetworkError,
           Retry, LoopGivesUp, Line, SetCwd, cwdVars
<1>8. WatchedOnce'
  BY <1>1, <1>4, SameCount
<1> QED  BY <1>3, <1>5, <1>6, <1>7, <1>8

-----------------------------------------------------------------------------
(* Connecting.                                                             *)

\* The first client gets its handler.
LEMMA StartedIInv ==
  ASSUME IInv, Started
  PROVE  IInv'
<1> USE ReplAssumption DEF IInv, Started, Leaves, To, historyVars, Clients
<1>1. session[Loop] \in Clients /\ Loop \in Tasks
  BY DEF ReplTypes, SessionsApart
<1>2. ReplTypes'
  <2>1. /\ stage' \in [Tasks -> Stages]
        /\ session' \in [Tasks -> 0..MaxSessions]
        /\ watchers' \in [Clients -> Nat]
    BY <1>1 DEF ReplTypes, Stages
  <2>2. cwd' \in {Root, Dest} /\ missed' \in BOOLEAN
    BY <1>1 DEF ReplTypes
  <2> QED  BY <1>1, <2>1, <2>2 DEF ReplTypes
<1>3. Busy = {} /\ Busy' = Busy /\ active = 0 /\ setting = {}
  BY DEF Early, Busy, ReplTypes
<1>4. Early'
  BY <1>1, <1>3 DEF Early, ReplTypes
<1>5. SessionsApart'
  BY <1>1, <1>3 DEF SessionsApart, ReplTypes, Early
<1>6. CwdTied'
  BY <1>3 DEF CwdTied
<1>7. WatchedOnce'
  <2>1. watchers'[active'] = 1 /\ \A c \in Clients \ {active'} : watchers'[c] = 0
    BY <1>1, <1>3 DEF Early, ReplTypes
  <2>2. Cardinality(Busy') = 0
    BY <1>3, FS_EmptySet
  <2>3. Busy' = {h \in Handlers : stage'[h] # "off"}
    BY DEF Busy
  <2> QED  BY <2>1, <2>2, <2>3 DEF WatchedOnce
<1> QED  BY <1>2, <1>4, <1>5, <1>6, <1>7

\* What negotiate leaves alone, and what it does to the task's session.
NegotiateFrame(t) ==
  /\ UNCHANGED <<transport, active, watchers, ownRetry, closing, at, target>>
  /\ UNCHANGED cwdVars
  /\ cached' \in {cached, "none"}
  /\ minted' \in 0..MaxSessions /\ minted <= minted'
  /\ cached' = "valid" => minted' = minted
  /\ stage[t] \in {"info", "connect"}
  /\ stage' = [stage EXCEPT ![t] = stage'[t]]
  /\ stage'[t] \in {"info", "connect", "ready", "failed"}
  /\ session' = [session EXCEPT ![t] = session'[t]]
  /\ session'[t] # 0 <=> stage'[t] \in {"connect", "ready"}
  /\ \/ session'[t] \in {0, session[t]}
     \/ cached = "valid" /\ cached' = "none" /\ session'[t] = 1
     \/ cached' = "none" /\ session'[t] = minted + 1 /\ minted' = minted + 1

\* Each step of negotiate stays within that frame.
LEMMA NegotiatesFrame ==
  ASSUME IInv, NEW t \in Tasks, NegotiateStep(t),
         UNCHANGED <<loopVars, cwdVars, clientVars, attempt>>
  PROVE  NegotiateFrame(t)
<1> USE ReplAssumption DEF NegotiateFrame, IInv, ReplTypes, SessionsApart, Early, To,
        Leaves, loopVars, clientVars, historyVars
<1>1. CASE fetchServerInfo(t)
  <2>1. session[t] = 0 /\ session' = session
    BY <1>1 DEF fetchServerInfo
  <2>2. session' = [session EXCEPT ![t] = session'[t]]
    BY <2>1
  <2>3. stage' = [stage EXCEPT ![t] = stage'[t]] /\ stage'[t] = "failed"
    BY <1>1 DEF fetchServerInfo
  <2>4. stage[t] = "info" /\ UNCHANGED <<transport, cached, minted, streams>>
    BY <1>1 DEF fetchServerInfo
  <2> QED  BY <2>1, <2>2, <2>3, <2>4
<1>2. CASE validateSession(t)
  BY <1>2 DEF validateSession
<1>3. CASE authenticate(t)
  BY <1>3 DEF authenticate
<1>4. CASE Connect(t)
  <2>1. CASE transport = "http"
    BY <1>4, <2>1 DEF Connect
  <2>2. CASE transport # "http"
    BY <1>4, <2>2 DEF Connect
  <2> QED  BY <2>1, <2>2
<1> QED  BY <1>1, <1>2, <1>3, <1>4 DEF NegotiateStep

\* A session in the making is new: it is apart from all the others.
LEMMA NegotiatesIInv ==
  ASSUME IInv, NEW t \in Tasks, Negotiates(t)
  PROVE  IInv'
<1>1. NegotiateFrame(t)
  BY NegotiatesFrame DEF Negotiates
<1>2. UNCHANGED <<active, watchers, cwd, remoteCwd, setting, missed, transport,
                  ownRetry, closing, at, target>>
  BY <1>1 DEF NegotiateFrame, cwdVars
<1>3. /\ session' = [session EXCEPT ![t] = session'[t]]
      /\ stage' = [stage EXCEPT ![t] = stage'[t]]
      /\ minted <= minted' /\ minted \in Nat /\ minted' \in 0..MaxSessions
      /\ cached' \in {"none", "valid", "stale"}
      /\ session \in [Tasks -> 0..MaxSessions] /\ stage \in [Tasks -> Stages]
      /\ watchers \in [Clients -> Nat] /\ active \in 0..MaxSessions
  BY <1>1 DEF NegotiateFrame, IInv, ReplTypes
<1>4. /\ session'[t] \in 0..minted'
      /\ session'[t] # 0 => /\ session'[t] # active /\ watchers[session'[t]] = 0
                            /\ \A u \in Tasks \ {t} : session[u] # session'[t]
  <2>1. CASE session'[t] \in {0, session[t]}
    BY <1>3, <2>1 DEF IInv, SessionsApart
  <2>2. CASE cached = "valid" /\ session'[t] = 1
    <3>1. active = 0 /\ minted = 1 /\ \A u \in Tasks : session[u] = 0
      BY <2>2 DEF IInv, Early
    <3>2. \A c \in Clients : watchers[c] = 0
      BY <3>1 DEF IInv, Early
    <3>3. 1 \in Clients /\ 1 \in 0..minted'
      BY <1>3, <3>1, ReplAssumption DEF Clients
    <3> QED  BY <2>2, <3>1, <3>2, <3>3
  <2>3. CASE session'[t] = minted + 1 /\ minted' = minted + 1
    <3>1. minted + 1 \in Clients /\ minted + 1 > minted
      BY <1>3, <2>3, ReplAssumption DEF Clients
    <3>2. active <= minted /\ watchers[minted + 1] = 0
          /\ \A u \in Tasks : session[u] <= minted
      BY <3>1 DEF IInv, SessionsApart
    <3> QED  BY <1>3, <2>3, <3>1, <3>2
  <2> QED  BY <1>1, <2>1, <2>2, <2>3 DEF NegotiateFrame
<1>5. ReplTypes'
  <2>1. stage'[t] \in Stages /\ session'[t] \in 0..MaxSessions
    BY <1>1, <1>3, <1>4, ReplAssumption DEF NegotiateFrame, Stages
  <2>2. stage' \in [Tasks -> Stages] /\ session' \in [Tasks -> 0..MaxSessions]
    BY <1>3, <2>1
  <2> QED  BY <1>2, <1>3, <2>2 DEF IInv, ReplTypes
<1>6. Busy' = Busy
  <2>1. ASSUME NEW h \in Handlers  PROVE stage'[h] # "off" <=> stage[h] # "off"
    BY <1>1, <1>3, ReplAssumption DEF NegotiateFrame
  <2> QED  BY <2>1 DEF Busy
<1>7. Early'
  <2>1. cached' # "none" => session'[t] = 0
    BY <1>1, <1>3, ReplAssumption DEF NegotiateFrame, IInv, Early
  <2>2. cached' # "none" => cached = cached'
    BY <1>1 DEF NegotiateFrame
  <2>3. cached' = "valid" => minted' = 1
    BY <1>1, <2>2 DEF NegotiateFrame, IInv, Early
  <2>4. at \in {"prompt", "busy", "setting"} => stage'[Loop] = "off"
    BY <1>1, <1>3, ReplAssumption DEF NegotiateFrame, IInv, Early
  <2> QED  BY <1>2, <1>3, <1>6, <2>1, <2>2, <2>3, <2>4 DEF IInv, Early
<1>8. SessionsApart'
  <2>1. active' <= minted'
    BY <1>2, <1>3 DEF IInv, SessionsApart
  <2>2. \A c \in Clients : c > minted' => watchers'[c] = 0
    BY <1>2, <1>3 DEF IInv, SessionsApart, Clients
  <2>3. ASSUME NEW u \in Tasks
        PROVE  /\ session'[u] <= minted'
               /\ session'[u] # 0 <=> stage'[u] \in {"connect", "ready"}
               /\ session'[u] # 0 =>
                    /\ session'[u] # active' /\ watchers'[session'[u]] = 0
                    /\ \A v \in Tasks \ {u} : session'[v] # session'[u]
    <3>1. CASE u = t
      BY <1>1, <1>2, <1>3, <1>4, <3>1 DEF NegotiateFrame
    <3>2. CASE u # t
      BY <1>2, <1>3, <1>4, <3>2 DEF IInv, SessionsApart
    <3> QED  BY <3>1, <3>2
  <2> QED  BY <2>1, <2>2, <2>3 DEF SessionsApart
<1>9. CwdTied'
  BY <1>2 DEF IInv, CwdTied
<1>10. WatchedOnce'
  BY <1>2, <1>6, SameCount DEF IInv
<1> QED  BY <1>5, <1>7, <1>8, <1>9, <1>10 DEF IInv

\* The new client replaces the old one, which nobody watches any more.
LEMMA ReconnectedIInv ==
  ASSUME IInv, NEW t \in Tasks, Reconnected(t)
  PROVE  IInv'
<1> USE ReplAssumption DEF IInv, Reconnected, Leaves, To, Clients
<1>1. session[t] \in Clients /\ session[t] <= minted /\ active' = session[t]
  BY DEF ReplTypes, SessionsApart
<1>2. UNCHANGED <<transport, cached, minted, at, target, cwd, remoteCwd, watchers,
                  closing>>
  BY DEF loopVars
<1>3. ReplTypes'
  <2>1. stage' \in [Tasks -> Stages] /\ session' \in [Tasks -> 0..MaxSessions]
    BY DEF ReplTypes, Stages
  <2>2. <<session[t], cwd>> \in Clients \X {Root, Dest}
    BY <1>1 DEF ReplTypes
  <2>3. /\ setting' \subseteq Clients \X {Root, Dest}
        /\ missed' \in BOOLEAN /\ ownRetry' \in BOOLEAN /\ active' \in 0..MaxSessions
    BY <1>1, <2>2 DEF SetCwd, Overlaps, ReplTypes
  <2> QED  BY <1>2, <2>1, <2>3 DEF ReplTypes
<1>4. t \in Handlers => Busy' = Busy
  BY DEF Busy, ReplTypes
<1>5. Early'
  <2>1. active' # 0 /\ cached = "none" /\ at # "start"
    BY <1>1 DEF Early
  <2>2. at \in {"prompt", "busy", "setting"} => stage'[Loop] = "off"
    BY DEF Early, ReplTypes
  <2>3. at \in {"busy", "setting"} => target # 0
    BY DEF Early
  <2> QED  BY <1>2, <2>1, <2>2, <2>3 DEF Early
<1>6. SessionsApart'
  <2>1. /\ session' = [session EXCEPT ![t] = 0]
        /\ \A u \in Tasks : u # t => session'[u] = session[u] /\ stage'[u] = stage[u]
        /\ session'[t] = 0 /\ stage'[t] = "won"
    BY DEF ReplTypes
  <2> QED  BY <1>1, <1>2, <2>1 DEF SessionsApart, ReplTypes
<1>7. CwdTied'
  <2> SUFFICES ASSUME ~missed'
               PROVE  CwdTied'
    BY DEF CwdTied
  <2>1. \A s \in setting : s[1] # session[t]
    BY DEF Overlaps
  <2>2. setting' = setting \cup {<<session[t], cwd>>}
    BY DEF SetCwd
  <2>3. /\ <<active', cwd>> \in setting' /\ <<active', cwd>>[1] = active'
        /\ \A s \in setting' : s[1] = active' => s[2] = cwd
    BY <1>1, <2>1, <2>2
  <2> HIDE DEF IInv, Reconnected
  <2> QED  BY <1>2, <2>3 DEF CwdTied
<1>8. WatchedOnce'
  <2> SUFFICES ASSUME (transport = "sse" /\ at \notin {"start", "over"} /\ ~closing)',
                      ~ownRetry'
               PROVE  /\ watchers'[active'] + Cardinality(Busy') = 1
                      /\ \A c \in Clients \ {active'} : watchers'[c] = 0
    BY DEF WatchedOnce, Busy
  <2>1. t \in Handlers /\ ~ownRetry
    OBVIOUS
  <2>2. /\ watchers[active] + Cardinality(Busy) = 1
        /\ \A c \in Clients \ {active} : watchers[c] = 0
    BY <1>2, <2>1 DEF WatchedOnce, Busy
  <2>3. Cardinality(Busy) # 0 /\ Cardinality(Busy) \in Nat
    <3>1. t \in Busy
      BY <2>1 DEF Busy
    <3> QED  BY <3>1, BusyFinite, FS_EmptySet
  <2>4. active \in Clients /\ watchers \in [Clients -> Nat]
    BY <1>2 DEF Early, ReplTypes
  <2>5. watchers[active] = 0 /\ Cardinality(Busy) = 1
    BY <2>2, <2>3, <2>4
  <2> HIDE DEF IInv, Reconnected
  <2> QED  BY <1>1, <1>2, <1>4, <2>1, <2>2, <2>4, <2>5
<1> QED  BY <1>3, <1>5, <1>6, <1>7, <1>8

\* Another attempt, or none: nothing else moves.
LEMMA AttemptFailedIInv ==
  ASSUME IInv, NEW t \in Tasks, AttemptFailed(t)
  PROVE  IInv'
<1> USE ReplAssumption DEF IInv, AttemptFailed, To
<1>1. UNCHANGED <<transport, cached, minted, session, at, target, cwd, remoteCwd,
                  setting, missed, active, watchers, closing, ownRetry>>
  BY DEF loopVars, cwdVars, clientVars, historyVars
<1>2. /\ stage' = [stage EXCEPT ![t] = stage'[t]] /\ stage[t] = "failed"
      /\ stage'[t] \in {"info", "gaveUp"} /\ at # "start"
  BY DEF ReplTypes
<1> HIDE DEF AttemptFailed
<1>3. ReplTypes'
  BY <1>1, <1>2 DEF ReplTypes, Stages
<1>4. Busy' = Busy
  BY <1>2 DEF Busy, ReplTypes
<1>5. Early'
  BY <1>1, <1>2, <1>4 DEF Early, ReplTypes
<1>6. SessionsApart'
  BY <1>1, <1>2 DEF SessionsApart, ReplTypes
<1>7. CwdTied'
  BY <1>1 DEF CwdTied
<1>8. WatchedOnce'
  BY <1>1, <1>4, SameCount
<1> QED  BY <1>3, <1>5, <1>6, <1>7, <1>8

-----------------------------------------------------------------------------
(* Disconnect handlers and the server.                                     *)

\* Every handler of the lost client runs: the count moves from one term to the
\* other.
LEMMA StreamLostIInv ==
  ASSUME IInv, NEW c \in Clients, StreamLost(c)
  PROVE  IInv'
<1> USE ReplAssumption DEF IInv, Clients
<1>1. UNCHANGED <<transport, cached, minted, session, at, target, cwd, remoteCwd,
                  setting, missed, active, closing, ownRetry>>
  BY DEF StreamLost, loopVars, cwdVars
<1>2. PICK run \in SUBSET {h \in Handlers : stage[h] = "off"} :
        /\ Cardinality(run) = IF closing THEN 0 ELSE watchers[c]
        /\ stage' = [t \in Tasks |-> IF t \in run THEN "info" ELSE stage[t]]
  BY DEF StreamLost
<1>3. watchers' = [watchers EXCEPT ![c] = 0]
  BY DEF StreamLost
<1>4. run \subseteq Handlers /\ IsFiniteSet(run)
  BY <1>2, FS_Subset
<1>5. ReplTypes'
  <2>1. stage' \in [Tasks -> Stages] /\ watchers' \in [Clients -> Nat]
    BY <1>2, <1>3 DEF ReplTypes, Stages
  <2> QED  BY <1>1, <2>1 DEF ReplTypes
<1>6. Busy' = Busy \cup run
  BY <1>2, <1>4 DEF Busy
<1>7. watchers[c] = 0 => run = {}
  BY <1>2, <1>4, FS_EmptySet
<1>8. Early'
  <2>1. active = 0 => Busy' = {}
    BY <1>6, <1>7 DEF Early
  <2>2. stage'[Loop] = stage[Loop]
    BY <1>2, <1>4
  <2> QED  BY <1>1, <1>3, <2>1, <2>2 DEF Early, ReplTypes
<1>9. SessionsApart'
  <2>1. \A t \in Tasks : stage'[t] \in {"connect", "ready"}
                           <=> stage[t] \in {"connect", "ready"}
    BY <1>2
  <2>2. \A d \in Clients : watchers[d] = 0 => watchers'[d] = 0
    BY <1>3 DEF ReplTypes
  <2> QED  BY <1>1, <2>1, <2>2 DEF SessionsApart, ReplTypes
<1>10. CwdTied'
  BY <1>1 DEF CwdTied
<1>11. WatchedOnce'
  <2> SUFFICES ASSUME transport = "sse", at \notin {"start", "over"}, ~closing,
                      ~ownRetry
               PROVE  /\ watchers'[active] + Cardinality(Busy') = 1
                      /\ \A d \in Clients \ {active} : watchers'[d] = 0
    BY <1>1 DEF WatchedOnce, Busy
  <2>1. /\ watchers[active] + Cardinality(Busy) = 1
        /\ \A d \in Clients \ {active} : watchers[d] = 0
    BY DEF WatchedOnce, Busy
  <2>2. active \in Clients /\ watchers \in [Clients -> Nat]
    BY DEF Early, ReplTypes
  <2>3. \A d \in Clients \ {active} : watchers'[d] = 0
    BY <1>3, <2>1, <2>2
  <2>4. CASE c = active
    <3>1. Busy \cap run = {}
      BY <1>2 DEF Busy
    <3>2. Cardinality(Busy') = Cardinality(Busy) + Cardinality(run)
      <4>1. Cardinality(Busy \cup run)
              = Cardinality(Busy) + Cardinality(run) - Cardinality(Busy \cap run)
        BY <1>4, BusyFinite, FS_Union
      <4>2. Cardinality(Busy \cap run) = 0
        BY <3>1, FS_EmptySet
      <4>3. Cardinality(run) \in Nat
        BY <1>4, FS_CardinalityType
      <4> QED  BY <1>6, <4>1, <4>2, <4>3, BusyFinite
    <3>3. Cardinality(run) = watchers[active] /\ watchers'[active] = 0
      BY <1>2, <1>3, <2>2, <2>4
    <3> QED  BY <2>1, <2>2, <2>3, <3>2, <3>3, BusyFinite
  <2>5. CASE c # active
    <3>1. Busy' = Busy /\ watchers'[active] = watchers[active]
      BY <1>3, <1>6, <1>7, <2>1, <2>2, <2>5
    <3> QED  BY <2>1, <2>3, <3>1
  <2> QED  BY <2>4, <2>5
<1> QED  BY <1>5, <1>8, <1>9, <1>10, <1>11

\* The handler that is done watches the client that is active by now.
LEMMA HandlerRegistersIInv ==
  ASSUME IInv, NEW h \in Handlers, HandlerRegisters(h)
  PROVE  IInv'
<1> USE ReplAssumption DEF IInv, Clients
<1>1. UNCHANGED <<transport, cached, minted, session, at, target, cwd, remoteCwd,
                  setting, missed, active, closing, ownRetry>>
  BY DEF HandlerRegisters, loopVars, cwdVars, historyVars
<1>2. /\ stage[h] = "won" /\ stage' = [stage EXCEPT ![h] = "off"]
      /\ watchers' = [watchers EXCEPT ![active] = @ + 1]
  BY DEF HandlerRegisters, To
<1>3. h \in Busy /\ active \in Clients
  BY <1>2 DEF Busy, Early, ReplTypes
<1>4. Busy' = Busy \ {h}
  BY <1>2 DEF Busy, ReplTypes
<1>5. ReplTypes'
  <2>1. stage' \in [Tasks -> Stages] /\ watchers' \in [Clients -> Nat]
    BY <1>2, <1>3 DEF ReplTypes, Stages
  <2> QED  BY <1>1, <2>1 DEF ReplTypes
<1>6. Early'
  BY <1>1, <1>2, <1>3 DEF Early, ReplTypes
<1>7. SessionsApart'
  <2>1. \A t \in Tasks : stage'[t] \in {"connect", "ready"}
                           <=> stage[t] \in {"connect", "ready"}
    BY <1>2 DEF ReplTypes
  <2>2. \A d \in Clients \ {active} : watchers'[d] = watchers[d]
    BY <1>2 DEF ReplTypes
  <2> QED  BY <1>1, <1>3, <2>1, <2>2 DEF SessionsApart, ReplTypes
<1>8. CwdTied'
  BY <1>1 DEF CwdTied
<1>9. WatchedOnce'
  <2> SUFFICES ASSUME transport = "sse", at \notin {"start", "over"}, ~closing,
                      ~ownRetry
               PROVE  /\ watchers'[active] + Cardinality(Busy') = 1
                      /\ \A d \in Clients \ {active} : watchers'[d] = 0
    BY <1>1 DEF WatchedOnce, Busy
  <2>1. /\ watchers[active] + Cardinality(Busy) = 1
        /\ \A d \in Clients \ {active} : watchers[d] = 0
    BY DEF WatchedOnce, Busy
  <2>2. Cardinality(Busy') = Cardinality(Busy) - 1
    BY <1>3, <1>4, BusyFinite, FS_RemoveElement
  <2>3. /\ watchers'[active] = watchers[active] + 1 /\ watchers[active] \in Nat
        /\ \A d \in Clients \ {active} : watchers'[d] = watchers[d]
    BY <1>2, <1>3 DEF ReplTypes
  <2> QED  BY <2>1, <2>2, <2>3, BusyFinite
<1> QED  BY <1>5, <1>6, <1>7, <1>8, <1>9

\* A handler that gives up ends the program.
LEMMA HandlerGivesUpIInv ==
  ASSUME IInv, NEW h \in Handlers, HandlerGivesUp(h)
  PROVE  IInv'
<1> USE ReplAssumption DEF IInv
<1>1. UNCHANGED <<transport, cached, minted, session, at, target, cwd, remoteCwd,
                  setting, missed, active, watchers, ownRetry>>
  BY DEF HandlerGivesUp, loopVars, cwdVars, historyVars
<1>2. stage[h] = "gaveUp" /\ stage' = [stage EXCEPT ![h] = "off"] /\ closing' = TRUE
  BY DEF HandlerGivesUp, To
<1>3. ReplTypes'
  BY <1>1, <1>2 DEF ReplTypes, Stages
<1>4. Busy' \subseteq Busy
  BY <1>2 DEF Busy, ReplTypes
<1>5. Early'
  BY <1>1, <1>2, <1>4 DEF Early, ReplTypes
<1>6. SessionsApart'
  BY <1>1, <1>2 DEF SessionsApart, ReplTypes
<1>7. CwdTied' /\ WatchedOnce'
  BY <1>1, <1>2 DEF CwdTied, WatchedOnce
<1> QED  BY <1>3, <1>5, <1>6, <1>7

\* The server sets the directory it was asked to set, or it was asked in vain.
LEMMA ServeCwdIInv ==
  ASSUME IInv, NEW s \in setting, ServeCwd(s)
  PROVE  IInv'
<1> USE DEF IInv
<1>1. UNCHANGED <<transport, cached, minted, stage, session, at, target, cwd, active,
                  watchers, closing, ownRetry>>
  BY DEF ServeCwd, loopVars, clientVars, historyVars, negotiateVars
<1>2. /\ setting' = setting \ {s}
      /\ \/ remoteCwd' = [remoteCwd EXCEPT ![s[1]] = s[2]] /\ missed' = missed
         \/ missed' = (missed \/ s[1] = active) /\ remoteCwd' = remoteCwd
  BY DEF ServeCwd
<1>3. s \in Clients \X {Root, Dest}
  BY DEF ReplTypes
<1>4. s = <<s[1], s[2]>> /\ s[1] \in Clients /\ s[2] \in {Root, Dest}
  BY <1>3
<1>5. ReplTypes'
  BY <1>1, <1>2, <1>4 DEF ReplTypes
<1>6. Busy' = Busy
  BY <1>1 DEF Busy
<1>7. Early' /\ SessionsApart'
  BY <1>1, <1>2, <1>6 DEF Early, SessionsApart
<1>8. CwdTied'
  <2> SUFFICES ASSUME ~missed', at \notin {"start", "over"}
               PROVE  IF \E r \in setting' : r[1] = active
                      THEN \A r \in setting' : r[1] = active => r[2] = cwd
                      ELSE remoteCwd'[active] = cwd
    BY <1>1 DEF CwdTied
  <2>1. /\ ~missed
        /\ s[1] = active => remoteCwd' = [remoteCwd EXCEPT ![s[1]] = s[2]]
    <3>1. CASE missed' = missed /\ remoteCwd' = [remoteCwd EXCEPT ![s[1]] = s[2]]
      BY <3>1
    <3>2. CASE missed' = (missed \/ s[1] = active)
      BY <3>2
    <3> QED  BY <1>2, <3>1, <3>2
  <2>2. CASE s[1] # active
    <3>1. remoteCwd'[active] = remoteCwd[active]
      <4>1. CASE remoteCwd' = remoteCwd
        BY <4>1
      <4>2. CASE remoteCwd' = [remoteCwd EXCEPT ![s[1]] = s[2]]
        BY <1>4, <2>2, <4>2 DEF ReplTypes
      <4> QED  BY <1>2, <4>1, <4>2
    <3>2. \A r \in setting : r[1] = active => r \in setting'
      BY <1>2, <2>2
    <3> QED  BY <1>2, <2>1, <3>1, <3>2 DEF CwdTied
  <2>3. CASE s[1] = active
    <3>1. \A r \in setting : r[1] = active => r[2] = cwd
      BY <2>1, <2>3 DEF CwdTied
    <3>2. \A r \in setting : r[1] = active => r = s
      <4>1. \A r \in setting : r = <<r[1], r[2]>>
        BY DEF ReplTypes
      <4> QED  BY <1>4, <2>3, <3>1, <4>1
    <3>3. remoteCwd'[active] = cwd
      BY <1>4, <2>1, <2>3, <3>1 DEF ReplTypes
    <3> QED  BY <1>2, <3>2, <3>3
  <2> QED  BY <2>2, <2>3
<1>9. WatchedOnce'
  BY <1>1, <1>6, SameCount
<1> QED  BY <1>5, <1>7, <1>8, <1>9

-----------------------------------------------------------------------------

\* Every step preserves the invariant.
LEMMA NextIInv == IInv /\ [Next]_vars => IInv'
<1> SUFFICES ASSUME IInv, [Next]_vars
             PROVE  IInv'
  OBVIOUS
<1>1. CASE UNCHANGED vars
  <2>1. UNCHANGED <<transport, cached, minted, stage, session, at, target, cwd, active,
                    remoteCwd, setting, missed, watchers, closing, ownRetry>>
    BY <1>1 DEF vars, negotiateVars, loopVars, cwdVars, clientVars, historyVars
  <2>2. Busy' = Busy
    BY <2>1 DEF Busy
  <2>3. WatchedOnce'
    BY <2>1, <2>2, SameCount DEF IInv
  <2>4. ReplTypes' /\ Early' /\ SessionsApart' /\ CwdTied'
    BY <2>1, <2>2 DEF IInv, ReplTypes, Early, SessionsApart, CwdTied
  <2> QED  BY <2>3, <2>4 DEF IInv
<1>2. ASSUME NEW t \in Tasks, TaskStep(t)
      PROVE  IInv'
  BY <1>2, NegotiatesIInv, ReconnectedIInv, AttemptFailedIInv, HandlerRegistersIInv,
     HandlerGivesUpIInv DEF TaskStep
<1>3. CASE LoopStep \/ Quit \/ Reply \/ OtherError \/ NetworkError
           \/ \E kind \in {"run", "cd"} : Line(kind)
  BY <1>3, StartedIInv, LoopIInv DEF LoopStep, LoopMoves
<1> QED  BY <1>1, <1>2, <1>3, StreamLostIInv, ServeCwdIInv DEF Next

\* The invariant holds in every reachable state of the client.
THEOREM Inductive == Spec => []IInv
  BY InitIInv, NextIInv, PTL DEF Spec

\* The prompt shows the working directory of the active session whenever no
\* request to change it is under way, but for what went wrong with that session's
\* since it became the active one.
THEOREM PromptTrue == Spec => []CwdAgrees
<1>1. IInv => CwdAgrees
  BY DEF IInv, CwdTied, CwdAgrees
<1> QED  BY <1>1, Inductive, PTL

\* One handler watches the active client, or is replacing it.
THEOREM OneWatcher == Spec => []WatchedOnce
<1>1. IInv => WatchedOnce  BY DEF IInv
<1> QED  BY <1>1, Inductive, PTL

=============================================================================
