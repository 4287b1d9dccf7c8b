--------------------------- MODULE AdminAuth_proofs ---------------------------
(***************************************************************************)
(* Proofs about AdminAuth for every number of requests, tokens, passwords  *)
(* and faults, every pair of lifetimes and every delay of a store call.    *)
(***************************************************************************)
EXTENDS AdminAuth, TLAPS

(* A login carries the hash of a password there has been.                  *)
HashRead ==
  \A c \in Callers : call[c].at \in {"verifying", "creating"} => call[c].hash # 0

IInv == TypeOK /\ HashRead

LEMMA CallTypes ==
  ASSUME TypeOK, NEW c \in Callers
  PROVE  /\ NoCall \in Calls
         /\ call[c] \in Calls
         /\ Return(c) => call' \in [Callers -> Calls]
         /\ \A s \in Steps : Goto(c, s) => call' \in [Callers -> Calls]
<1>1. NoCall \in Calls
  BY LifetimeAssumption DEF NoCall, Calls, Steps, Requests, Hashes
<1>2. call[c] \in Calls
  BY DEF TypeOK
<1>3. \A s \in Steps : Goto(c, s) => call' \in [Callers -> Calls]
  BY DEF TypeOK, Goto, Calls
<1>4. QED BY <1>1, <1>2, <1>3 DEF Return, TypeOK

(* The fields of a live session.                                           *)
LEMMA LiveType ==
  ASSUME TypeOK, NEW t \in Tokens, Live(t)
  PROVE  sessions[t] \in Sessions
BY DEF TypeOK, Live

(* A store call that is late by lag leaves at least IdleTicks - lag.       *)
LEMMA LagType ==
  ASSUME NEW lag \in 0..MaxLag
  PROVE  /\ IdleTicks - lag \in -MaxLag..IdleTicks
         /\ AbsoluteTicks - lag \in -MaxLag..AbsoluteTicks
BY LifetimeAssumption

LEMMA UsedType ==
  ASSUME NEW s \in Sessions, NEW lag \in 0..MaxLag
  PROVE  Used(s, lag) \in Sessions
<1>1. Latest(s.recent, IdleTicks - lag) \in -MaxLag..IdleTicks
  BY LagType DEF Sessions, Latest
<1>2. Refreshed(s, lag) \in Sessions /\ Refreshed(s, lag).recent = s.recent
  BY LagType DEF Sessions, Refreshed
<1>3. QED BY <1>1, <1>2 DEF Sessions, Used

LEMMA OlderType ==
  /\ \A n \in -MaxLag..IdleTicks : Older(n) \in -MaxLag..IdleTicks
  /\ \A n \in -MaxLag..AbsoluteTicks : Older(n) \in -MaxLag..AbsoluteTicks
BY LifetimeAssumption DEF Older

LEMMA InitInductive == Init => IInv
<1> SUFFICES ASSUME Init PROVE IInv
  OBVIOUS
<1>1. NoCall \in Calls
  BY LifetimeAssumption DEF NoCall, Calls, Steps, Requests, Hashes
<1>2. TypeOK
  <2>1. 0 \in 0..MaxPasswords /\ 0 \in 0..MaxFaults
    BY LifetimeAssumption
  <2>2. QED BY <1>1, <2>1 DEF Init, TypeOK, Hashes
<1>3. HashRead
  BY DEF Init, HashRead, NoCall
<1>4. QED BY <1>2, <1>3 DEF IInv

LEMMA NextTypes == IInv /\ [Next]_vars => TypeOK'
<1> SUFFICES ASSUME TypeOK, HashRead, [Next]_vars PROVE TypeOK'
  BY DEF IInv
<1>1. ASSUME NEW c \in Callers, Setup(c) PROVE TypeOK'
  BY <1>1, LifetimeAssumption DEF Setup, SetupAllowed, TypeOK, Hashes
<1>2. ASSUME NEW c \in Callers, NEW t \in Tokens, ReadForLogin(c, t) PROVE TypeOK'
  <2>1. [NoCall EXCEPT !.at = "verifying", !.token = t, !.hash = credential] \in Calls
    BY CallTypes DEF TypeOK, Calls, Steps
  <2>2. QED BY <1>2, <2>1 DEF ReadForLogin, TypeOK
<1>3. ASSUME NEW c \in Callers, NEW t \in Tokens, NEW r \in Requests, Present(c, t, r)
      PROVE  TypeOK'
  <2>1. [NoCall EXCEPT !.at = "finding", !.request = r, !.token = t] \in Calls
    BY CallTypes DEF Calls, Steps
  <2>2. QED BY <1>3, <2>1 DEF Present, TypeOK
<1>4. ASSUME NEW c \in Callers, Verify(c) PROVE TypeOK'
  BY <1>4, CallTypes DEF Verify, Steps, TypeOK
<1>5. ASSUME NEW c \in Callers, CreateSession(c) PROVE TypeOK'
  <2> DEFINE s == [idle |-> IdleTicks - call[c].lag,
                   absolute |-> AbsoluteTicks - call[c].lag,
                   hash |-> call[c].hash, late |-> call[c].hash # credential,
                   recent |-> IdleTicks - call[c].lag]
  <2>1. call[c].lag \in 0..MaxLag /\ call[c].hash \in 1..MaxPasswords
    BY <1>5, CallTypes, LifetimeAssumption DEF Calls, CreateSession, HashRead, Hashes
  <2>2. s \in Sessions
    BY <2>1, LagType DEF Sessions
  <2>3. sessions' = [sessions EXCEPT ![call[c].token] = s]
    BY <1>5 DEF CreateSession
  <2>4. sessions' \in [Tokens -> Sessions \cup {None, Gone}]
    BY <2>2, <2>3 DEF TypeOK
  <2>5. QED BY <1>5, <2>4, CallTypes DEF CreateSession, TypeOK
<1>6. ASSUME NEW c \in Callers, FindSession(c) PROVE TypeOK'
  <2> DEFINE t == call[c].token
             lag == call[c].lag
             good == Live(t) /\ ~Expired(sessions[t], lag)
  <2>1. lag \in 0..MaxLag
    BY CallTypes DEF Calls
  <2>2. CASE good
    <3>1. sessions' = [sessions EXCEPT ![t] = Used(@, lag)]
      BY <1>6, <2>2 DEF FindSession
    <3>2. t \in Tokens => Used(sessions[t], lag) \in Sessions
      BY <2>1, <2>2, LiveType, UsedType
    <3>3. sessions' \in [Tokens -> Sessions \cup {None, Gone}]
      BY <3>1, <3>2 DEF TypeOK
    <3>4. Admitted(c) \in Calls
      <4>1. 0 \in 0..MaxLag
        BY LifetimeAssumption
      <4>2. /\ [call[c] EXCEPT !.at = "deleting", !.lag = 0] \in Calls
            /\ [call[c] EXCEPT !.at = "reading", !.lag = 0] \in Calls
        BY <4>1, CallTypes DEF Calls, Steps
      <4>3. call[c].request \in Requests
        BY CallTypes DEF Calls
      <4>4. QED BY <4>2, <4>3, CallTypes DEF Admitted, Requests
    <3>5. call' = [call EXCEPT ![c] = Admitted(c)]
      BY <1>6, <2>2 DEF FindSession
    <3>6. QED BY <1>6, <3>3, <3>4, <3>5 DEF FindSession, TypeOK
  <2>3. CASE ~good
    <3>1. sessions' = [sessions EXCEPT ![t] = Gone] /\ Return(c)
      BY <1>6, <2>3 DEF FindSession
    <3>2. QED BY <1>6, <3>1, CallTypes DEF FindSession, TypeOK
  <2>4. QED BY <2>2, <2>3
<1>7. ASSUME NEW c \in Callers, DeleteSession(c) PROVE TypeOK'
  BY <1>7, CallTypes DEF DeleteSession, TypeOK
<1>8. ASSUME NEW c \in Callers, ReadForChange(c) PROVE TypeOK'
  <2>1. CASE Return(c)
    BY <1>8, <2>1, CallTypes DEF ReadForChange, TypeOK
  <2>2. CASE call' = [call EXCEPT ![c].at = "updating", ![c].hash = credential]
    BY <1>8, <2>2, CallTypes DEF ReadForChange, TypeOK, Calls, Steps
  <2>3. QED BY <1>8, <2>1, <2>2 DEF ReadForChange
<1>9. ASSUME NEW c \in Callers, UpdateHash(c) PROVE TypeOK'
  BY <1>9, CallTypes, LifetimeAssumption DEF UpdateHash, Steps, TypeOK, Hashes
<1>10. ASSUME NEW c \in Callers, DropSessions(c) PROVE TypeOK'
  BY <1>10, CallTypes DEF DropSessions, Dropped, TypeOK
<1>11. ASSUME NEW c \in Callers, Abandon(c) PROVE TypeOK'
  BY <1>11, CallTypes, LifetimeAssumption DEF Abandon, TypeOK
<1>12. ASSUME Tick PROVE TypeOK'
  <2>1. call' \in [Callers -> Calls]
    <3>1. ASSUME NEW c \in Callers, call[c].at \in Waiting
          PROVE  [call[c] EXCEPT !.lag = @ + 1] \in Calls
      <4>1. call[c].lag \in 0..MaxLag /\ call[c].lag < MaxLag
        BY <1>12, <3>1, CallTypes DEF Tick, Calls
      <4>2. call[c].lag + 1 \in 0..MaxLag
        BY <4>1, LifetimeAssumption
      <4>3. QED BY <4>2, CallTypes DEF Calls
    <3>2. QED BY <1>12, <3>1, CallTypes DEF Tick
  <2>2. sessions' \in [Tokens -> Sessions \cup {None, Gone}]
    <3>1. ASSUME NEW t \in Tokens, Live(t)
          PROVE  [sessions[t] EXCEPT !.idle = Older(@), !.absolute = Older(@),
                                     !.recent = Older(@)] \in Sessions
      BY <3>1, LiveType, OlderType DEF Sessions
    <3>2. QED BY <1>12, <3>1 DEF Tick, TypeOK
  <2>3. QED BY <1>12, <2>1, <2>2 DEF Tick, TypeOK
<1>13. CASE UNCHANGED vars
  BY <1>13 DEF vars, TypeOK
<1>14. QED
  BY <1>1, <1>2, <1>3, <1>4, <1>5, <1>6, <1>7, <1>8, <1>9, <1>10, <1>11, <1>12, <1>13
  DEF Next, Begin, Proceed

LEMMA NextHashes == IInv /\ [Next]_vars => HashRead'
<1> SUFFICES ASSUME TypeOK, HashRead, [Next]_vars PROVE HashRead'
  BY DEF IInv
<1>1. NoCall.at = "out"
  BY DEF NoCall
<1>2. ASSUME NEW c \in Callers, NEW t \in Tokens, ReadForLogin(c, t) PROVE HashRead'
  BY <1>2 DEF ReadForLogin, HashRead, TypeOK, Calls
<1>3. ASSUME NEW c \in Callers, NEW t \in Tokens, NEW r \in Requests, Present(c, t, r)
      PROVE  HashRead'
  BY <1>3 DEF Present, HashRead, TypeOK, Calls
<1>4. ASSUME NEW c \in Callers,
             Verify(c) \/ CreateSession(c) \/ DeleteSession(c) \/ ReadForChange(c)
             \/ UpdateHash(c) \/ DropSessions(c) \/ Abandon(c)
      PROVE  HashRead'
  BY <1>1, <1>4 DEF Verify, CreateSession, DeleteSession, ReadForChange, UpdateHash,
     DropSessions, Abandon, Return, Goto, HashRead, TypeOK, Calls
<1>5. ASSUME NEW c \in Callers, FindSession(c) PROVE HashRead'
  <2>1. Admitted(c).at \notin {"verifying", "creating"}
    BY <1>1, CallTypes DEF Admitted, Calls, Requests
  <2>2. Return(c) \/ call' = [call EXCEPT ![c] = Admitted(c)]
    BY <1>5 DEF FindSession
  <2>3. QED BY <1>1, <2>1, <2>2 DEF Return, HashRead, TypeOK
<1>6. CASE Tick
  BY <1>6, CallTypes DEF Tick, HashRead, TypeOK, Calls
<1>7. CASE (\E c \in Callers : Setup(c)) \/ UNCHANGED vars
  BY <1>7 DEF Setup, vars, HashRead
<1>8. QED
  BY <1>2, <1>3, <1>4, <1>5, <1>6, <1>7 DEF Next, Begin, Proceed

(* TypeOK: the row, the sessions and the requests of admin/auth.py keep    *)
(* their types, whatever the lifetimes and the delays.                     *)
THEOREM TypeCorrect == Spec => []TypeOK
<1>1. IInv /\ [Next]_vars => IInv'
  BY NextTypes, NextHashes DEF IInv
<1>2. IInv => TypeOK
  BY DEF IInv
<1>3. QED BY InitInductive, <1>1, <1>2, PTL DEF Spec

-----------------------------------------------------------------------------
(* What a step does to a token's session.                                  *)

LEMMA ChangeInductive == IInv /\ ChangeEndsSessions /\ [Next]_vars => ChangeEndsSessions'
<1> SUFFICES ASSUME TypeOK, HashRead, ChangeEndsSessions, [Next]_vars,
                    NEW t \in Tokens, Outdated(t)'
             PROVE  \/ sessions'[t].late
                    \/ undropped'
                    \/ \E c \in Callers : call'[c].at = "dropping"
  BY DEF IInv, ChangeEndsSessions
<1> DEFINE Excused == \/ sessions[t].late
                      \/ undropped
                      \/ \E c \in Callers : call[c].at = "dropping"
<1>1. Outdated(t) => Excused
  BY DEF ChangeEndsSessions
<1>2. sessions'[t] \notin {None, Gone} /\ sessions'[t].hash # credential'
  BY DEF Outdated, Live
<1>3. ASSUME NEW c \in Callers, Setup(c) PROVE Excused'
  <2>1. Live(t) /\ sessions[t].hash # 0
    BY <1>2, <1>3, LiveType DEF Setup, Live, Sessions
  <2>2. QED BY <1>1, <1>3, <2>1 DEF Setup, SetupAllowed, Outdated
<1>4. ASSUME NEW c \in Callers, NEW u \in Tokens,
             ReadForLogin(c, u) \/ \E r \in Requests : Present(c, u, r)
      PROVE  Excused'
  BY <1>1, <1>2, <1>4 DEF ReadForLogin, Present, Outdated, Live, TypeOK, Calls
<1>5. ASSUME NEW c \in Callers, Verify(c) PROVE Excused'
  BY <1>1, <1>2, <1>5 DEF Verify, Return, Goto, Outdated, Live, TypeOK, Calls
<1>6. ASSUME NEW c \in Callers, CreateSession(c) PROVE Excused'
  <2>1. CASE t = call[c].token
    BY <1>2, <1>6, <2>1 DEF CreateSession, TypeOK
  <2>2. CASE t # call[c].token
    <3>1. Outdated(t) /\ sessions'[t] = sessions[t]
      BY <1>2, <1>6, <2>2 DEF CreateSession, Outdated, Live, TypeOK
    <3>2. QED BY <1>1, <1>6, <3>1 DEF CreateSession, Return, TypeOK
  <2>3. QED BY <2>1, <2>2
<1>7. ASSUME NEW c \in Callers, FindSession(c) PROVE Excused'
  <2>1. /\ Outdated(t)
        /\ sessions'[t].late = sessions[t].late
    <3>1. CASE sessions'[t] = sessions[t]
      BY <1>2, <1>7, <3>1 DEF FindSession, Outdated, Live
    <3>2. CASE sessions'[t] # sessions[t]
      <4>1. /\ t = call[c].token /\ Live(t)
            /\ sessions'[t] = Used(sessions[t], call[c].lag)
        BY <1>2, <1>7, <3>2 DEF FindSession, TypeOK
      <4>2. /\ sessions'[t].hash = sessions[t].hash
            /\ sessions'[t].late = sessions[t].late
        BY <4>1, LiveType DEF Used, Refreshed, Sessions
      <4>3. QED BY <1>2, <1>7, <4>1, <4>2 DEF FindSession, Outdated
    <3>3. QED BY <3>1, <3>2
  <2>2. Return(c) \/ call' = [call EXCEPT ![c] = Admitted(c)]
    BY <1>7 DEF FindSession
  <2>3. ASSUME NEW d \in Callers, call[d].at = "dropping" PROVE call'[d] = call[d]
    BY <1>7, <2>2, <2>3 DEF FindSession, Return, TypeOK
  <2>4. QED BY <1>1, <1>7, <2>1, <2>3 DEF FindSession
<1>8. ASSUME NEW c \in Callers, DeleteSession(c) PROVE Excused'
  <2>1. sessions'[t] = sessions[t] /\ credential' = credential
    BY <1>2, <1>8 DEF DeleteSession, TypeOK
  <2>2. QED BY <1>1, <1>2, <1>8, <2>1 DEF DeleteSession, Return, Outdated, Live, TypeOK
<1>9. ASSUME NEW c \in Callers, ReadForChange(c) PROVE Excused'
  BY <1>1, <1>2, <1>9 DEF ReadForChange, Return, Outdated, Live, TypeOK, Calls
<1>10. ASSUME NEW c \in Callers, UpdateHash(c) PROVE Excused'
  BY <1>10 DEF UpdateHash, Goto, TypeOK, Calls
<1>11. ASSUME NEW c \in Callers, DropSessions(c) PROVE Excused'
  BY <1>2, <1>11 DEF DropSessions, Dropped, Live
<1>12. ASSUME NEW c \in Callers, Abandon(c) PROVE Excused'
  BY <1>1, <1>2, <1>12 DEF Abandon, Return, Outdated, Live, TypeOK
<1>13. CASE Tick
  <2>1. Live(t) /\ sessions'[t] = [sessions[t] EXCEPT !.idle = Older(@),
                                    !.absolute = Older(@), !.recent = Older(@)]
    BY <1>2, <1>13 DEF Tick, Live
  <2>2. sessions'[t].hash = sessions[t].hash /\ sessions'[t].late = sessions[t].late
    BY <2>1, LiveType DEF Sessions
  <2>3. \A c \in Callers : call'[c].at = call[c].at
    BY <1>13, CallTypes DEF Tick, Calls
  <2>4. QED BY <1>1, <1>2, <1>13, <2>1, <2>2, <2>3 DEF Tick, Outdated
<1>14. CASE UNCHANGED vars
  BY <1>1, <1>2, <1>14 DEF vars, Outdated, Live
<1>15. Excused'
  <2>1. ASSUME NEW c \in Callers, Begin(c) PROVE Excused'
    BY <1>3, <1>4, <2>1 DEF Begin
  <2>2. ASSUME NEW c \in Callers, Proceed(c) PROVE Excused'
    BY <1>5, <1>6, <1>7, <1>8, <1>9, <1>10, <1>11, <2>2 DEF Proceed
  <2>3. QED BY <1>12, <1>13, <1>14, <2>1, <2>2 DEF Next
<1>16. QED BY <1>15

(* ChangeEndsSessions: change_password leaves no session of a former       *)
(* password behind, but for a login it overtook and a change that died     *)
(* between its two writes.                                                 *)
THEOREM ChangeEnds == Spec => []ChangeEndsSessions
<1>1. IInv /\ [Next]_vars => IInv'
  BY NextTypes, NextHashes DEF IInv
<1>2. Init => ChangeEndsSessions
  BY DEF Init, ChangeEndsSessions, Outdated, Live
<1>3. QED BY InitInductive, ChangeInductive, <1>1, <1>2, PTL DEF Spec

-----------------------------------------------------------------------------
LEMMA OlderLag ==
  ASSUME NEW i \in -MaxLag..IdleTicks, NEW r \in -MaxLag..IdleTicks, i >= r - MaxLag
  PROVE  Older(i) >= Older(r) - MaxLag
BY LifetimeAssumption DEF Older

LEMMA IdleInductive == IInv /\ IdleWithinLag /\ [Next]_vars => IdleWithinLag'
<1> SUFFICES ASSUME TypeOK, HashRead, IdleWithinLag, [Next]_vars,
                    NEW t \in Tokens, Live(t)'
             PROVE  sessions'[t].idle >= sessions'[t].recent - MaxLag
  BY DEF IInv, IdleWithinLag
<1> DEFINE Kept == sessions'[t].idle >= sessions'[t].recent - MaxLag
<1>1. sessions'[t] \notin {None, Gone}
  BY DEF Live
<1>2. ASSUME sessions'[t] = sessions[t] PROVE Kept
  BY <1>1, <1>2 DEF Live, IdleWithinLag
<1>3. ASSUME NEW c \in Callers, CreateSession(c) PROVE Kept
  <2>1. CASE t = call[c].token
    <3>1. call[c].lag \in 0..MaxLag
      BY CallTypes DEF Calls
    <3>2. /\ sessions'[t].idle = IdleTicks - call[c].lag
          /\ sessions'[t].recent = IdleTicks - call[c].lag
      BY <1>3, <2>1 DEF CreateSession, TypeOK
    <3>3. QED BY <3>1, <3>2, LifetimeAssumption
  <2>2. CASE t # call[c].token
    BY <1>2, <1>3, <2>2 DEF CreateSession, TypeOK
  <2>3. QED BY <2>1, <2>2
<1>4. ASSUME NEW c \in Callers, FindSession(c) PROVE Kept
  <2>1. CASE sessions'[t] # sessions[t]
    <3> DEFINE lag == call[c].lag
    <3>1. /\ Live(t)
          /\ sessions'[t] = Used(sessions[t], lag)
      BY <1>1, <1>4, <2>1 DEF FindSession, TypeOK
    <3>2. lag \in 0..MaxLag /\ sessions[t].recent \in -MaxLag..IdleTicks
      BY <3>1, CallTypes, LiveType DEF Calls, Sessions
    <3>3. /\ sessions'[t].idle = IdleTicks - lag
          /\ sessions'[t].recent = Latest(sessions[t].recent, IdleTicks - lag)
      BY <3>1, LiveType DEF Used, Refreshed, Sessions
    <3>4. QED BY <3>2, <3>3, LifetimeAssumption DEF Latest
  <2>2. QED BY <1>2, <2>1
<1>5. ASSUME NEW c \in Callers, DeleteSession(c) \/ DropSessions(c) PROVE Kept
  BY <1>1, <1>2, <1>5 DEF DeleteSession, DropSessions, Dropped, TypeOK
<1>6. CASE Tick
  <2>1. Live(t) /\ sessions'[t] = [sessions[t] EXCEPT !.idle = Older(@),
                                    !.absolute = Older(@), !.recent = Older(@)]
    BY <1>1, <1>6 DEF Tick, Live
  <2>2. /\ sessions'[t].idle = Older(sessions[t].idle)
        /\ sessions'[t].recent = Older(sessions[t].recent)
        /\ sessions[t].idle \in -MaxLag..IdleTicks
        /\ sessions[t].recent \in -MaxLag..IdleTicks
    BY <2>1, LiveType DEF Sessions
  <2>3. sessions[t].idle >= sessions[t].recent - MaxLag
    BY <2>1 DEF IdleWithinLag
  <2>4. QED BY <2>2, <2>3, OlderLag
<1>7. ASSUME UNCHANGED sessions PROVE Kept
  BY <1>2, <1>7
<1>8. QED
  BY <1>3, <1>4, <1>5, <1>6, <1>7 DEF Next, Begin, Proceed, Setup, ReadForLogin, Present,
     Verify, ReadForChange, UpdateHash, Abandon, vars

(* IdleWithinLag: find_session may set last_seen_at back, but by no more   *)
(* than a store call lasts.                                                *)
THEOREM IdleLag == Spec => []IdleWithinLag
<1>1. IInv /\ [Next]_vars => IInv'
  BY NextTypes, NextHashes DEF IInv
<1>2. Init => IdleWithinLag
  BY DEF Init, IdleWithinLag, Live
<1>3. QED BY InitInductive, IdleInductive, <1>1, <1>2, PTL DEF Spec
=============================================================================
