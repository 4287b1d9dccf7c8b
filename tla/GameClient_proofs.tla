--------------------------- MODULE GameClient_proofs ---------------------------
(***************************************************************************)
(* What the client (placegame/game/client.py) promises of a call, for any  *)
(* number of concurrent calls, versions and losses: a mutation is done at  *)
(* most once, its outcome says no more than is known, and a version that   *)
(* the game has named is tried.                                            *)
(***************************************************************************)
EXTENDS GameClient, TLAPS

(* What a call has sent that the game has not refused is all that it may   *)
(* have done; a call comes back to its start only with nothing done.       *)
CallInv(c) ==
  /\ effects[c] \in {0, 1}
  /\ ~call[c].mutation => effects[c] = 0
  /\ call[c].step # "sent" => wire[c] = None
  /\ call[c].step # "over" => call[c].outcome = None
  /\ call[c].step \in {"ready", "waiting"} => effects[c] = 0
  /\ wire[c] # None =>
       /\ wire[c].status \in {"request", "426", "refused"} => effects[c] = 0
       /\ wire[c].status = "ok" /\ call[c].mutation => effects[c] = 1
  /\ call[c].outcome \in {"refused", "client_version_rejected", "unavailable"}
       => effects[c] = 0
  /\ call[c].outcome = "ok" /\ call[c].mutation => effects[c] = 1

IInv == TypeOK /\ \A c \in Callers : CallInv(c)

LEMMA InitInductive == Init => IInv
<1> SUFFICES ASSUME Init PROVE IInv
  OBVIOUS
<1>1. NoCall \in Calls
  BY DEF NoCall, Calls, Attempts
<1>2. TypeOK
  BY <1>1, ClientAssumption DEF Init, TypeOK, Versions
<1>3. \A c \in Callers : CallInv(c)
  BY DEF Init, CallInv, NoCall
<1>4. QED BY <1>2, <1>3 DEF IInv

(* A step of one call leaves the others as they are.                       *)
LEMMA OneCall ==
  ASSUME IInv, NEW c \in Callers, NEW k, NEW w, NEW n \in {0, 1},
         call' = [call EXCEPT ![c] = k], k \in Calls,
         wire' = [wire EXCEPT ![c] = w], w \in Replies \cup {None},
         effects' = [effects EXCEPT ![c] = n],
         version' \in Versions, required' \in Versions, losses' \in 0..MaxLosses,
         ~k.mutation => n = 0,
         k.step # "sent" => w = None,
         k.step # "over" => k.outcome = None,
         k.step \in {"ready", "waiting"} => n = 0,
         w # None =>
           /\ w.status \in {"request", "426", "refused"} => n = 0
           /\ w.status = "ok" /\ k.mutation => n = 1,
         k.outcome \in {"refused", "client_version_rejected", "unavailable"} => n = 0,
         k.outcome = "ok" /\ k.mutation => n = 1
  PROVE  IInv'
<1>1. TypeOK'
  BY DEF IInv, TypeOK
<1>2. call'[c] = k /\ wire'[c] = w /\ effects'[c] = n
  BY DEF IInv, TypeOK
<1>3. \A d \in Callers : d # c =>
        call'[d] = call[d] /\ wire'[d] = wire[d] /\ effects'[d] = effects[d]
  BY DEF IInv, TypeOK
<1>4. \A d \in Callers : CallInv(d)'
  <2>1. CallInv(c)'
    BY <1>2 DEF CallInv
  <2>2. ASSUME NEW d \in Callers, d # c PROVE CallInv(d)'
    BY <1>3, <2>2 DEF CallInv, IInv
  <2>3. QED BY <2>1, <2>2
<1>5. QED BY <1>1, <1>4 DEF IInv

LEMMA NextInductive == IInv /\ [Next]_vars => IInv'
<1> SUFFICES ASSUME IInv, [Next]_vars PROVE IInv'
  OBVIOUS
<1>a. ASSUME NEW c \in Callers PROVE call[c] \in Calls /\ CallInv(c)
  BY DEF IInv, TypeOK
<1>b. /\ version \in Versions /\ required \in Versions /\ losses \in 0..MaxLosses
      /\ MaxLosses \in Nat
  BY ClientAssumption DEF IInv, TypeOK
<1>c. \A c \in Callers :
        /\ wire[c] \in Replies \cup {None}
        /\ wire = [wire EXCEPT ![c] = wire[c]] /\ effects = [effects EXCEPT ![c] = effects[c]]
        /\ call = [call EXCEPT ![c] = call[c]]
  BY DEF IInv, TypeOK
<1>e. \A c \in Callers : effects[c] \in {0, 1}
  BY <1>a DEF CallInv
<1>f. None \notin {"refused", "client_version_rejected", "unavailable", "ok"}
  BY NoneAssumption DEF Kinds
<1>g. /\ 1 \in 1..2 /\ 2 \in 1..2 /\ 1 \in 1..Attempts
      /\ \A n \in 1..Attempts : n # Attempts => n + 1 \in 1..Attempts
  BY DEF Attempts
<1>d. Lossy => losses' \in 0..MaxLosses
  BY <1>b DEF Lossy
<1>1. ASSUME NEW c \in Callers, Start(c) PROVE IInv'
  <2>1. PICK m \in BOOLEAN :
          call' = [call EXCEPT ![c] = [NoCall EXCEPT !.step = "ready", !.mutation = m]]
    BY <1>1 DEF Start
  <2> DEFINE k == [NoCall EXCEPT !.step = "ready", !.mutation = m]
  <2>2. k \in Calls /\ k.step = "ready" /\ k.outcome = None
    BY <1>g, <2>1 DEF NoCall, Calls
  <2>3. wire[c] = None
    BY <1>1, <1>a DEF Start, CallInv
  <2> HIDE DEF k
  <2>4. QED BY <1>1, <1>b, <1>c, <1>f, <2>1, <2>2, <2>3, OneCall DEF Start, k
<1>2. ASSUME NEW c \in Callers, BuildHeaders(c) PROVE IInv'
  <2> DEFINE k == [call[c] EXCEPT !.step = "waiting", !.header = version]
  <2>1. k \in Calls /\ k.step = "waiting" /\ k.outcome = None /\ k.mutation = call[c].mutation
    BY <1>2, <1>a, <1>b DEF BuildHeaders, Calls, CallInv
  <2>2. wire[c] = None /\ effects[c] = 0
    BY <1>2, <1>a DEF BuildHeaders, CallInv
  <2>3. call' = [call EXCEPT ![c] = k]
    BY <1>2 DEF BuildHeaders
  <2> HIDE DEF k
  <2>4. QED BY <1>2, <1>b, <1>c, <1>f, <2>1, <2>2, <2>3, OneCall DEF BuildHeaders
<1>3. ASSUME NEW c \in Callers, PassLimiter(c) PROVE IInv'
  <2> DEFINE k == [call[c] EXCEPT !.step = "sent"]
             w == Reply("request", None)
  <2>1. k \in Calls /\ k.step = "sent" /\ k.outcome = None /\ k.mutation = call[c].mutation
    BY <1>3, <1>a DEF PassLimiter, Calls, CallInv
  <2>2. effects[c] = 0
    BY <1>3, <1>a DEF PassLimiter, CallInv
  <2>3. w \in Replies /\ w.status = "request"
    BY DEF Reply, Replies
  <2>4. call' = [call EXCEPT ![c] = k] /\ wire' = [wire EXCEPT ![c] = w]
    BY <1>3 DEF PassLimiter
  <2> HIDE DEF k, w
  <2>5. QED BY <1>3, <1>b, <1>c, <1>f, <2>1, <2>2, <2>3, <2>4, OneCall DEF PassLimiter
<1>4. ASSUME NEW c \in Callers, Serve(c) PROVE IInv'
  <2>1. wire[c].status = "request" /\ wire[c] # None
    BY <1>4, <1>c, NoneAssumption DEF Serve, Reply, Replies
  <2>2. call[c].step = "sent" /\ call[c].outcome = None /\ effects[c] = 0
    BY <1>a, <2>1 DEF CallInv
  <2>3. UNCHANGED <<call, version, required>> /\ losses' \in 0..MaxLosses
    BY <1>4, <1>b, <1>d DEF Serve
  <2>4. PICK w \in Replies, n \in {0, 1} :
          /\ wire' = [wire EXCEPT ![c] = w] /\ effects' = [effects EXCEPT ![c] = n]
          /\ ~call[c].mutation => n = 0
          /\ w.status \in {"request", "426", "refused"} => n = 0
          /\ w.status = "ok" /\ call[c].mutation => n = 1
    <3>1. \A s \in {"ok", "mangled", "refused", "failed", "426"} :
            /\ Reply(s, None) \in Replies /\ Reply(s, required) \in Replies
            /\ Reply(s, None).status = s /\ Reply(s, required).status = s
      BY <1>b DEF Reply, Replies
    <3>2. Work(c) => effects' = [effects EXCEPT ![c] = IF call[c].mutation THEN 1 ELSE 0]
      BY <1>c, <2>2 DEF Work, IInv, TypeOK
    <3>3. UNCHANGED effects => effects' = [effects EXCEPT ![c] = 0]
      BY <1>c, <2>2
    <3>4. call[c].mutation \in BOOLEAN
      BY <1>a DEF Calls
    <3>5. QED BY <1>4, <3>1, <3>2, <3>3, <3>4 DEF Serve
  <2>5. QED BY <1>a, <1>b, <1>c, <1>f, <2>2, <2>3, <2>4, OneCall
<1>5. ASSUME NEW c \in Callers, ReceiveRejection(c) PROVE IInv'
  <2>1. /\ call[c].step = "sent" /\ call[c].outcome = None /\ effects[c] = 0
        /\ wire[c] # None /\ wire[c] \in Replies
    BY <1>5, <1>a, <1>c DEF ReceiveRejection, CallInv
  <2>2. version' \in Versions
    BY <1>5, <1>b, <2>1 DEF ReceiveRejection, IsNews, Replies
  <2>3. PICK k \in Calls :
          /\ call' = [call EXCEPT ![c] = k] /\ k.mutation = call[c].mutation
          /\ \/ k.step = "ready" /\ k.outcome = None
             \/ k.step = "over" /\ k.outcome = "client_version_rejected"
    <3>1. CASE call' = [call EXCEPT ![c] = [@ EXCEPT !.step = "ready", !.round = 2, !.attempt = 1]]
      <4>1. [call[c] EXCEPT !.step = "ready", !.round = 2, !.attempt = 1] \in Calls
        BY <1>a, <1>g DEF Calls
      <4>2. QED BY <3>1, <4>1, <1>a, <2>1 DEF Calls
    <3>2. CASE Return(c, "client_version_rejected")
      <4>1. [call[c] EXCEPT !.step = "over", !.outcome = "client_version_rejected",
                            !.header = None] \in Calls
        BY <1>a DEF Calls, Kinds
      <4>2. QED BY <3>2, <4>1, <1>a DEF Calls, Return
    <3>3. QED BY <1>5, <3>1, <3>2 DEF ReceiveRejection
  <2>4. QED BY <1>5, <1>b, <1>c, <1>f, <2>1, <2>2, <2>3, OneCall DEF ReceiveRejection
<1>6. ASSUME NEW c \in Callers, NEW kind \in Kinds, Return(c, kind),
             wire' = [wire EXCEPT ![c] = None],
             NEW n \in {0, 1}, effects' = [effects EXCEPT ![c] = n],
             UNCHANGED <<version, required>>, losses' \in 0..MaxLosses,
             ~call[c].mutation => n = 0,
             kind \in {"refused", "client_version_rejected", "unavailable"} => n = 0,
             kind = "ok" /\ call[c].mutation => n = 1
      PROVE  IInv'
  <2> DEFINE k == [call[c] EXCEPT !.step = "over", !.outcome = kind, !.header = None]
  <2>1. k \in Calls /\ k.step = "over" /\ k.outcome = kind /\ k.mutation = call[c].mutation
    BY <1>a DEF Calls
  <2>2. call' = [call EXCEPT ![c] = k]
    BY <1>6 DEF Return
  <2> HIDE DEF k
  <2>3. QED BY <1>6, <1>b, <2>1, <2>2, OneCall
<1>7. ASSUME NEW c \in Callers, ReceiveAnswer(c) PROVE IInv'
  <2>1. /\ call[c].mutation \in BOOLEAN /\ CallInv(c)
        /\ wire[c] # None /\ wire[c].status \in {"ok", "mangled", "refused", "failed"}
    BY <1>7, <1>a, <1>c DEF ReceiveAnswer, Calls, Replies
  <2>2. Interpret(c) \in Kinds
    BY <2>1 DEF Interpret, NoAnswer, Kinds
  <2>3. /\ Interpret(c) \in {"refused", "client_version_rejected", "unavailable"} => effects[c] = 0
        /\ Interpret(c) = "ok" /\ call[c].mutation => effects[c] = 1
    BY <2>1 DEF Interpret, NoAnswer, CallInv
  <2>4. QED BY <1>7, <1>6, <1>b, <1>c, <2>1, <2>2, <2>3 DEF ReceiveAnswer, CallInv
<1>8. ASSUME NEW c \in Callers, LoseAnswer(c) PROVE IInv'
  <2>1. /\ call[c].mutation \in BOOLEAN /\ CallInv(c) /\ call[c].step = "sent"
        /\ call[c].outcome = None
    BY <1>8, <1>a DEF LoseAnswer, Calls, CallInv
  <2>2. PICK n \in {0, 1} :
          effects' = [effects EXCEPT ![c] = n] /\ (~call[c].mutation => n = 0)
    <3>1. CASE UNCHANGED effects
      BY <1>c, <2>1, <3>1 DEF CallInv
    <3>2. CASE wire[c] = Reply("request", None) /\ Work(c)
      <4>1. wire[c] # None /\ wire[c].status = "request"
        BY <3>2, NoneAssumption DEF Reply, Replies
      <4>2. effects[c] = 0
        BY <2>1, <4>1 DEF CallInv
      <4>3. effects' = [effects EXCEPT ![c] = IF call[c].mutation THEN 1 ELSE 0]
        BY <1>c, <3>2, <4>2 DEF Work, IInv, TypeOK
      <4>4. QED BY <2>1, <4>3
    <3>3. QED BY <1>8, <3>1, <3>2 DEF LoseAnswer
  <2>3. losses' \in 0..MaxLosses /\ UNCHANGED <<version, required>>
    BY <1>8, <1>d DEF LoseAnswer
  <2>4. CASE LastAttempt(c)
    <3>1. /\ NoAnswer(c) \in {"ambiguous", "unavailable"}
          /\ NoAnswer(c) = "unavailable" => ~call[c].mutation
      BY DEF NoAnswer
    <3>2. NoAnswer(c) \in Kinds
      BY <3>1 DEF Kinds
    <3>3. QED BY <1>6, <1>8, <2>2, <2>3, <2>4, <3>1, <3>2 DEF LoseAnswer
  <2>5. CASE ~LastAttempt(c)
    <3> DEFINE k == [call[c] EXCEPT !.step = "ready", !.attempt = call[c].attempt + 1]
    <3>1. ~call[c].mutation /\ call[c].attempt # Attempts
      BY <2>5 DEF LastAttempt
    <3>2. k \in Calls /\ k.step = "ready" /\ k.outcome = None /\ ~k.mutation
      BY <1>a, <1>g, <2>1, <3>1 DEF Calls
    <3>3. call' = [call EXCEPT ![c] = k] /\ wire' = [wire EXCEPT ![c] = None]
      BY <1>8, <2>5 DEF LoseAnswer
    <3> HIDE DEF k
    <3>4. QED BY <1>b, <1>f, <2>2, <2>3, <3>1, <3>2, <3>3, OneCall
  <2>6. QED BY <2>4, <2>5
<1>9. CASE Release
  <2>1. TypeOK'
    BY <1>9, ClientAssumption DEF IInv, TypeOK, Release, Versions
  <2>2. QED BY <1>9, <2>1 DEF IInv, CallInv, Release
<1>10. CASE UNCHANGED vars
  BY <1>10 DEF vars, IInv, TypeOK, CallInv
<1>11. QED BY <1>1, <1>2, <1>3, <1>4, <1>5, <1>7, <1>8, <1>9, <1>10 DEF Next, Step

LEMMA Inductive == Spec => []IInv
<1>1. QED BY InitInductive, NextInductive, PTL DEF Spec

(* The version and the calls keep their types (GameClient, its version).   *)
THEOREM TypeCorrect == Spec => []TypeOK
<1>1. IInv => TypeOK
  BY DEF IInv
<1>2. QED BY <1>1, Inductive, PTL

(* However calls race for the version and answers are lost, the game does  *)
(* a mutation at most once per call (_attempt, _request_outcome).          *)
THEOREM Once == Spec => []MutationOnce
<1>1. IInv => MutationOnce
  <2>1. \A c \in Callers : CallInv(c) => effects[c] \in {0, 1}
    BY DEF CallInv
  <2>2. \A n \in {0, 1} : n <= 1
    OBVIOUS
  <2>3. QED BY <2>1, <2>2, Zenon DEF IInv, MutationOnce
<1>2. QED BY <1>1, Inductive, PTL

(* The outcome of a call says no more than is known (_interpret_response). *)
THEOREM Honest == Spec => []OutcomeHonest
<1>1. IInv => OutcomeHonest
  BY DEF IInv, CallInv, OutcomeHonest
<1>2. QED BY <1>1, Inductive, PTL

-----------------------------------------------------------------------------
(* Rejected for its version. *)

(* A game that names a version has refused the one the request declared.   *)
NamedInv ==
  \A c \in Callers :
    wire[c] # None /\ wire[c].status = "426" /\ wire[c].names # None =>
      wire[c].names # call[c].header

LEMMA NamedInductive == IInv /\ NamedInv /\ [Next]_vars => NamedInv'
<1> SUFFICES ASSUME IInv, NamedInv, [Next]_vars PROVE NamedInv'
  OBVIOUS
<1>1. ASSUME NEW c \in Callers, NEW k, NEW w,
             call' = [call EXCEPT ![c] = k], wire' = [wire EXCEPT ![c] = w],
             w # None /\ w.status = "426" /\ w.names # None => w.names # k.header
      PROVE  NamedInv'
  <2>1. /\ call'[c] = k /\ wire'[c] = w
        /\ \A d \in Callers : d # c => call'[d] = call[d] /\ wire'[d] = wire[d]
    BY <1>1 DEF IInv, TypeOK
  <2>2. QED BY <1>1, <2>1 DEF NamedInv
<1>2. \A c \in Callers : /\ wire = [wire EXCEPT ![c] = wire[c]]
                         /\ call = [call EXCEPT ![c] = call[c]]
                         /\ call[c].step # "sent" => wire[c] = None
  BY DEF IInv, TypeOK, CallInv
<1>3. ASSUME NEW c \in Callers, Start(c) \/ BuildHeaders(c) PROVE NamedInv'
  <2>1. wire' = wire /\ wire[c] = None
    BY <1>2, <1>3 DEF Start, BuildHeaders
  <2>2. PICK k : call' = [call EXCEPT ![c] = k]
    BY <1>3 DEF Start, BuildHeaders
  <2>3. QED BY <1>1, <1>2, <2>1, <2>2
<1>4. ASSUME NEW c \in Callers, PassLimiter(c) PROVE NamedInv'
  <2>1. wire' = [wire EXCEPT ![c] = Reply("request", None)]
        /\ call' = [call EXCEPT ![c] = [call[c] EXCEPT !.step = "sent"]]
    BY <1>4 DEF PassLimiter
  <2>2. Reply("request", None).status # "426"
    BY DEF Reply
  <2>3. QED BY <1>1, <2>1, <2>2
<1>5. ASSUME NEW c \in Callers, Serve(c) PROVE NamedInv'
  <2>1. \A s : Reply(s, None).names = None
    BY DEF Reply
  <2>2. Reply("426", required).names = required
    BY DEF Reply
  <2>3. PICK w : /\ wire' = [wire EXCEPT ![c] = w]
                 /\ w.names = None \/ (~Accepted(c) /\ w.names = required)
    BY <1>5, <2>1, <2>2 DEF Serve
  <2>4. required \in Nat
    BY ClientAssumption DEF IInv, TypeOK, Versions
  <2>5. required >= required
    BY <2>4
  <2>6. ~Accepted(c) => call[c].header # required
    BY <2>5 DEF Accepted
  <2>7. call' = [call EXCEPT ![c] = call[c]]
    BY <1>2, <1>5 DEF Serve
  <2>8. QED BY <1>1, <2>3, <2>6, <2>7
<1>6. ASSUME NEW c \in Callers, ReceiveRejection(c) \/ ReceiveAnswer(c) \/ LoseAnswer(c)
      PROVE  NamedInv'
  <2>1. wire' = [wire EXCEPT ![c] = None]
    BY <1>6 DEF ReceiveRejection, ReceiveAnswer, LoseAnswer
  <2>2. PICK k : call' = [call EXCEPT ![c] = k]
    BY <1>6 DEF ReceiveRejection, ReceiveAnswer, LoseAnswer, Return
  <2>3. QED BY <1>1, <2>1, <2>2
<1>7. CASE Release \/ UNCHANGED vars
  BY <1>7 DEF Release, vars, NamedInv
<1>8. QED BY <1>3, <1>4, <1>5, <1>6, <1>7 DEF Next, Step

(* A call that fails although the game has named a version was tried with  *)
(* it, or another call has changed the version since (_request_outcome).   *)
THEOREM Retried == Spec => RetriedUnlessOvertaken
<1>1. Init => NamedInv
  BY DEF Init, NamedInv
<1>2. ASSUME IInv, NamedInv, [Next]_vars, NEW c \in Callers, FailsForVersion(c)
      PROVE  call[c].round = 2 \/ version # call[c].header
  <2>1. /\ call[c].outcome # call'[c].outcome
        /\ call'[c].outcome = "client_version_rejected"
    BY <1>2, NoneAssumption DEF FailsForVersion, Kinds
  <2>2. \A k \in Calls : k.round \in 1..2
    BY DEF Calls
  <2>3. \A d \in Callers : call[d] \in Calls
    BY <1>2 DEF IInv, TypeOK
  <2>4. ASSUME NEW d \in Callers, NEW k, call' = [call EXCEPT ![d] = k]
        PROVE  d = c /\ k.outcome = "client_version_rejected" /\ k.outcome # call[c].outcome
    <3>1. call'[d] = k /\ \A e \in Callers : e # d => call'[e] = call[e]
      BY <1>2, <2>4 DEF IInv, TypeOK
    <3>2. QED BY <2>1, <3>1
  <2>5. ASSUME NEW d \in Callers, NEW kind, Return(d, kind)
        PROVE  d = c /\ kind = "client_version_rejected"
    <3> DEFINE k == [call[d] EXCEPT !.step = "over", !.outcome = kind, !.header = None]
    <3>1. call[d] \in Calls
      BY <1>2 DEF IInv, TypeOK
    <3>2. k.outcome = kind
      BY <3>1 DEF Calls
    <3>3. call' = [call EXCEPT ![d] = k]
      BY <2>5 DEF Return
    <3> HIDE DEF k
    <3>4. QED BY <2>4, <3>2, <3>3
  <2>6. ASSUME NEW d \in Callers, NEW k, call' = [call EXCEPT ![d] = k],
               k.outcome \in {None, call[d].outcome}
        PROVE  FALSE
    <3>1. d = c /\ k.outcome = "client_version_rejected" /\ k.outcome # call[c].outcome
      BY <2>4, <2>6
    <3>2. QED BY <2>6, <3>1, NoneAssumption DEF Kinds
  <2>7. ReceiveRejection(c)
    <3>1. ASSUME NEW d \in Callers, Start(d) PROVE FALSE
      <4>1. PICK m \in BOOLEAN :
              call' = [call EXCEPT ![d] = [NoCall EXCEPT !.step = "ready", !.mutation = m]]
        BY <3>1 DEF Start
      <4>2. [NoCall EXCEPT !.step = "ready", !.mutation = m].outcome = None
        BY DEF NoCall
      <4>3. QED BY <2>6, <4>1, <4>2
    <3>2. ASSUME NEW d \in Callers, BuildHeaders(d) PROVE FALSE
      <4>1. [call[d] EXCEPT !.step = "waiting", !.header = version].outcome = call[d].outcome
        BY <2>3 DEF Calls
      <4>2. QED BY <2>6, <3>2, <4>1 DEF BuildHeaders
    <3>3. ASSUME NEW d \in Callers, PassLimiter(d) PROVE FALSE
      <4>1. [call[d] EXCEPT !.step = "sent"].outcome = call[d].outcome
        BY <2>3 DEF Calls
      <4>2. call' = [call EXCEPT ![d] = [call[d] EXCEPT !.step = "sent"]]
        BY <3>3 DEF PassLimiter
      <4>3. QED BY <2>6, <4>1, <4>2
    <3>4. ASSUME NEW d \in Callers, ReceiveAnswer(d) PROVE FALSE
      <4>1. Interpret(d) = "client_version_rejected"
        BY <2>5, <3>4 DEF ReceiveAnswer
      <4>2. QED BY <4>1 DEF Interpret, NoAnswer
    <3>5. ASSUME NEW d \in Callers, LoseAnswer(d) PROVE FALSE
      <4>1. CASE LastAttempt(d)
        <5>1. NoAnswer(d) = "client_version_rejected"
          BY <2>5, <3>5, <4>1 DEF LoseAnswer
        <5>2. QED BY <5>1 DEF NoAnswer
      <4>2. CASE ~LastAttempt(d)
        <5> DEFINE k == [call[d] EXCEPT !.step = "ready", !.attempt = call[d].attempt + 1]
        <5>1. k.outcome = call[d].outcome
          BY <2>3 DEF Calls
        <5>2. call' = [call EXCEPT ![d] = k]
          BY <3>5, <4>2 DEF LoseAnswer
        <5> HIDE DEF k
        <5>3. QED BY <2>6, <5>1, <5>2
      <4>3. QED BY <4>1, <4>2
    <3>6. ASSUME NEW d \in Callers, ReceiveRejection(d) PROVE d = c
      BY <2>4, <3>6 DEF ReceiveRejection, Return
    <3>7. call' # call
      BY <2>1
    <3>8. QED
      BY <1>2, <3>1, <3>2, <3>3, <3>4, <3>5, <3>6, <3>7
      DEF Next, Step, Serve, Release, vars
  <2>8. CASE call[c].round = 1 /\ IsNews(wire[c].names)
    <3> DEFINE k == [call[c] EXCEPT !.step = "ready", !.round = 2, !.attempt = 1]
    <3>1. call' = [call EXCEPT ![c] = k]
      BY <2>7, <2>8 DEF ReceiveRejection
    <3>2. k.outcome = call[c].outcome
      BY <2>3 DEF Calls
    <3> HIDE DEF k
    <3>3. QED BY <2>6, <3>1, <3>2
  <2>9. CASE call[c].round = 1 /\ ~IsNews(wire[c].names)
    <3>1. wire[c].names = version
      BY <1>2, <2>9 DEF IsNews, FailsForVersion
    <3>2. wire[c].names # call[c].header
      BY <1>2, <2>7 DEF NamedInv, ReceiveRejection, FailsForVersion
    <3>3. QED BY <3>1, <3>2
  <2>10. QED BY <2>2, <2>3, <2>8, <2>9
<1>3. IInv /\ NamedInv /\ [Next]_vars =>
        [\A c \in Callers :
           FailsForVersion(c) => call[c].round = 2 \/ version # call[c].header]_vars
  BY <1>2
<1>4. QED
  BY <1>1, <1>3, NamedInductive, Inductive, PTL DEF RetriedUnlessOvertaken, Spec
=============================================================================
