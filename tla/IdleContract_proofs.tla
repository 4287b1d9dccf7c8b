-------------------------- MODULE IdleContract_proofs --------------------------
(***************************************************************************)
(* IdleExecution implements IdlePlanContract, for every number of calls    *)
(* and plans, as long as the game keeps one capacity.                      *)
(*                                                                         *)
(* What the contract asks beyond the invariants of IdleExecution_proofs:   *)
(* nothing was or will be requested for a plan that fails.  A call fails a *)
(* plan only when it was about to send for it, and then it was the only    *)
(* such call.                                                              *)
(***************************************************************************)
EXTENDS IdleExecution_proofs

Unsent(p) == sent[p] = 0 /\ \A f \in Executors : PreSend(f) => ex[f].plan # p

FailInv ==
  /\ \A e \in Executors : ex[e].outcome = "precondition_failed" =>
       /\ ex[e].step \in {"leaving", "finishing"}
       /\ ex[e].plan \in Plans
       /\ ~Untouched(ex[e].plan)
       /\ Unsent(ex[e].plan)
  /\ \A e \in Executors : PreSend(e) => plans[ex[e].plan].state # "failed"

(* A step that keeps the rows of the plans, sends nothing and neither      *)
(* makes a call one that is about to send nor one that failed.             *)
LEMMA FailFrame ==
  ASSUME FailInv, UNCHANGED sent,
         \A p \in Plans : plans'[p].state = plans[p].state,
         \A e \in Executors : PreSend(e)' => PreSend(e) /\ ex'[e].plan = ex[e].plan,
         \A e \in Executors : ex'[e].outcome = "precondition_failed" =>
           /\ ex[e].outcome = "precondition_failed"
           /\ ex'[e].plan = ex[e].plan
           /\ ex'[e].step \in {"leaving", "finishing"},
         \A e \in Executors : PreSend(e) => ex[e].plan \in Plans
  PROVE  FailInv'
BY DEF FailInv, Unsent, Untouched

LEMMA FailInductive ==
  TypeOK /\ SendInv /\ FailInv /\ [Next]_vars => FailInv'
<1> SUFFICES ASSUME TypeOK, SendInv, FailInv, [Next]_vars PROVE FailInv'
  OBVIOUS
<1> USE DEF game, rows, losses, ghosts
<1>a. \A e \in Executors : PreSend(e) => ex[e].plan \in Plans
  BY DEF SendInv
<1>b. \A e \in Executors : ex[e].outcome = "precondition_failed" =>
        ex[e].step \in {"leaving", "finishing"}
  BY DEF FailInv
<1>1. ASSUME UNCHANGED <<ex, sent>>, \A p \in Plans : plans'[p].state = plans[p].state
      PROVE  FailInv'
  BY <1>1, <1>a, <1>b, FailFrame DEF PreSend
<1>2. ASSUME NEW v \in Previewers, NEW p \in Plans, SavePreview(v, p) PROVE FailInv'
  <2>1. UNCHANGED <<ex, sent>>
    BY <1>2 DEF SavePreview
  <2>2. Untouched(p) /\ plans'[p].state # "failed"
    BY <1>2 DEF SavePreview, TypeOK, Untouched
  <2>3. \A q \in Plans : q # p => plans'[q] = plans[q]
    BY <1>2 DEF SavePreview, TypeOK
  <2>4. QED BY <1>a, <2>1, <2>2, <2>3 DEF FailInv, Unsent, Untouched, PreSend
<1>3. ASSUME NEW e \in Executors, NEW p \in Plans, ClaimFresh(e, p) PROVE FailInv'
  <2>1. Untouched(p) /\ UNCHANGED sent
    BY <1>3 DEF ClaimFresh, CanClaim, Untouched
  <2>2. /\ plans'[p].state = "executing"
        /\ \A q \in Plans : q # p => plans'[q] = plans[q]
    BY <1>3 DEF ClaimFresh, TypeOK, PlanRows
  <2>3. /\ ex[e].step = "guarded" /\ ex'[e].step = "claimed" /\ ex'[e].plan = p
        /\ ex'[e].outcome = ex[e].outcome
        /\ \A f \in Executors : f # e => ex'[f] = ex[f]
    BY <1>3 DEF ClaimFresh, TypeOK, Calls
  <2>4. ex'[e].outcome # "precondition_failed"
    BY <2>3, <1>b
  <2>5. QED BY <1>a, <2>1, <2>2, <2>3, <2>4 DEF FailInv, Unsent, Untouched, PreSend
<1>4. ASSUME NEW e \in Executors, NEW p \in Plans, NEW r \in RecoveryFlags,
             ClaimExpired(e, p, r)
      PROVE  FailInv'
  <2>1. UNCHANGED sent /\ \A q \in Plans : plans'[q].state = plans[q].state
    BY <1>4 DEF ClaimExpired, TypeOK, PlanRows
  <2>2. /\ ex[e].step = "guarded" /\ ex'[e].step = "recovering"
        /\ ex'[e].outcome = ex[e].outcome
        /\ \A f \in Executors : f # e => ex'[f] = ex[f]
    BY <1>4 DEF ClaimExpired, TypeOK, Calls
  <2>3. \A f \in Executors : PreSend(f)' => PreSend(f) /\ ex'[f].plan = ex[f].plan
    BY <2>2 DEF PreSend
  <2>4. QED BY <1>a, <1>b, <2>1, <2>2, <2>3, FailFrame
<1>5. ASSUME NEW e \in Executors, EnterAccount(e) \/ ReadBefore(e) PROVE FailInv'
  <2>1. UNCHANGED <<sent, plans>>
    BY <1>5 DEF EnterAccount, ReadBefore
  <2>2. /\ ex[e].step \in {"claimed", "recovering", "reading"}
        /\ ex'[e].plan = ex[e].plan /\ ex'[e].outcome = ex[e].outcome
        /\ PreSend(e)' => PreSend(e)
        /\ \A f \in Executors : f # e => ex'[f] = ex[f]
    <3>1. CASE EnterAccount(e)
      BY <3>1 DEF EnterAccount, TypeOK, Calls, PreSend
    <3>2. CASE ReadBefore(e)
      BY <3>2 DEF ReadBefore, TypeOK, Calls, PreSend
    <3>3. QED BY <1>5, <3>1, <3>2
  <2>3. QED BY <1>a, <1>b, <2>1, <2>2, FailFrame DEF PreSend
<1>6. ASSUME NEW e \in Executors, CheckPlan(e) PROVE FailInv'
  <2>1. UNCHANGED <<sent, plans>> /\ PreSend(e)
    BY <1>6 DEF CheckPlan, PreSend
  <2>2. \A f \in Executors : f # e => ex'[f] = ex[f]
    BY <1>6 DEF CheckPlan, Goto, Leave, TypeOK
  <2>3. CASE Goto(e, "sending")
    <3>1. ex'[e].plan = ex[e].plan /\ ex'[e].outcome = ex[e].outcome
      BY <2>3 DEF Goto, TypeOK, Calls
    <3>2. ex[e].outcome # "precondition_failed"
      BY <2>1, <1>b DEF PreSend
    <3>3. QED BY <1>a, <1>b, <2>1, <2>2, <3>1, <3>2, FailFrame DEF PreSend
  <2>4. CASE Leave(e, "precondition_failed")
    <3>1. ex'[e].step = "leaving" /\ ex'[e].plan = ex[e].plan
      BY <2>4 DEF Leave, TypeOK, NoCall
    <3>2. ~PreSend(e)'
      BY <3>1 DEF PreSend
    <3>3. /\ ex[e].plan \in Plans /\ sent[ex[e].plan] = 0 /\ ~Untouched(ex[e].plan)
          /\ \A f \in Executors : f # e /\ PreSend(f) => ex[f].plan # ex[e].plan
      BY <2>1 DEF SendInv
    <3>4. QED BY <2>1, <2>2, <3>1, <3>2, <3>3 DEF FailInv, Unsent, Untouched, PreSend
  <2>5. QED BY <1>6, <2>3, <2>4 DEF CheckPlan
<1>7. ASSUME NEW e \in Executors, SendCollect(e) PROVE FailInv'
  <2> DEFINE q == ex[e].plan
  <2>1. PreSend(e) /\ q \in Plans /\ UNCHANGED plans
    BY <1>7, <1>a DEF SendCollect, PreSend
  <2>2. \A p \in Plans : p # q => sent'[p] = sent[p]
    BY <1>7 DEF SendCollect, TypeOK
  <2>3. /\ ex'[e].step = "waiting" /\ ex'[e].outcome = ex[e].outcome
        /\ \A f \in Executors : f # e => ex'[f] = ex[f]
    BY <1>7 DEF SendCollect, Goto, TypeOK, Calls
  <2>4. \A f \in Executors : ex[f].outcome = "precondition_failed" => ex[f].plan # q
    BY <2>1 DEF FailInv, Unsent
  <2>5. ex[e].outcome # "precondition_failed"
    BY <2>1, <1>b DEF PreSend
  <2>6. QED BY <2>1, <2>2, <2>3, <2>4, <2>5 DEF FailInv, Unsent, Untouched, PreSend
<1>8. ASSUME NEW e \in Executors, UNCHANGED <<sent, plans>>,
             \/ Unwind(e)
             \/ \E o \in Outcomes \ {"precondition_failed"} : Leave(e, o)
      PROVE  FailInv'
  <2>1. /\ \A f \in Executors : f # e => ex'[f] = ex[f]
        /\ ex'[e].step \in {"out", "leaving"}
        /\ ex'[e].outcome # "precondition_failed"
    <3>1. CASE Unwind(e)
      BY <3>1, NoneAssumption DEF Unwind, NoCall, TypeOK
    <3>2. ASSUME NEW o \in Outcomes \ {"precondition_failed"}, Leave(e, o)
          PROVE  /\ \A f \in Executors : f # e => ex'[f] = ex[f]
                 /\ ex'[e].step = "leaving" /\ ex'[e].outcome = o
      BY <3>2 DEF Leave, NoCall, TypeOK
    <3>3. QED BY <1>8, <3>1, <3>2
  <2>2. QED BY <1>8, <1>a, <1>b, <2>1, FailFrame DEF PreSend
<1>9. ASSUME NEW e \in Executors, UNCHANGED <<sent, plans>>,
             \/ ex[e].step = "out" /\ Goto(e, "guarded")
             \/ ex[e].step = "leaving" /\ Goto(e, "finishing")
      PROVE  FailInv'
  <2>1. /\ \A f \in Executors : f # e => ex'[f] = ex[f]
        /\ ex'[e].plan = ex[e].plan /\ ex'[e].outcome = ex[e].outcome
        /\ ex'[e].step \in {"guarded", "finishing"}
        /\ ex[e].step = "out" \/ ex'[e].step = "finishing"
    BY <1>9 DEF Goto, TypeOK, Calls
  <2>2. QED BY <1>9, <1>a, <1>b, <2>1, FailFrame DEF PreSend
<1>10. ASSUME NEW e \in Executors, Finish(e) PROVE FailInv'
  <2>1. UNCHANGED sent
    BY <1>10 DEF Finish
  <2>2. /\ \A f \in Executors : f # e => ex'[f] = ex[f]
        /\ ex'[e].step = "out" /\ ex'[e].outcome # "precondition_failed"
    BY <1>10, NoneAssumption DEF Finish, Unwind, NoCall, TypeOK
  <2>3. CASE ~Owned(e)
    BY <1>10, <1>a, <1>b, <2>1, <2>2, <2>3, FailFrame DEF Finish, PreSend
  <2>4. CASE Owned(e)
    <3> DEFINE q == ex[e].plan
    <3>1. \A p \in Plans : p # q => plans'[p] = plans[p]
      BY <1>10, <2>4 DEF Finish, TypeOK
    <3>2. q \in Plans => plans'[q].state = Verdict(ex[e].outcome)
      <4>1. q \in Plans => plans'[q] = [plans[q] EXCEPT
              !.state = Verdict(ex[e].outcome), !.owner = None, !.lease = 0]
        BY <1>10, <2>4 DEF Finish, TypeOK
      <4>2. q \in Plans => plans[q] \in PlanRows
        BY DEF TypeOK
      <4>3. QED BY <4>1, <4>2 DEF PlanRows
    <3>3. /\ Verdict(ex[e].outcome) \notin Fresh \cup {"absent"}
          /\ Verdict(ex[e].outcome) = "failed" => ex[e].outcome = "precondition_failed"
      BY DEF Verdict, Fresh
    <3>4. \A p \in Plans : Untouched(p)' => Untouched(p)
      BY <3>1, <3>2, <3>3 DEF Untouched
    <3>5. \A p \in Plans : plans'[p].state = "failed" =>
            \/ plans[p].state = "failed"
            \/ \A f \in Executors : PreSend(f) => ex[f].plan # p
      BY <3>1, <3>2, <3>3 DEF FailInv, Unsent
    <3>6. \A f \in Executors : PreSend(f)' => PreSend(f) /\ ex'[f] = ex[f]
      BY <2>2 DEF PreSend
    <3>7. \A f \in Executors :
            ex'[f].outcome = "precondition_failed" => ex'[f] = ex[f]
      BY <2>2
    <3>8. QED
      BY <1>a, <2>1, <3>4, <3>5, <3>6, <3>7 DEF FailInv, Unsent
  <2>5. QED BY <2>3, <2>4
<1>11. ASSUME Tick PROVE FailInv'
  <2>1. \A p \in Plans : plans'[p].state = plans[p].state
    BY <1>11 DEF Tick, TypeOK, PlanRows
  <2>2. QED BY <1>1, <1>11, <2>1 DEF Tick
<1>12. CASE UNCHANGED vars
  BY <1>1, <1>12 DEF vars
<1>13. CASE Next
  <2>1. ASSUME NEW e \in Executors, Execute(e) PROVE FailInv'
    <3>1. ASSUME ReadAfter(e) \/ CollectRaised(e) \/ Reread(e) PROVE FailInv'
      BY <3>1, <1>8 DEF ReadAfter, CollectRaised, Reread, Outcomes
    <3>2. ASSUME Abandon(e) \/ \E p \in Plans, r \in RecoveryFlags : RefuseClaim(e, p, r)
          PROVE  FailInv'
      BY <3>2, <1>8 DEF Abandon, RefuseClaim
    <3>3. ASSUME LeaveAccount(e) PROVE FailInv'
      BY <3>3, <1>8, <1>9 DEF LeaveAccount
    <3>4. ASSUME HoldGuard(e) PROVE FailInv'
      BY <3>4, <1>9 DEF HoldGuard
    <3>5. QED
      BY <2>1, <1>3, <1>4, <1>5, <1>6, <1>7, <1>10, <3>1, <3>2, <3>3, <3>4
      DEF Execute, Run
  <2>2. ASSUME NEW v \in Previewers, Previewing(v) PROVE FailInv'
    BY <2>2, <1>1, <1>2 DEF Previewing, Preview, LosePreview
  <2>3. ASSUME Environment PROVE FailInv'
    BY <2>3, <1>1, <1>11 DEF Environment, DropGuard, DropLock, ServeCollect,
         PlayerCollects, CapacityChanges, SavePolicy
  <2>4. QED BY <1>13, <2>1, <2>2, <2>3 DEF Next
<1>14. QED BY <1>12, <1>13

-----------------------------------------------------------------------------
(* The steps of the contract.  Only the state of a row, the requests and   *)
(* the collections are seen there.                                         *)

States == [p \in Plans |-> plans[p].state]
Rewards == [p \in Plans |-> paid[p]]

LEMMA MappedStutter ==
  ASSUME \A p \in Plans : plans'[p].state = plans[p].state, UNCHANGED sent,
         \A p \in Plans : paid'[p] = paid[p]
  PROVE  UNCHANGED Contract!vars
BY DEF Contract!vars

LEMMA MappedInit == Init => Contract!Init
<1> SUFFICES ASSUME Init PROVE Contract!Init
  OBVIOUS
<1>1. \A p \in Plans : plans[p].state = "absent" /\ paid[p] = FALSE
  BY DEF Init, NoPlan
<1>2. sent = [p \in Plans |-> 0]
  BY DEF Init
<1>3. QED BY <1>1, <1>2 DEF Contract!Init

LEMMA MappedNext ==
  TypeOK /\ SendInv /\ FailInv /\ CallInv /\ [Next]_vars
    => [Contract!Next]_(Contract!vars)
<1> SUFFICES ASSUME TypeOK, SendInv, FailInv, CallInv, [Next]_vars
             PROVE  Contract!Next \/ UNCHANGED Contract!vars
  OBVIOUS
<1> USE DEF game, rows, losses, ghosts
<1>1. ASSUME UNCHANGED <<plans, sent, paid>> PROVE UNCHANGED Contract!vars
  BY <1>1, MappedStutter
<1>2. ASSUME NEW v \in Previewers, Preview(v) PROVE UNCHANGED Contract!vars
  <2>1. \A p \in Plans : paid'[p] = paid[p]
    BY <1>2, NoneAssumption DEF Preview, TypeOK
  <2>2. QED BY <1>2, <2>1, MappedStutter DEF Preview
<1>3. ASSUME NEW v \in Previewers, NEW p \in Plans, SavePreview(v, p)
      PROVE  Contract!Next
  <2>1. plans[p].state = "absent" /\ UNCHANGED sent
    BY <1>3 DEF SavePreview
  <2>2. States' = [States EXCEPT ![p] = "pending"]
    BY <1>3 DEF SavePreview, TypeOK, States
  <2>3. paid[v] \in BOOLEAN /\ Rewards' = [Rewards EXCEPT ![p] = paid[v]]
    BY <1>3 DEF SavePreview, TypeOK, Rewards
  <2>4. Contract!Offer(p)
    BY <2>1, <2>2, <2>3 DEF Contract!Offer, States, Rewards
  <2>5. QED BY <2>4 DEF Contract!Next
<1>4. ASSUME NEW e \in Executors, NEW p \in Plans, ClaimFresh(e, p)
      PROVE  Contract!Next \/ UNCHANGED Contract!vars
  <2>1. plans[p].state \in Fresh /\ UNCHANGED <<sent, paid>>
    BY <1>4 DEF ClaimFresh, CanClaim
  <2>2. States' = [States EXCEPT ![p] = "executing"]
    BY <1>4 DEF ClaimFresh, TypeOK, PlanRows, States
  <2>3. Contract!Claim(p)
    BY <2>1, <2>2 DEF Contract!Claim, States, Fresh
  <2>4. QED BY <2>3 DEF Contract!Next
<1>5. ASSUME NEW e \in Executors, NEW p \in Plans, NEW r \in RecoveryFlags,
             ClaimExpired(e, p, r)
      PROVE  UNCHANGED Contract!vars
  <2>1. \A q \in Plans : plans'[q].state = plans[q].state
    BY <1>5 DEF ClaimExpired, TypeOK, PlanRows
  <2>2. QED BY <1>5, <2>1, MappedStutter DEF ClaimExpired
<1>6. ASSUME NEW e \in Executors, SendCollect(e) PROVE Contract!Next
  <2> DEFINE q == ex[e].plan
  <2>1. q \in Plans /\ sent[q] = 0 /\ ~Untouched(q) /\ plans[q].state # "failed"
    BY <1>6 DEF SendCollect, PreSend, SendInv, FailInv
  <2>2. plans[q].state \in {"executing", "executed", "reconciliation_required"}
    BY <2>1 DEF TypeOK, PlanRows, PlanStates, Terminal, Untouched
  <2>3. sent' = [sent EXCEPT ![q] = 1] /\ UNCHANGED <<plans, paid>>
    BY <1>6, <2>1 DEF SendCollect
  <2>4. Contract!Request(q)
    BY <2>1, <2>2, <2>3 DEF Contract!Request
  <2>5. QED BY <2>1, <2>4 DEF Contract!Next
<1>7. ASSUME NEW e \in Executors, Finish(e)
      PROVE  Contract!Next \/ UNCHANGED Contract!vars
  <2>1. CASE ~Owned(e)
    BY <1>1, <1>7, <2>1 DEF Finish
  <2>2. CASE Owned(e)
    <3>1. PICK p \in Plans : p = ex[e].plan
      BY <1>7 DEF Finish, CallInv
    <3>2. PICK w \in Contract!Verdicts : w = Verdict(ex[e].outcome)
      BY DEF Verdict, Contract!Verdicts
    <3>3. plans[p].state = "executing" /\ UNCHANGED <<sent, paid>>
      BY <1>7, <2>2, <3>1 DEF Finish, Owned
    <3>4. States' = [States EXCEPT ![p] = w]
      <4>1. plans' = [plans EXCEPT ![p] =
              [@ EXCEPT !.state = w, !.owner = None, !.lease = 0]]
        BY <1>7, <2>2, <3>1, <3>2 DEF Finish
      <4>2. QED BY <4>1 DEF TypeOK, PlanRows, States
    <3>5. w = "executed" => paid[p]
      BY <3>1, <3>2 DEF Verdict, CallInv
    <3>6. w = "failed" => sent[p] = 0
      BY <3>1, <3>2 DEF Verdict, FailInv, Unsent
    <3>7. Contract!Settle(p, w)
      BY <3>3, <3>4, <3>5, <3>6 DEF Contract!Settle, States
    <3>8. QED BY <3>7 DEF Contract!Next
  <2>3. QED BY <2>1, <2>2
<1>8. ASSUME Collected, UNCHANGED <<plans, sent>> PROVE Contract!Next
  <2>1. \A p \in Plans : paid'[p] = TRUE
    BY <1>8 DEF Collected
  <2>2. Contract!Collect
    BY <1>8, <2>1 DEF Contract!Collect
  <2>3. QED BY <2>2 DEF Contract!Next
<1>9. ASSUME Tick PROVE UNCHANGED Contract!vars
  <2>1. \A p \in Plans : plans'[p].state = plans[p].state
    BY <1>9 DEF Tick, TypeOK, PlanRows
  <2>2. QED BY <1>9, <2>1, MappedStutter DEF Tick
<1>10. CASE UNCHANGED vars
  BY <1>1, <1>10 DEF vars
<1>11. CASE Next
  <2>1. ASSUME NEW e \in Executors, Execute(e)
        PROVE  Contract!Next \/ UNCHANGED Contract!vars
    BY <2>1, <1>1, <1>4, <1>5, <1>6, <1>7
    DEF Execute, Run, HoldGuard, RefuseClaim, EnterAccount, ReadBefore, CheckPlan,
        ReadAfter, CollectRaised, Reread, LeaveAccount, Abandon
  <2>2. ASSUME NEW v \in Previewers, Previewing(v)
        PROVE  Contract!Next \/ UNCHANGED Contract!vars
    BY <2>2, <1>1, <1>2, <1>3 DEF Previewing, LosePreview
  <2>3. ASSUME Environment PROVE Contract!Next \/ UNCHANGED Contract!vars
    BY <2>3, <1>1, <1>8, <1>9 DEF Environment, DropGuard, DropLock, ServeCollect,
         PlayerCollects, CapacityChanges, SavePolicy
  <2>4. QED BY <1>11, <2>1, <2>2, <2>3 DEF Next
<1>12. QED BY <1>10, <1>11

(* Preview, execute and recovery together implement the contract of an     *)
(* idle plan: one claim, one request at most, one final verdict, "failed"  *)
(* never after nor before a request and "executed" never without a         *)
(* collection (IdlePlanUseCase, IdleExecuteUseCase).                       *)
THEOREM ContractKept ==
  ASSUME OneCapacity
  PROVE  Spec => KeepsContract
<1>1. Init => SendInv
  BY DEF Init, SendInv, PreSend, Untouched, AtMostOneSend, NoCall
<1>2. Init => FailInv
  BY NoneAssumption DEF Init, FailInv, PreSend, NoCall
<1>3. TypeOK /\ PaidInv /\ [Next]_vars => PaidInv'
  BY PaidInductive
<1>4. PaidInv => CallInv
  BY DEF PaidInv
<1>5. QED
  BY <1>1, <1>2, <1>3, <1>4, PaidInit, TypeCorrect, SendInductive, FailInductive,
     MappedInit, MappedNext, PTL DEF Spec, KeepsContract, Contract!Spec
=============================================================================
