------------------------ MODULE IdleExecution_proofs ------------------------
(***************************************************************************)
(* Proofs about IdleExecution for every number of calls, plans, policies,  *)
(* thresholds and faults.                                                  *)
(***************************************************************************)
EXTENDS IdleExecution, TLAPS

(* Every way an execute() call can leave a state, in one place.            *)
LEMMA CallTypes ==
  ASSUME TypeOK, NEW e \in Executors
  PROVE  /\ NoCall \in Calls
         /\ \A s \in Steps : [ex EXCEPT ![e].step = s] \in [Executors -> Calls]
         /\ \A o \in Outcomes : Leave(e, o) => ex' \in [Executors -> Calls]
         /\ Unwind(e) => /\ ex' \in [Executors -> Calls]
                         /\ guard' \in Executors \cup {None}
                         /\ lock' \in Executors \cup {None}
<1>1. NoCall \in Calls
  BY DEF NoCall, Calls, Steps
<1>2. ASSUME NEW s \in Steps
      PROVE  [ex EXCEPT ![e].step = s] \in [Executors -> Calls]
  BY DEF TypeOK, Calls
<1>3. ASSUME NEW o \in Outcomes, Leave(e, o)
      PROVE  ex' \in [Executors -> Calls]
  <2>1. [NoCall EXCEPT !.step = "leaving", !.plan = ex[e].plan, !.outcome = o] \in Calls
    BY DEF TypeOK, NoCall, Calls, Steps
  <2>2. QED BY <1>3, <2>1 DEF Leave, TypeOK
<1>4. ASSUME Unwind(e)
      PROVE  /\ ex' \in [Executors -> Calls]
             /\ guard' \in Executors \cup {None}
             /\ lock' \in Executors \cup {None}
  BY <1>1, <1>4 DEF Unwind, ReleaseGuard, ReleaseLock, TypeOK
<1>5. QED BY <1>1, <1>2, <1>3, <1>4

LEMMA SummaryType ==
  ASSUME TypeOK
  PROVE  Summary \in Summaries /\ \A p : Fingerprint(Summary, p) \in Fingerprints
BY DEF TypeOK, Summary, Summaries, Fingerprint, Fingerprints

(* Timers and bounded counters.                                            *)
LEMMA Timers ==
  /\ 0 \in 0..PlanTicks /\ 0 \in 0..LeaseTicks /\ LeaseTicks \in 0..LeaseTicks
  /\ PlanTicks \in 0..PlanTicks /\ 0 \in 0..MaxIdle
  /\ \A i \in 0..MaxIdle : (IF i < MaxIdle THEN i + 1 ELSE i) \in 0..MaxIdle
BY BoundsAssumption

(* A row keeps its type when any of its changing fields is given a value.  *)
LEMMA RowUpdate ==
  ASSUME NEW r \in PlanRows, NEW s \in PlanStates, NEW o \in Executors \cup {None},
         NEW l \in 0..LeaseTicks, NEW t \in 0..PlanTicks
  PROVE  /\ [r EXCEPT !.state = s, !.owner = o, !.lease = l, !.ttl = t] \in PlanRows
         /\ [r EXCEPT !.state = s, !.owner = o, !.lease = l] \in PlanRows
         /\ [r EXCEPT !.owner = o, !.lease = l] \in PlanRows
BY DEF PlanRows

LEMMA Increment ==
  ASSUME NEW f \in [Plans -> Nat], NEW x
  PROVE  [f EXCEPT ![x] = @ + 1] \in [Plans -> Nat]
<1>1. \A p \in Plans : f[p] + 1 \in Nat
  OBVIOUS
<1>2. CASE x \in Plans
  BY <1>1, <1>2
<1>3. CASE x \notin Plans
  BY <1>3
<1>4. QED BY <1>2, <1>3

LEMMA InitTypes == Init => TypeOK
<1> SUFFICES ASSUME Init PROVE TypeOK
  OBVIOUS
<1>1. NoPlan \in PlanRows
  BY BoundsAssumption DEF NoPlan, PlanRows, PlanStates, Fresh, Terminal
<1>2. NoCall \in Calls
  BY DEF NoCall, Calls, Steps
<1>3. policy \in Policies
  BY BoundsAssumption DEF Init, Policies
<1>4. QED
  BY <1>1, <1>2, <1>3, BoundsAssumption DEF Init, TypeOK

LEMMA NextTypes == TypeOK /\ [Next]_vars => TypeOK'
<1> SUFFICES ASSUME TypeOK, [Next]_vars PROVE TypeOK'
  OBVIOUS
<1> USE DEF game, rows, losses, ghosts
<1>1. ASSUME NEW v \in Previewers, Preview(v) PROVE TypeOK'
  <2>1. [fingerprint |-> Fingerprint(Summary, policy), version |-> policy.version,
         ttl |-> PlanTicks] \in Drafts
    BY SummaryType, BoundsAssumption DEF TypeOK, Drafts, Policies
  <2>2. QED BY <1>1, <2>1 DEF Preview, TypeOK
<1>2. ASSUME NEW v \in Previewers, NEW p \in Plans, SavePreview(v, p) PROVE TypeOK'
  <2>1. drafts[v] \in Drafts
    BY <1>2 DEF SavePreview, TypeOK
  <2>2. [state |-> "pending", fingerprint |-> drafts[v].fingerprint,
         version |-> drafts[v].version, ttl |-> drafts[v].ttl,
         owner |-> None, lease |-> 0] \in PlanRows
    BY <2>1, BoundsAssumption DEF Drafts, PlanRows, PlanStates, Fresh
  <2>3. QED BY <1>2, <2>2 DEF SavePreview, TypeOK
<1>3. ASSUME NEW v \in Previewers, LosePreview(v) PROVE TypeOK'
  BY <1>3, BoundsAssumption DEF LosePreview, TypeOK
<1>4. ASSUME NEW e \in Executors, HoldGuard(e) PROVE TypeOK'
  BY <1>4, CallTypes DEF HoldGuard, Goto, Steps, TypeOK
<1>5. ASSUME NEW e \in Executors, NEW p \in Plans, ClaimFresh(e, p) PROVE TypeOK'
  <2>1. [plans[p] EXCEPT !.state = "executing", !.owner = e, !.lease = LeaseTicks,
                        !.ttl = 0] \in PlanRows
    BY RowUpdate, Timers DEF TypeOK, PlanStates
  <2>2. [ex[e] EXCEPT !.step = "claimed", !.plan = p] \in Calls
    BY DEF TypeOK, Calls, Steps
  <2>3. QED BY <1>5, <2>1, <2>2 DEF ClaimFresh, TypeOK
<1>6. ASSUME NEW e \in Executors, NEW p \in Plans, NEW r \in RecoveryFlags,
             ClaimExpired(e, p, r)
      PROVE  TypeOK'
  <2>1. [plans[p] EXCEPT !.owner = e, !.lease = LeaseTicks] \in PlanRows
    BY RowUpdate, Timers DEF TypeOK, PlanStates
  <2>2. [ex[e] EXCEPT !.step = "recovering", !.plan = p] \in Calls
    BY DEF TypeOK, Calls, Steps
  <2>3. QED BY <1>6, <2>1, <2>2 DEF ClaimExpired, TypeOK
<1>7. ASSUME NEW e \in Executors, NEW p \in Plans, NEW r \in RecoveryFlags,
             RefuseClaim(e, p, r)
      PROVE  TypeOK'
  BY <1>7, CallTypes DEF RefuseClaim, TypeOK
<1>8. ASSUME NEW e \in Executors, EnterAccount(e) PROVE TypeOK'
  <2>1. \A s \in Steps : [ex[e] EXCEPT !.step = s, !.policy = policy] \in Calls
    BY DEF TypeOK, Calls
  <2>2. (IF ex[e].step = "claimed" THEN "reading" ELSE "rereading") \in Steps
    BY DEF Steps
  <2>3. QED BY <1>8, <2>1, <2>2 DEF EnterAccount, TypeOK
<1>9. ASSUME NEW e \in Executors, ReadBefore(e) PROVE TypeOK'
  <2>1. [ex[e] EXCEPT !.step = "checking", !.before = Summary] \in Calls
    BY SummaryType DEF TypeOK, Calls, Steps
  <2>2. QED BY <1>9, <2>1 DEF ReadBefore, TypeOK
<1>10. ASSUME NEW e \in Executors, CheckPlan(e) PROVE TypeOK'
  BY <1>10, CallTypes DEF CheckPlan, Goto, Steps, Outcomes, TypeOK
<1>11. ASSUME NEW e \in Executors, SendCollect(e) PROVE TypeOK'
  <2>1. ex' \in [Executors -> Calls]
    BY <1>11, CallTypes DEF SendCollect, Goto, Steps
  <2>2. sent \in [Plans -> Nat] /\ sent' = [sent EXCEPT ![ex[e].plan] = @ + 1]
    BY <1>11 DEF SendCollect, TypeOK
  <2>3. sent' \in [Plans -> Nat]
    BY <2>2, Increment
  <2>4. net' \in [Plans -> {"none", "inflight", "collected", "refused"}]
    BY <1>11 DEF SendCollect, TypeOK
  <2>5. QED BY <1>11, <2>1, <2>3, <2>4 DEF SendCollect, TypeOK
<1>12. ASSUME NEW e \in Executors, ReadAfter(e) PROVE TypeOK'
  BY <1>12, CallTypes DEF ReadAfter, Outcomes, TypeOK
<1>13. ASSUME NEW e \in Executors, CollectRaised(e) PROVE TypeOK'
  BY <1>13, CallTypes DEF CollectRaised, Outcomes, TypeOK
<1>14. ASSUME NEW e \in Executors, Reread(e) PROVE TypeOK'
  BY <1>14, CallTypes DEF Reread, Outcomes, TypeOK
<1>15. ASSUME NEW e \in Executors, LeaveAccount(e) PROVE TypeOK'
  BY <1>15, CallTypes DEF LeaveAccount, Goto, Steps, TypeOK
<1>16. ASSUME NEW e \in Executors, Finish(e) PROVE TypeOK'
  <2>1. Verdict(ex[e].outcome) \in PlanStates
    BY DEF Verdict, PlanStates, Terminal
  <2>2. \A p \in Plans : [plans[p] EXCEPT !.state = Verdict(ex[e].outcome),
                        !.owner = None, !.lease = 0] \in PlanRows
    BY <2>1, RowUpdate, Timers DEF TypeOK
  <2>3. plans' \in [Plans -> PlanRows]
    <3>1. CASE Owned(e)
      <4>1. /\ plans \in [Plans -> PlanRows]
            /\ plans' = [plans EXCEPT ![ex[e].plan] =
                 [@ EXCEPT !.state = Verdict(ex[e].outcome), !.owner = None, !.lease = 0]]
        BY <1>16, <3>1 DEF Finish, TypeOK
      <4>2. QED BY <2>2, <4>1
    <3>2. CASE ~Owned(e)
      BY <1>16, <3>2 DEF Finish, TypeOK
    <3>3. QED BY <3>1, <3>2
  <2>4. QED BY <1>16, <2>3, CallTypes DEF Finish, TypeOK
<1>17. ASSUME NEW e \in Executors, Abandon(e) PROVE TypeOK'
  BY <1>17, CallTypes, BoundsAssumption DEF Abandon, TypeOK
<1>18. ASSUME DropGuard \/ DropLock PROVE TypeOK'
  BY <1>18, BoundsAssumption DEF DropGuard, DropLock, TypeOK
<1>19. ASSUME NEW p \in Plans, ServeCollect(p) PROVE TypeOK'
  BY <1>19, Timers DEF ServeCollect, Collected, TypeOK
<1>20. ASSUME PlayerCollects \/ CapacityChanges PROVE TypeOK'
  BY <1>20, Timers DEF PlayerCollects, CapacityChanges, Collected, TypeOK
<1>21. ASSUME NEW t \in Thresholds, SavePolicy(t) PROVE TypeOK'
  BY <1>21, BoundsAssumption DEF SavePolicy, TypeOK, Policies
<1>22. ASSUME Tick PROVE TypeOK'
  <2>1. ASSUME NEW p \in Plans
        PROVE  [plans[p] EXCEPT !.ttl = Less(@), !.lease = Less(@)] \in PlanRows
    <3>1. Less(plans[p].ttl) \in 0..PlanTicks /\ Less(plans[p].lease) \in 0..LeaseTicks
      BY BoundsAssumption DEF TypeOK, PlanRows, Less
    <3>2. QED BY <3>1 DEF TypeOK, PlanRows
  <2>2. ASSUME NEW v \in Previewers, drafts[v] # None
        PROVE  [drafts[v] EXCEPT !.ttl = Less(@)] \in Drafts
    <3>1. drafts[v] \in Drafts
      BY <2>2 DEF TypeOK
    <3>2. Less(drafts[v].ttl) \in 0..PlanTicks
      BY <3>1, BoundsAssumption DEF Drafts, Less
    <3>3. QED BY <3>1, <3>2 DEF Drafts
  <2>3. plans' \in [Plans -> PlanRows]
    BY <1>22, <2>1 DEF Tick
  <2>4. drafts' \in [Previewers -> Drafts \cup {None}]
    BY <1>22, <2>2 DEF Tick
  <2>5. idle' \in 0..MaxIdle
    BY <1>22, Timers DEF Tick, TypeOK
  <2>6. QED BY <1>22, <2>3, <2>4, <2>5 DEF Tick, TypeOK
<1>23. CASE UNCHANGED vars
  BY <1>23 DEF vars, TypeOK
<1>24. QED
  BY <1>1, <1>2, <1>3, <1>4, <1>5, <1>6, <1>7, <1>8, <1>9, <1>10, <1>11, <1>12,
     <1>13, <1>14, <1>15, <1>16, <1>17, <1>18, <1>19, <1>20, <1>21, <1>22, <1>23
  DEF Next, Execute, Run, Previewing, Environment

(* The rows, locks and calls keep their types, and the ghosts stay where   *)
(* they belong, for any constants (the rows and locals of idle.py).        *)
THEOREM TypeCorrect == Spec => []TypeOK
<1>1. QED BY InitTypes, NextTypes, PTL DEF Spec

-----------------------------------------------------------------------------
(* At most one request per plan.  The argument: a plan that still waits    *)
(* has never been requested, and nobody who is about to request holds it;  *)
(* two calls about to request hold different plans; and a call about to    *)
(* request holds a plan that has not been requested.  Only ClaimFresh      *)
(* makes a call one that is about to request.                              *)

PreSend(e) == ex[e].step \in {"claimed", "reading", "checking", "sending"}
Untouched(p) == plans[p].state \in Fresh \cup {"absent"}

SendInv ==
  /\ \A e \in Executors : PreSend(e) => ex[e].plan \in Plans /\ sent[ex[e].plan] = 0
  /\ \A e, f \in Executors :
       PreSend(e) /\ PreSend(f) /\ ex[e].plan = ex[f].plan => e = f
  /\ \A p \in Plans : Untouched(p) =>
       sent[p] = 0 /\ \A e \in Executors : PreSend(e) => ex[e].plan # p
  /\ AtMostOneSend

(* A step that sends nothing, brings no plan back and makes no call one    *)
(* that is about to send keeps the invariant.                              *)
LEMMA SendFrame ==
  ASSUME SendInv, UNCHANGED sent,
         \A p \in Plans : Untouched(p)' => Untouched(p),
         \A e \in Executors : PreSend(e)' => PreSend(e) /\ ex'[e].plan = ex[e].plan
  PROVE  SendInv'
<1>1. \A e \in Executors :
        PreSend(e)' => ex'[e].plan \in Plans /\ sent'[ex'[e].plan] = 0
  BY DEF SendInv
<1>2. \A e, f \in Executors :
        PreSend(e)' /\ PreSend(f)' /\ ex'[e].plan = ex'[f].plan => e = f
  BY DEF SendInv
<1>3. \A p \in Plans : Untouched(p)' =>
        sent'[p] = 0 /\ \A e \in Executors : PreSend(e)' => ex'[e].plan # p
  BY DEF SendInv
<1>4. AtMostOneSend'
  BY DEF SendInv, AtMostOneSend
<1>5. QED BY <1>1, <1>2, <1>3, <1>4 DEF SendInv

(* The steps of a call that do not claim and do not send.                  *)
LEMMA CallFrame ==
  ASSUME TypeOK, NEW e \in Executors,
         \/ ex' = [ex EXCEPT ![e] = NoCall]
         \/ \E o \in Outcomes : Leave(e, o)
         \/ \E s \in Steps : Goto(e, s) /\ (s \in {"checking", "sending"} => PreSend(e))
                                       /\ s \notin {"claimed", "reading"}
  PROVE  \A f \in Executors : PreSend(f)' => PreSend(f) /\ ex'[f].plan = ex[f].plan
<1>1. CASE ex' = [ex EXCEPT ![e] = NoCall]
  BY <1>1 DEF TypeOK, NoCall, PreSend
<1>2. CASE \E o \in Outcomes : Leave(e, o)
  BY <1>2 DEF TypeOK, Leave, NoCall, PreSend
<1>3. CASE \E s \in Steps : Goto(e, s) /\ (s \in {"checking", "sending"} => PreSend(e))
                                      /\ s \notin {"claimed", "reading"}
  BY <1>3 DEF TypeOK, Goto, PreSend, Calls
<1>4. QED BY <1>1, <1>2, <1>3

LEMMA SendInductive == TypeOK /\ SendInv /\ [Next]_vars => SendInv'
<1> SUFFICES ASSUME TypeOK, SendInv, [Next]_vars PROVE SendInv'
  OBVIOUS
<1> USE DEF game, rows, losses, ghosts
<1>1. ASSUME UNCHANGED <<ex, plans, sent>> PROVE SendInv'
  BY <1>1, SendFrame DEF PreSend, Untouched
<1>2. ASSUME NEW v \in Previewers, NEW p \in Plans, SavePreview(v, p) PROVE SendInv'
  <2>1. \A q \in Plans : Untouched(q)' => Untouched(q)
    BY <1>2 DEF SavePreview, Untouched, TypeOK
  <2>2. QED BY <1>2, <2>1, SendFrame DEF SavePreview, PreSend
<1>3. ASSUME NEW e \in Executors, NEW p \in Plans, ClaimFresh(e, p) PROVE SendInv'
  <2>1. /\ Untouched(p)
        /\ \A q \in Plans : Untouched(q)' => q # p /\ Untouched(q)
    BY <1>3 DEF ClaimFresh, CanClaim, Untouched, TypeOK, PlanRows, Fresh
  <2>2. /\ ex'[e].step = "claimed" /\ ex'[e].plan = p
        /\ \A f \in Executors : f # e => ex'[f] = ex[f]
    BY <1>3 DEF ClaimFresh, TypeOK, Calls
  <2>3. UNCHANGED sent
    BY <1>3 DEF ClaimFresh
  <2>4. QED BY <2>1, <2>2, <2>3 DEF SendInv, PreSend, AtMostOneSend
<1>4. ASSUME NEW e \in Executors, NEW p \in Plans, NEW r \in RecoveryFlags,
             ClaimExpired(e, p, r)
      PROVE  SendInv'
  <2>1. \A q \in Plans : Untouched(q)' => Untouched(q)
    BY <1>4 DEF ClaimExpired, Untouched, TypeOK, PlanRows
  <2>2. \A f \in Executors : PreSend(f)' => PreSend(f) /\ ex'[f].plan = ex[f].plan
    BY <1>4 DEF ClaimExpired, PreSend, TypeOK, Calls
  <2>3. QED BY <1>4, <2>1, <2>2, SendFrame DEF ClaimExpired
<1>5. ASSUME NEW e \in Executors, EnterAccount(e) PROVE SendInv'
  <2>1. \A f \in Executors : PreSend(f)' => PreSend(f) /\ ex'[f].plan = ex[f].plan
    BY <1>5 DEF EnterAccount, PreSend, TypeOK, Calls
  <2>2. QED BY <1>5, <2>1, SendFrame DEF EnterAccount, Untouched
<1>6. ASSUME NEW e \in Executors, ReadBefore(e) PROVE SendInv'
  <2>1. \A f \in Executors : PreSend(f)' => PreSend(f) /\ ex'[f].plan = ex[f].plan
    BY <1>6 DEF ReadBefore, PreSend, TypeOK, Calls
  <2>2. QED BY <1>6, <2>1, SendFrame DEF ReadBefore, Untouched
<1>7. ASSUME NEW e \in Executors, SendCollect(e) PROVE SendInv'
  <2> DEFINE q == ex[e].plan
  <2>1. PreSend(e) /\ q \in Plans /\ sent[q] = 0 /\ ~Untouched(q)
    BY <1>7 DEF SendCollect, PreSend, SendInv
  <2>2. sent'[q] = 1 /\ \A p \in Plans : p # q => sent'[p] = sent[p]
    BY <1>7, <2>1 DEF SendCollect, TypeOK
  <2>3. \A f \in Executors :
          PreSend(f)' => PreSend(f) /\ ex'[f].plan = ex[f].plan /\ ex[f].plan # q
    BY <1>7, <2>1 DEF SendCollect, Goto, PreSend, SendInv, TypeOK, Calls
  <2>4. \A p \in Plans : Untouched(p)' <=> Untouched(p)
    BY <1>7 DEF SendCollect, Untouched
  <2>5. \A p \in Plans : sent'[p] <= 1
    BY <2>2 DEF SendInv, AtMostOneSend
  <2>6. QED BY <2>1, <2>2, <2>3, <2>4, <2>5 DEF SendInv, AtMostOneSend
<1>8. ASSUME NEW e \in Executors,
             HoldGuard(e) \/ CheckPlan(e) \/ ReadAfter(e) \/ CollectRaised(e)
               \/ Reread(e) \/ LeaveAccount(e) \/ Abandon(e)
               \/ \E p \in Plans, r \in RecoveryFlags : RefuseClaim(e, p, r)
      PROVE  SendInv'
  <2>1. UNCHANGED <<plans, sent>>
    BY <1>8 DEF HoldGuard, CheckPlan, ReadAfter, CollectRaised, Reread, LeaveAccount,
                Abandon, RefuseClaim
  <2>2. \A f \in Executors : PreSend(f)' => PreSend(f) /\ ex'[f].plan = ex[f].plan
    BY <1>8, CallFrame DEF HoldGuard, CheckPlan, ReadAfter, CollectRaised, Reread,
         LeaveAccount, Abandon, RefuseClaim, Unwind, Steps, Outcomes, PreSend
  <2>3. QED BY <2>1, <2>2, SendFrame DEF Untouched
<1>9. ASSUME NEW e \in Executors, Finish(e) PROVE SendInv'
  <2>1. \A p \in Plans : Untouched(p)' => Untouched(p)
    <3>1. Verdict(ex[e].outcome) \notin Fresh \cup {"absent"}
      BY DEF Verdict, Fresh
    <3>2. CASE Owned(e)
      <4>1. \A p \in Plans : plans'[p] = IF p = ex[e].plan
              THEN [plans[p] EXCEPT !.state = Verdict(ex[e].outcome), !.owner = None,
                                    !.lease = 0]
              ELSE plans[p]
        BY <1>9, <3>2 DEF Finish, TypeOK
      <4>2. \A p \in Plans : plans'[p].state =
              IF p = ex[e].plan THEN Verdict(ex[e].outcome) ELSE plans[p].state
        BY <4>1 DEF TypeOK, PlanRows
      <4>3. QED BY <3>1, <4>2 DEF Untouched
    <3>3. CASE ~Owned(e)
      BY <1>9, <3>3 DEF Finish, Untouched
    <3>4. QED BY <3>2, <3>3
  <2>2. \A f \in Executors : PreSend(f)' => PreSend(f) /\ ex'[f].plan = ex[f].plan
    BY <1>9, CallFrame DEF Finish, Unwind
  <2>3. QED BY <1>9, <2>1, <2>2, SendFrame DEF Finish
<1>10. ASSUME Tick PROVE SendInv'
  <2>1. \A p \in Plans : plans'[p].state = plans[p].state
    BY <1>10 DEF Tick, TypeOK, PlanRows
  <2>2. QED BY <1>10, <2>1, SendFrame DEF Tick, PreSend, Untouched
<1>11. CASE UNCHANGED vars
  BY <1>1, <1>11 DEF vars
<1>12. CASE Next
  <2>1. ASSUME NEW e \in Executors, Execute(e) PROVE SendInv'
    BY <2>1, <1>3, <1>4, <1>5, <1>6, <1>7, <1>8, <1>9 DEF Execute, Run
  <2>2. ASSUME NEW v \in Previewers, Previewing(v) PROVE SendInv'
    BY <2>2, <1>1, <1>2 DEF Previewing, Preview, LosePreview
  <2>3. ASSUME Environment PROVE SendInv'
    BY <2>3, <1>1, <1>10 DEF Environment, DropGuard, DropLock, ServeCollect,
         PlayerCollects, CapacityChanges, SavePolicy
  <2>4. QED BY <1>12, <2>1, <2>2, <2>3 DEF Next
<1>13. QED BY <1>11, <1>12

(* idle_collect is sent at most once for a plan, however many calls race,  *)
(* crash, lose their locks and recover (claim, _send_once, _recover).      *)
THEOREM SendOnce == Spec => []AtMostOneSend
<1>1. Init => SendInv
  BY DEF Init, SendInv, PreSend, Untouched, AtMostOneSend, NoCall
<1>2. SendInv => AtMostOneSend
  BY DEF SendInv
<1>3. QED BY <1>1, <1>2, TypeCorrect, SendInductive, PTL DEF Spec

-----------------------------------------------------------------------------
(* Executed means collected.  The argument: as long as nobody has          *)
(* collected since a preview, every policy of the preview's version that a *)
(* call still works with decides "collect", because idle time only grows   *)
(* between collections and a version never changes its threshold.  So a    *)
(* re-read that says "wait" under that version proves a collection.        *)

OneCapacity == \A c, d \in Capacities : c = d

LivePolicies == {policy} \cup {ex[e].policy : e \in {f \in Executors : ex[f].policy # None}}
Due(version) ==
  \A p \in LivePolicies : p.version = version => Decision(Summary, p) = "collect"

InAccount == {"reading", "checking", "sending", "waiting", "rereading"}

VersionInv ==
  /\ \A p \in LivePolicies : p.version <= policy.version
  /\ \A p \in LivePolicies : p.version = policy.version => p = policy
  /\ \A p \in Plans : plans[p].version <= policy.version
  /\ \A v \in Previewers : drafts[v] # None => drafts[v].version <= policy.version

OfferInv ==
  /\ \A p \in Plans : plans[p].state # "absent" => paid[p] \/ Due(plans[p].version)
  /\ \A v \in Previewers : drafts[v] # None => paid[v] \/ Due(drafts[v].version)

CallInv ==
  /\ \A e \in Executors : ex[e].step \in InAccount => ex[e].policy # None
  /\ \A e \in Executors : ex[e].step \notin {"out", "guarded"} => ex[e].plan \in Plans
  /\ \A e \in Executors : ex[e].plan # None => plans[ex[e].plan].state # "absent"
  /\ \A e \in Executors : ex[e].outcome \in {"executed", "reconciled"} =>
       ex[e].step \notin {"out", "guarded"} /\ paid[ex[e].plan]
  /\ \A p \in Plans : net[p] = "collected" => paid[p]
  /\ \A p \in Plans : plans[p].state = "absent" => net[p] = "none"

PaidInv == VersionInv /\ OfferInv /\ CallInv /\ ExecutedMeansCollected

(* Idle time that grows keeps a "collect" decision.                        *)
LEMMA CollectGrows ==
  ASSUME NEW p \in Policies, NEW i \in Nat, NEW j \in Nat, i <= j,
         NEW c \in Capacities,
         Decision([seconds |-> i, capacity |-> c], p) = "collect"
  PROVE  Decision([seconds |-> j, capacity |-> c], p) = "collect"
<1> DEFINE t == Threshold(p, [seconds |-> i, capacity |-> c])
<1>1. t \in Int /\ t = Threshold(p, [seconds |-> j, capacity |-> c])
  <2>1. p.threshold \in Nat /\ c \in Nat \cup {NoCeiling}
    <3>1. p.threshold \in Thresholds
      BY DEF Policies
    <3>2. p.threshold \in 0..MaxIdle
      BY <3>1, ThresholdAssumption
    <3>3. p.threshold \in Nat
      BY <3>2, BoundsAssumption
    <3>4. c \in Nat \cup {NoCeiling}
      BY ThresholdAssumption
    <3>5. QED BY <3>3, <3>4
  <2>2. QED BY <2>1, ThresholdAssumption DEF Threshold
<1>2. i >= t
  BY DEF Decision
<1>3. j >= t
  BY <1>1, <1>2
<1>4. QED BY <1>1, <1>3 DEF Decision

(* What a step may do to the policies in use.                              *)
LEMMA PolicySteps ==
  ASSUME TypeOK, Next
  PROVE  \/ \E t \in Thresholds : SavePolicy(t)
         \/ /\ policy' = policy
            /\ \A f \in Executors : ex'[f].policy \in {ex[f].policy, None, policy}
<1> USE DEF game, rows, losses, ghosts
<1>1. ASSUME NEW v \in Previewers, Previewing(v)
      PROVE  UNCHANGED <<policy, ex>>
  BY <1>1 DEF Previewing, Preview, LosePreview, SavePreview
<1>2. ASSUME Environment, \A t \in Thresholds : ~SavePolicy(t)
      PROVE  UNCHANGED <<policy, ex>>
  BY <1>2 DEF Environment, DropGuard, DropLock, ServeCollect, PlayerCollects,
              CapacityChanges, Tick
<1>3. ASSUME NEW e \in Executors, Execute(e)
      PROVE  /\ policy' = policy
             /\ \A f \in Executors : ex'[f].policy \in {ex[f].policy, None, policy}
  <2>1. policy' = policy
    BY <1>3 DEF Execute, Run, HoldGuard, ClaimFresh, ClaimExpired, RefuseClaim,
         EnterAccount, ReadBefore, CheckPlan, SendCollect, ReadAfter, CollectRaised,
         Reread, LeaveAccount, Finish, Abandon
  <2>2. CASE Unwind(e)
    BY <2>1, <2>2 DEF Unwind, NoCall, TypeOK
  <2>3. CASE \E o : Leave(e, o)
    BY <2>1, <2>3 DEF Leave, NoCall, TypeOK
  <2>4. CASE \E s : Goto(e, s)
    BY <2>1, <2>4 DEF Goto, TypeOK, Calls
  <2>5. CASE EnterAccount(e)
    BY <2>5 DEF EnterAccount, TypeOK, Calls
  <2>6. CASE ReadBefore(e)
    BY <2>6 DEF ReadBefore, TypeOK, Calls
  <2>7. CASE \E p \in Plans : ClaimFresh(e, p)
    BY <2>7 DEF ClaimFresh, TypeOK, Calls
  <2>8. CASE \E p \in Plans, r \in RecoveryFlags : ClaimExpired(e, p, r)
    BY <2>8 DEF ClaimExpired, TypeOK, Calls
  <2>9. QED
    BY <1>3, <2>1, <2>2, <2>3, <2>4, <2>5, <2>6, <2>7, <2>8
    DEF Execute, Run, HoldGuard, RefuseClaim, CheckPlan, SendCollect, ReadAfter,
        CollectRaised, Reread, LeaveAccount, Finish, Abandon
<1>4. QED BY <1>1, <1>2, <1>3 DEF Next

(* What a step may do to the rows of the plans ...                         *)
LEMMA PlanSteps ==
  ASSUME TypeOK, Next, NEW p \in Plans
  PROVE  \/ \E v \in Previewers : SavePreview(v, p)
         \/ /\ plans'[p].version = plans[p].version
            /\ plans'[p].state = "absent" <=> plans[p].state = "absent"
<1> USE DEF game, rows, losses, ghosts
<1>1. CASE UNCHANGED plans
  BY <1>1
<1>2. ASSUME NEW v \in Previewers, NEW q \in Plans, SavePreview(v, q), q # p
      PROVE  plans'[p] = plans[p]
  BY <1>2 DEF SavePreview, TypeOK
<1>3. ASSUME NEW e \in Executors, NEW q \in Plans, ClaimFresh(e, q)
      PROVE  /\ plans'[p].version = plans[p].version
             /\ plans'[p].state = "absent" <=> plans[p].state = "absent"
  BY <1>3 DEF ClaimFresh, CanClaim, TypeOK, PlanRows, Fresh
<1>4. ASSUME NEW e \in Executors, NEW q \in Plans, NEW r \in RecoveryFlags,
             ClaimExpired(e, q, r)
      PROVE  plans'[p].version = plans[p].version /\ plans'[p].state = plans[p].state
  BY <1>4 DEF ClaimExpired, TypeOK, PlanRows
<1>5. ASSUME NEW e \in Executors, Finish(e)
      PROVE  /\ plans'[p].version = plans[p].version
             /\ plans'[p].state = "absent" <=> plans[p].state = "absent"
  <2>1. Verdict(ex[e].outcome) # "absent"
    BY DEF Verdict
  <2>2. CASE Owned(e) /\ ex[e].plan = p
    <3>1. plans'[p] = [plans[p] EXCEPT !.state = Verdict(ex[e].outcome),
                                       !.owner = None, !.lease = 0]
      BY <1>5, <2>2 DEF Finish, TypeOK
    <3>2. QED BY <2>1, <2>2, <3>1 DEF Owned, TypeOK, PlanRows
  <2>3. CASE ~(Owned(e) /\ ex[e].plan = p)
    BY <1>5, <2>3 DEF Finish, TypeOK
  <2>4. QED BY <2>2, <2>3
<1>6. ASSUME Tick
      PROVE  plans'[p].version = plans[p].version /\ plans'[p].state = plans[p].state
  BY <1>6 DEF Tick, TypeOK, PlanRows
<1>7. QED
  BY <1>1, <1>2, <1>3, <1>4, <1>5, <1>6
  DEF Next, Previewing, Preview, LosePreview, Environment, DropGuard, DropLock,
      ServeCollect, PlayerCollects, CapacityChanges, SavePolicy, Execute, Run, HoldGuard,
      RefuseClaim, EnterAccount, ReadBefore, CheckPlan, SendCollect, ReadAfter,
      CollectRaised, Reread, LeaveAccount, Abandon

(* ... to the drafts ...                                                   *)
LEMMA DraftSteps ==
  ASSUME TypeOK, Next, NEW v \in Previewers, drafts'[v] # None
  PROVE  \/ Preview(v)
         \/ drafts[v] # None /\ drafts'[v].version = drafts[v].version
<1> USE DEF game, rows, losses, ghosts
<1>1. CASE UNCHANGED drafts
  BY <1>1
<1>2. ASSUME NEW w \in Previewers, Preview(w), w # v PROVE drafts'[v] = drafts[v]
  BY <1>2 DEF Preview, TypeOK
<1>3. ASSUME NEW w \in Previewers, LosePreview(w) \/ \E p \in Plans : SavePreview(w, p)
      PROVE  drafts'[v] = drafts[v]
  BY <1>3 DEF LosePreview, SavePreview, TypeOK
<1>4. ASSUME Tick
      PROVE  drafts[v] # None /\ drafts'[v].version = drafts[v].version
  <2>1. drafts[v] # None /\ drafts[v] \in Drafts
    BY <1>4 DEF Tick, TypeOK
  <2>2. drafts'[v] = [drafts[v] EXCEPT !.ttl = Less(@)]
    BY <1>4, <2>1 DEF Tick
  <2>3. QED BY <2>1, <2>2 DEF Drafts
<1>5. QED
  BY <1>1, <1>2, <1>3, <1>4
  DEF Next, Previewing, Environment, DropGuard, DropLock, ServeCollect, PlayerCollects,
      CapacityChanges, SavePolicy, Execute, Run, HoldGuard, ClaimFresh, ClaimExpired,
      RefuseClaim, EnterAccount, ReadBefore, CheckPlan, SendCollect, ReadAfter,
      CollectRaised, Reread, LeaveAccount, Finish, Abandon

(* ... and to the game: idle time only falls when somebody collects, and   *)
(* a collection is forgotten only by a new preview or a new plan.          *)
LEMMA GameSteps ==
  ASSUME TypeOK, Next
  PROVE  /\ \/ idle <= idle'
            \/ \A x \in Plans \cup Previewers : paid'[x]
         /\ \A x \in Plans \cup Previewers :
              paid[x] => \/ paid'[x]
                         \/ x \in Previewers /\ Preview(x)
                         \/ x \in Plans /\ \E v \in Previewers : SavePreview(v, x)
<1> USE DEF game, rows, losses, ghosts
<1>1. idle <= idle
  BY BoundsAssumption DEF TypeOK
<1>2. CASE UNCHANGED <<idle, paid>>
  BY <1>1, <1>2
<1>3. ASSUME NEW v \in Previewers, Previewing(v) PROVE
        /\ idle <= idle'
        /\ \A x \in Plans \cup Previewers :
             paid[x] => \/ paid'[x]
                        \/ x \in Previewers /\ Preview(x)
                        \/ x \in Plans /\ \E w \in Previewers : SavePreview(w, x)
  BY <1>1, <1>3 DEF Previewing, Preview, LosePreview, SavePreview, TypeOK
<1>4. CASE Collected
  BY <1>4 DEF Collected
<1>5. CASE Tick
  <2>1. idle \in 0..MaxIdle /\ paid' = paid /\ idle' = IF idle < MaxIdle THEN idle + 1 ELSE idle
    BY <1>5 DEF Tick, TypeOK
  <2>2. idle <= idle'
    BY <2>1, BoundsAssumption
  <2>3. QED BY <2>1, <2>2
<1>6. QED
  BY <1>2, <1>3, <1>4, <1>5
  DEF Next, Environment, DropGuard, DropLock, ServeCollect, PlayerCollects,
      CapacityChanges, SavePolicy, Execute, Run, HoldGuard, ClaimFresh, ClaimExpired,
      RefuseClaim, EnterAccount, ReadBefore, CheckPlan, SendCollect, ReadAfter,
      CollectRaised, Reread, LeaveAccount, Finish, Abandon

LEMMA VersionInductive ==
  ASSUME TypeOK, VersionInv, Next
  PROVE  VersionInv'
<1>1. \A p \in Plans : plans'[p].version <= policy.version
  <2>1. SUFFICES ASSUME NEW p \in Plans PROVE plans'[p].version <= policy.version
    OBVIOUS
  <2>2. CASE plans'[p].version = plans[p].version
    BY <2>2 DEF VersionInv
  <2>3. ASSUME NEW v \in Previewers, SavePreview(v, p)
        PROVE  plans'[p].version <= policy.version
    <3>1. plans'[p].version = drafts[v].version /\ drafts[v] # None
      BY <2>3 DEF SavePreview, TypeOK
    <3>2. QED BY <3>1 DEF VersionInv
  <2>4. QED BY <2>2, <2>3, PlanSteps
<1>2. \A v \in Previewers : drafts'[v] # None => drafts'[v].version <= policy.version
  <2>1. SUFFICES ASSUME NEW v \in Previewers, drafts'[v] # None
                 PROVE  drafts'[v].version <= policy.version
    OBVIOUS
  <2>2. CASE Preview(v)
    <3>1. drafts'[v].version = policy.version /\ policy.version \in 1..MaxVersion
      BY <2>2 DEF Preview, TypeOK, Policies
    <3>2. QED BY <3>1, BoundsAssumption
  <2>3. CASE drafts[v] # None /\ drafts'[v].version = drafts[v].version
    BY <2>3 DEF VersionInv
  <2>4. QED BY <2>1, <2>2, <2>3, DraftSteps
<1>3. CASE \E t \in Thresholds : SavePolicy(t)
  <2>1. PICK t \in Thresholds : SavePolicy(t)
    BY <1>3
  <2>2. /\ policy'.version = policy.version + 1
        /\ policy.version \in Nat
        /\ \A p \in LivePolicies' : p = policy' \/ p \in LivePolicies
        /\ \A p \in LivePolicies : p.version \in Nat
    <3>1. policy \in Policies /\ \A e \in Executors : ex[e].policy \in Policies \cup {None}
      BY DEF TypeOK, Calls
    <3>2. \A p \in Policies : p.version \in Nat
      BY BoundsAssumption DEF Policies
    <3>3. \A p \in LivePolicies : p \in Policies
      BY <3>1 DEF LivePolicies
    <3>4. \A p \in LivePolicies' : p = policy' \/ p \in LivePolicies
      BY <2>1 DEF SavePolicy, LivePolicies
    <3>5. policy'.version = policy.version + 1
      BY <2>1 DEF SavePolicy
    <3>6. QED BY <3>1, <3>2, <3>3, <3>4, <3>5
  <2>3. \A p \in Plans : plans[p].version \in Nat
    BY BoundsAssumption DEF TypeOK, PlanRows
  <2>4. \A v \in Previewers : drafts[v] # None => drafts[v].version \in Nat
    BY BoundsAssumption DEF TypeOK, Drafts
  <2>5. UNCHANGED <<plans, drafts>>
    BY <2>1 DEF SavePolicy
  <2>6. \A p \in LivePolicies' : p.version <= policy'.version
    BY <2>2 DEF VersionInv
  <2>7. \A p \in LivePolicies' : p.version = policy'.version => p = policy'
    BY <2>2 DEF VersionInv
  <2>8. \A p \in Plans : plans'[p].version <= policy'.version
    BY <2>2, <2>3, <2>5 DEF VersionInv
  <2>9. \A v \in Previewers : drafts'[v] # None => drafts'[v].version <= policy'.version
    BY <2>2, <2>4, <2>5 DEF VersionInv
  <2>10. QED BY <2>6, <2>7, <2>8, <2>9 DEF VersionInv
<1>4. CASE /\ policy' = policy
           /\ \A f \in Executors : ex'[f].policy \in {ex[f].policy, None, policy}
  <2>1. LivePolicies' \subseteq LivePolicies
    BY <1>4 DEF LivePolicies
  <2>2. QED BY <1>1, <1>2, <1>4, <2>1 DEF VersionInv
<1>5. QED BY <1>3, <1>4, PolicySteps

(* An offer whose reward nobody has taken is still due after a step.       *)
LEMMA DueStays ==
  ASSUME TypeOK, VersionInv, OneCapacity, Next, NEW n \in Nat, n <= policy.version,
         Due(n), idle <= idle'
  PROVE  Due(n)'
<1>1. /\ policy \in Policies
      /\ \A e \in Executors : ex[e].policy \in Policies \cup {None}
      /\ idle \in 0..MaxIdle /\ capacity \in Capacities
  BY DEF TypeOK, Calls
<1>2. TypeOK'
  BY NextTypes
<1>3. idle' \in 0..MaxIdle /\ capacity' \in Capacities /\ capacity' = capacity
  BY <1>1, <1>2 DEF TypeOK, OneCapacity
<1>4. \A p \in LivePolicies' : p.version = n => p \in LivePolicies
  <2>1. CASE \E t \in Thresholds : SavePolicy(t)
    <3>1. policy'.version = policy.version + 1
          /\ \A p \in LivePolicies' : p = policy' \/ p \in LivePolicies
      BY <2>1 DEF SavePolicy, LivePolicies
    <3>2. policy.version \in Nat
      BY <1>1, BoundsAssumption DEF Policies
    <3>3. QED BY <3>1, <3>2
  <2>2. CASE /\ policy' = policy
             /\ \A f \in Executors : ex'[f].policy \in {ex[f].policy, None, policy}
    BY <2>2 DEF LivePolicies
  <2>3. QED BY <2>1, <2>2, PolicySteps
<1>5. SUFFICES ASSUME NEW p \in LivePolicies', p.version = n
               PROVE  Decision(Summary', p) = "collect"
  BY DEF Due
<1>6. p \in LivePolicies /\ p \in Policies
  BY <1>1, <1>4, <1>5 DEF LivePolicies
<1>7. Decision(Summary, p) = "collect"
  BY <1>5, <1>6 DEF Due
<1>8. idle \in Nat /\ idle' \in Nat
  BY <1>1, <1>3, BoundsAssumption
<1>9. QED BY <1>1, <1>3, <1>6, <1>7, <1>8, CollectGrows DEF Summary

LEMMA OfferInductive ==
  ASSUME TypeOK, VersionInv, OfferInv, OneCapacity, Next
  PROVE  OfferInv'
<1>1. /\ \A p \in Plans : plans[p].version \in Nat
      /\ \A v \in Previewers : drafts[v] # None => drafts[v].version \in Nat
  BY BoundsAssumption DEF TypeOK, PlanRows, Drafts
<1>2. CASE \A x \in Plans \cup Previewers : paid'[x]
  BY <1>2 DEF OfferInv
<1>3. CASE idle <= idle'
  <2>1. ASSUME NEW p \in Plans, plans'[p].state # "absent"
        PROVE  (paid[p] \/ Due(plans[p].version))'
    <3>1. ASSUME NEW v \in Previewers, SavePreview(v, p)
          PROVE  (paid[p] \/ Due(plans[p].version))'
      <4>1. /\ drafts[v] # None /\ plans'[p].version = drafts[v].version
            /\ paid'[p] = paid[v]
        BY <3>1 DEF SavePreview, TypeOK
      <4>2. PICK n \in Nat : n = drafts[v].version
        BY <1>1, <4>1
      <4>3. n <= policy.version /\ (paid[v] \/ Due(n))
        BY <4>1, <4>2 DEF VersionInv, OfferInv
      <4>4. Due(n) => Due(n)'
        BY <1>3, <4>3, DueStays
      <4>5. QED BY <4>1, <4>2, <4>3, <4>4 DEF Due
    <3>2. CASE /\ plans'[p].version = plans[p].version
               /\ plans'[p].state = "absent" <=> plans[p].state = "absent"
               /\ \A v \in Previewers : ~SavePreview(v, p)
      <4>1. PICK n \in Nat : n = plans[p].version
        BY <1>1
      <4>2. n <= policy.version /\ (paid[p] \/ Due(n))
        BY <2>1, <3>2, <4>1 DEF VersionInv, OfferInv
      <4>3. Due(n) => Due(n)'
        BY <1>3, <4>2, DueStays
      <4>4. paid[p] => paid'[p]
        BY <3>2, GameSteps, NoneAssumption
      <4>5. QED BY <3>2, <4>1, <4>2, <4>3, <4>4 DEF Due
    <3>3. QED BY <3>1, <3>2, PlanSteps
  <2>2. ASSUME NEW v \in Previewers, drafts'[v] # None
        PROVE  (paid[v] \/ Due(drafts[v].version))'
    <3>1. CASE Preview(v)
      <4>1. /\ drafts'[v].version = policy.version
            /\ Decision(Summary, policy) = "collect"
            /\ UNCHANGED <<idle, capacity, policy, ex>>
        BY <3>1 DEF Preview, TypeOK, game, rows
      <4>2. \A p \in LivePolicies : p.version = policy.version => p = policy
        BY DEF VersionInv
      <4>3. policy' = policy /\ LivePolicies' = LivePolicies /\ Summary' = Summary
        BY <4>1 DEF LivePolicies, Summary
      <4>4. QED BY <4>1, <4>2, <4>3 DEF Due
    <3>2. CASE drafts[v] # None /\ drafts'[v].version = drafts[v].version /\ ~Preview(v)
      <4>1. PICK n \in Nat : n = drafts[v].version
        BY <1>1, <3>2
      <4>2. n <= policy.version /\ (paid[v] \/ Due(n))
        BY <3>2, <4>1 DEF VersionInv, OfferInv
      <4>3. Due(n) => Due(n)'
        BY <1>3, <4>2, DueStays
      <4>4. paid[v] => paid'[v]
        BY <3>2, GameSteps, NoneAssumption
      <4>5. QED BY <3>2, <4>1, <4>2, <4>3, <4>4 DEF Due
    <3>3. QED BY <2>2, <3>1, <3>2, DraftSteps
  <2>3. QED BY <2>1, <2>2 DEF OfferInv
<1>4. QED BY <1>2, <1>3, GameSteps

(* A re-read that says "wait" under the plan's version proves a collection.*)
LEMMA ProofOfPay ==
  ASSUME OfferInv, NEW e \in Executors, ex[e].policy # None, ex[e].plan \in Plans,
         plans[ex[e].plan].state # "absent", Proven(ex[e], Summary)
  PROVE  paid[ex[e].plan]
<1>1. ex[e].policy \in LivePolicies
  BY DEF LivePolicies
<1>2. /\ ex[e].policy.version = plans[ex[e].plan].version
      /\ Decision(Summary, ex[e].policy) = "wait"
  BY DEF Proven
<1>3. ~Due(plans[ex[e].plan].version)
  BY <1>1, <1>2 DEF Due
<1>4. QED BY <1>3 DEF OfferInv

(* What the steps of a call leave in its locals, against the old rows.     *)
CallOK(c) ==
  /\ c.step \in InAccount => c.policy # None
  /\ c.step \notin {"out", "guarded"} => c.plan \in Plans
  /\ c.plan # None => plans[c.plan].state # "absent"
  /\ c.outcome \in {"executed", "reconciled"} =>
       c.step \notin {"out", "guarded"} /\ paid[c.plan]

LEMMA CallSteps ==
  ASSUME TypeOK, OfferInv, CallInv, Next, NEW f \in Executors
  PROVE  CallOK(ex'[f])
<1> USE DEF game, rows, losses, ghosts
<1>1. CallOK(ex[f])
  BY DEF CallInv, CallOK
<1>2. CASE ex'[f] = ex[f]
  BY <1>1, <1>2
<1>3. ASSUME NEW e \in Executors, Execute(e), e # f
      PROVE  ex'[f] = ex[f]
  <2>1. CASE Unwind(e)
    BY <1>3, <2>1 DEF Unwind, TypeOK
  <2>2. CASE \E o : Leave(e, o)
    BY <1>3, <2>2 DEF Leave, TypeOK
  <2>3. CASE \E s : Goto(e, s)
    BY <1>3, <2>3 DEF Goto, TypeOK, Calls
  <2>4. CASE EnterAccount(e) \/ ReadBefore(e)
    BY <1>3, <2>4 DEF EnterAccount, ReadBefore, TypeOK, Calls
  <2>5. CASE \E p \in Plans : ClaimFresh(e, p)
    BY <1>3, <2>5 DEF ClaimFresh, TypeOK, Calls
  <2>6. CASE \E p \in Plans, r \in RecoveryFlags : ClaimExpired(e, p, r)
    BY <1>3, <2>6 DEF ClaimExpired, TypeOK, Calls
  <2>7. QED
    BY <1>3, <2>1, <2>2, <2>3, <2>4, <2>5, <2>6
    DEF Execute, Run, HoldGuard, RefuseClaim, CheckPlan, SendCollect, ReadAfter,
        CollectRaised, Reread, LeaveAccount, Finish, Abandon
<1>4. CASE Unwind(f)
  <2>1. ex'[f] = NoCall
    BY <1>4 DEF Unwind, TypeOK
  <2>2. QED BY <2>1, NoneAssumption DEF NoCall, CallOK, InAccount, Outcomes
<1>5. ASSUME NEW o, Leave(f, o), ex[f].plan \in Plans,
             o \in {"executed", "reconciled"} => paid[ex[f].plan]
      PROVE  CallOK(ex'[f])
  <2>1. /\ ex'[f].step = "leaving" /\ ex'[f].plan = ex[f].plan /\ ex'[f].outcome = o
    BY <1>5 DEF Leave, NoCall, TypeOK
  <2>2. QED BY <1>1, <1>5, <2>1 DEF CallOK, InAccount
<1>6. ASSUME NEW s, Goto(f, s), s # "out",
             s \in InAccount => ex[f].step \in InAccount,
             IF s = "guarded" THEN ex[f].step = "out"
                ELSE ex[f].step \notin {"out", "guarded"}
      PROVE  CallOK(ex'[f])
  <2>1. /\ ex'[f].step = s /\ ex'[f].plan = ex[f].plan
        /\ ex'[f].policy = ex[f].policy /\ ex'[f].outcome = ex[f].outcome
    BY <1>6 DEF Goto, TypeOK, Calls
  <2>2. QED BY <1>1, <1>6, <2>1 DEF CallOK, InAccount
<1>7. ASSUME NEW p \in Plans,
             ClaimFresh(f, p) \/ \E r \in RecoveryFlags : ClaimExpired(f, p, r)
      PROVE  CallOK(ex'[f])
  <2>1. /\ ex[f].step = "guarded" /\ plans[p].state # "absent"
        /\ ex'[f].step \in {"claimed", "recovering"} /\ ex'[f].plan = p
        /\ ex'[f].outcome = ex[f].outcome
    <3>1. CASE ClaimFresh(f, p)
      <4>1. ex'[f] = [ex[f] EXCEPT !.step = "claimed", !.plan = p] /\ ex[f] \in Calls
        BY <3>1 DEF ClaimFresh, TypeOK
      <4>2. ex[f].step = "guarded" /\ plans[p].state # "absent"
        BY <3>1 DEF ClaimFresh, CanClaim, Fresh
      <4>3. QED BY <4>1, <4>2 DEF Calls
    <3>2. CASE \E r \in RecoveryFlags : ClaimExpired(f, p, r)
      <4>1. ex'[f] = [ex[f] EXCEPT !.step = "recovering", !.plan = p] /\ ex[f] \in Calls
        BY <3>2 DEF ClaimExpired, TypeOK
      <4>2. ex[f].step = "guarded" /\ plans[p].state # "absent"
        BY <3>2 DEF ClaimExpired, CanRecover
      <4>3. QED BY <4>1, <4>2 DEF Calls
    <3>3. QED BY <1>7, <3>1, <3>2
  <2>2. QED BY <1>1, <1>7, <2>1 DEF CallOK, InAccount
<1>8. CASE EnterAccount(f)
  <2>1. /\ ex[f].step \in {"claimed", "recovering"}
        /\ ex'[f].step \in {"reading", "rereading"} /\ ex'[f].plan = ex[f].plan
        /\ ex'[f].outcome = ex[f].outcome /\ ex'[f].policy = policy
    BY <1>8 DEF EnterAccount, TypeOK, Calls
  <2>2. policy # None
    BY NoneAssumption DEF TypeOK, Policies
  <2>3. QED BY <1>1, <2>1, <2>2 DEF CallOK
<1>9. CASE ReadBefore(f)
  <2>1. /\ ex[f].step = "reading" /\ ex'[f].step = "checking"
        /\ ex'[f].plan = ex[f].plan /\ ex'[f].policy = ex[f].policy
        /\ ex'[f].outcome = ex[f].outcome
    BY <1>9 DEF ReadBefore, TypeOK, Calls
  <2>2. QED BY <1>1, <2>1 DEF CallOK, InAccount
<1>10. CASE HoldGuard(f)
  BY <1>6, <1>10 DEF HoldGuard, InAccount
<1>11. CASE CheckPlan(f)
  <2>1. ex[f].step = "checking" /\ ex[f].plan \in Plans
    BY <1>1, <1>11 DEF CheckPlan, CallOK
  <2>2. CASE Goto(f, "sending")
    BY <1>6, <2>1, <2>2 DEF InAccount
  <2>3. CASE Leave(f, "precondition_failed")
    BY <1>5, <2>1, <2>3
  <2>4. QED BY <1>11, <2>2, <2>3 DEF CheckPlan
<1>12. CASE SendCollect(f)
  BY <1>6, <1>12 DEF SendCollect, InAccount
<1>13. CASE ReadAfter(f)
  <2>1. ex[f].plan \in Plans
    BY <1>1, <1>13 DEF ReadAfter, CallOK
  <2>2. net[ex[f].plan] = "collected" => paid[ex[f].plan]
    BY <2>1 DEF CallInv
  <2>3. PICK o : /\ Leave(f, o) /\ o \in {"executed", "reconciliation_required"}
                 /\ o = "executed" => net[ex[f].plan] = "collected"
    BY <1>13 DEF ReadAfter
  <2>4. QED BY <1>5, <2>1, <2>2, <2>3
<1>14. ASSUME ex[f].step \in InAccount, Proven(ex[f], Summary)
       PROVE  paid[ex[f].plan]
  <2>1. /\ ex[f].policy # None /\ ex[f].plan \in Plans
        /\ plans[ex[f].plan].state # "absent"
    BY <1>1, <1>14, NoneAssumption DEF CallOK, InAccount
  <2>2. QED BY <1>14, <2>1, ProofOfPay
<1>15. CASE CollectRaised(f)
  <2>1. ex[f].plan \in Plans /\ ex[f].step \in InAccount
    BY <1>1, <1>15 DEF CollectRaised, CallOK, InAccount
  <2>2. CASE Leave(f, "reconciliation_required")
    BY <1>5, <2>1, <2>2
  <2>3. CASE Proven(ex[f], Summary) /\ Leave(f, "reconciled")
    BY <1>5, <1>14, <2>1, <2>3
  <2>4. QED BY <1>15, <2>2, <2>3 DEF CollectRaised
<1>16. CASE Reread(f)
  <2>1. ex[f].plan \in Plans /\ ex[f].step \in InAccount
    BY <1>1, <1>16 DEF Reread, CallOK, InAccount
  <2>2. CASE Proven(ex[f], Summary)
    BY <1>5, <1>14, <1>16, <2>1, <2>2 DEF Reread
  <2>3. CASE ~Proven(ex[f], Summary)
    BY <1>5, <1>16, <2>1, <2>3 DEF Reread
  <2>4. QED BY <2>2, <2>3
<1>17. CASE LeaveAccount(f)
  <2>1. Goto(f, "finishing") \/ Unwind(f)
    BY <1>17 DEF LeaveAccount
  <2>2. ex[f].step = "leaving"
    BY <1>17 DEF LeaveAccount
  <2>3. QED BY <1>4, <1>6, <2>1, <2>2 DEF InAccount
<1>18. CASE Execute(f)
  BY <1>4, <1>7, <1>8, <1>9, <1>10, <1>11, <1>12, <1>13, <1>15, <1>16, <1>17, <1>18
  DEF Execute, Run, RefuseClaim, Finish, Abandon
<1>19. CASE \E v \in Previewers : Previewing(v)
  BY <1>2, <1>19 DEF Previewing, Preview, LosePreview, SavePreview
<1>20. CASE Environment
  <2>1. UNCHANGED ex
    BY <1>20 DEF Environment, DropGuard, DropLock, ServeCollect, PlayerCollects,
         CapacityChanges, SavePolicy, Tick
  <2>2. QED BY <1>2, <2>1
<1>21. QED BY <1>2, <1>3, <1>18, <1>19, <1>20 DEF Next

LEMMA CallInductive ==
  ASSUME TypeOK, OfferInv, CallInv, Next
  PROVE  CallInv'
<1> USE DEF game, rows, losses, ghosts
<1>1. \A f \in Executors : CallOK(ex'[f])
  BY CallSteps
<1>2. ASSUME NEW p \in Plans, plans[p].state # "absent"
      PROVE  plans'[p].state # "absent" /\ (paid[p] => paid'[p])
  <2>1. \A v \in Previewers : ~SavePreview(v, p)
    BY <1>2 DEF SavePreview
  <2>2. plans'[p].state # "absent"
    BY <1>2, <2>1, PlanSteps
  <2>3. paid[p] => paid'[p]
    BY <2>1, GameSteps, NoneAssumption
  <2>4. QED BY <2>2, <2>3
<1>3. TypeOK'
  BY NextTypes
<1>4. ASSUME NEW f \in Executors, ex'[f].plan # None
      PROVE  /\ ex'[f].plan \in Plans
             /\ plans'[ex'[f].plan].state # "absent"
             /\ paid[ex'[f].plan] => paid'[ex'[f].plan]
  <2>1. ex'[f].plan \in Plans
    BY <1>3, <1>4 DEF TypeOK, Calls
  <2>2. plans[ex'[f].plan].state # "absent"
    BY <1>1, <1>4 DEF CallOK
  <2>3. QED BY <1>2, <2>1, <2>2
<1>5. \A f \in Executors :
        /\ ex'[f].step \in InAccount => ex'[f].policy # None
        /\ ex'[f].step \notin {"out", "guarded"} => ex'[f].plan \in Plans
        /\ ex'[f].plan # None => plans'[ex'[f].plan].state # "absent"
        /\ ex'[f].outcome \in {"executed", "reconciled"} =>
             ex'[f].step \notin {"out", "guarded"} /\ paid'[ex'[f].plan]
  BY <1>1, <1>4, NoneAssumption DEF CallOK
<1>6. ASSUME NEW p \in Plans
      PROVE  /\ net'[p] = "collected" => paid'[p]
             /\ plans'[p].state = "absent" => net'[p] = "none"
  <2>1. CASE net'[p] = net[p]
    <3>1. CASE plans[p].state # "absent"
      BY <1>2, <2>1, <3>1 DEF CallInv
    <3>2. CASE plans[p].state = "absent"
      <4>1. net'[p] = "none"
        BY <2>1, <3>2 DEF CallInv
      <4>2. QED BY <4>1
    <3>3. QED BY <3>1, <3>2
  <2>2. ASSUME NEW e \in Executors, SendCollect(e), net'[p] # net[p]
        PROVE  net'[p] = "inflight" /\ plans'[p].state # "absent"
    <3>1. ex[e].plan = p /\ net'[p] = "inflight"
      BY <2>2 DEF SendCollect, TypeOK
    <3>2. plans[p].state # "absent"
      BY <3>1, NoneAssumption DEF CallInv
    <3>3. QED BY <1>2, <3>1, <3>2
  <2>3. ASSUME NEW q \in Plans, ServeCollect(q), net'[p] # net[p]
        PROVE  /\ net'[p] = "collected" => paid'[p]
               /\ plans'[p].state # "absent"
    <3>1. p = q /\ net[p] = "inflight" /\ (net'[p] = "collected" => paid'[p])
      BY <2>3 DEF ServeCollect, Collected, TypeOK
    <3>2. plans[p].state # "absent"
      BY <3>1 DEF CallInv
    <3>3. QED BY <1>2, <3>1, <3>2
  <2>4. \/ UNCHANGED net
        \/ \E e \in Executors : SendCollect(e)
        \/ \E q \in Plans : ServeCollect(q)
    BY DEF Next, Previewing, Preview, LosePreview, SavePreview, Environment, DropGuard,
       DropLock, PlayerCollects, CapacityChanges, SavePolicy, Tick, Execute, Run,
       HoldGuard, ClaimFresh, ClaimExpired, RefuseClaim, EnterAccount, ReadBefore,
       CheckPlan, ReadAfter, CollectRaised, Reread, LeaveAccount, Finish, Abandon
  <2>5. QED BY <2>1, <2>2, <2>3, <2>4
<1>7. QED BY <1>5, <1>6 DEF CallInv

LEMMA ExecutedInductive ==
  ASSUME TypeOK, CallInv, ExecutedMeansCollected, Next
  PROVE  ExecutedMeansCollected'
<1> USE DEF game, rows, losses, ghosts
<1>1. SUFFICES ASSUME NEW p \in Plans, plans'[p].state = "executed" PROVE paid'[p]
  BY DEF ExecutedMeansCollected
<1>2. \A v \in Previewers : ~SavePreview(v, p)
  BY <1>1 DEF SavePreview, TypeOK
<1>3. paid[p] => paid'[p]
  BY <1>2, GameSteps, NoneAssumption
<1>4. CASE plans[p].state = "executed"
  BY <1>3, <1>4 DEF ExecutedMeansCollected
<1>5. ASSUME NEW e \in Executors, Finish(e), plans[p].state # "executed"
      PROVE  paid[p]
  <2>1. Owned(e) /\ ex[e].plan = p
    BY <1>1, <1>5 DEF Finish, TypeOK
  <2>2. plans'[p] = [plans[p] EXCEPT !.state = Verdict(ex[e].outcome),
                                     !.owner = None, !.lease = 0]
    BY <1>5, <2>1 DEF Finish, TypeOK
  <2>3. Verdict(ex[e].outcome) = "executed"
    BY <1>1, <2>2 DEF TypeOK, PlanRows
  <2>4. ex[e].outcome \in {"executed", "reconciled"}
    BY <2>3 DEF Verdict
  <2>5. QED BY <2>1, <2>4 DEF CallInv
<1>6. CASE UNCHANGED plans
  BY <1>1, <1>4, <1>6
<1>7. ASSUME NEW v \in Previewers, NEW q \in Plans, SavePreview(v, q)
      PROVE  plans'[p].state = plans[p].state
  BY <1>2, <1>7 DEF SavePreview, TypeOK
<1>8. ASSUME NEW e \in Executors, NEW q \in Plans,
             ClaimFresh(e, q) \/ \E r \in RecoveryFlags : ClaimExpired(e, q, r)
      PROVE  plans'[p].state \in {plans[p].state, "executing"}
  <2>1. CASE ClaimFresh(e, q)
    BY <2>1 DEF ClaimFresh, TypeOK, PlanRows
  <2>2. CASE \E r \in RecoveryFlags : ClaimExpired(e, q, r)
    BY <2>2 DEF ClaimExpired, TypeOK, PlanRows
  <2>3. QED BY <1>8, <2>1, <2>2
<1>9. ASSUME Tick
      PROVE  plans'[p].state = plans[p].state
  BY <1>9 DEF Tick, TypeOK, PlanRows
<1>10. \/ UNCHANGED plans \/ Tick
       \/ \E v \in Previewers, q \in Plans : SavePreview(v, q)
       \/ \E e \in Executors : Finish(e) \/ \E q \in Plans :
             ClaimFresh(e, q) \/ \E r \in RecoveryFlags : ClaimExpired(e, q, r)
  BY DEF Next, Previewing, Preview, LosePreview, Environment, DropGuard, DropLock,
     ServeCollect, PlayerCollects, CapacityChanges, SavePolicy, Execute, Run, HoldGuard,
     RefuseClaim, EnterAccount, ReadBefore, CheckPlan, SendCollect, ReadAfter,
     CollectRaised, Reread, LeaveAccount, Abandon
<1>11. QED BY <1>1, <1>3, <1>4, <1>5, <1>6, <1>7, <1>8, <1>9, <1>10

LEMMA PaidInit == Init => PaidInv
<1> SUFFICES ASSUME Init PROVE PaidInv
  OBVIOUS
<1>1. \A e \in Executors : ex[e].policy = None
  BY DEF Init, NoCall
<1>2. LivePolicies = {policy}
  BY <1>1 DEF LivePolicies
<1>3. policy.version = 1
  BY DEF Init
<1>4. VersionInv
  <2>1. \A p \in Plans : plans[p].version = 0
    BY DEF Init, NoPlan
  <2>2. \A v \in Previewers : drafts[v] = None
    BY DEF Init
  <2>3. \A p \in LivePolicies : p = policy
    BY <1>2
  <2>4. QED BY <1>3, <2>1, <2>2, <2>3 DEF VersionInv
<1>5. OfferInv
  BY DEF Init, OfferInv, NoPlan
<1>6. CallInv
  BY NoneAssumption DEF Init, CallInv, NoCall, NoPlan, InAccount
<1>7. ExecutedMeansCollected
  BY DEF Init, ExecutedMeansCollected, NoPlan
<1>8. QED BY <1>4, <1>5, <1>6, <1>7 DEF PaidInv

LEMMA PaidInductive ==
  ASSUME OneCapacity
  PROVE  TypeOK /\ PaidInv /\ [Next]_vars => PaidInv'
<1> SUFFICES ASSUME TypeOK, PaidInv, [Next]_vars PROVE PaidInv'
  OBVIOUS
<1>1. CASE Next
  BY <1>1, VersionInductive, OfferInductive, CallInductive, ExecutedInductive DEF PaidInv
<1>2. CASE UNCHANGED vars
  <2>1. UNCHANGED <<idle, capacity, net, policy, plans, ex, drafts, paid>>
    BY <1>2 DEF vars
  <2>2. LivePolicies' = LivePolicies /\ Summary' = Summary
    BY <2>1 DEF LivePolicies, Summary
  <2>3. VersionInv' /\ CallInv' /\ ExecutedMeansCollected'
    BY <2>1, <2>2 DEF PaidInv, VersionInv, CallInv, ExecutedMeansCollected
  <2>4. OfferInv'
    BY <2>1, <2>2 DEF PaidInv, OfferInv, Due
  <2>5. QED BY <2>3, <2>4 DEF PaidInv
<1>3. QED BY <1>1, <1>2

(* While the game keeps one capacity, a plan recorded as executed stands   *)
(* for a collection after its preview, whoever recorded it (_send_once,    *)
(* _recover, finish).                                                      *)
THEOREM ExecutedHonest ==
  ASSUME OneCapacity
  PROVE  Spec => []ExecutedMeansCollected
<1>1. TypeOK /\ PaidInv /\ [Next]_vars => PaidInv'
  BY PaidInductive
<1>2. PaidInv => ExecutedMeansCollected
  BY DEF PaidInv
<1>3. QED BY <1>1, <1>2, PaidInit, TypeCorrect, PTL DEF Spec

-----------------------------------------------------------------------------
(* What CheckPlan has found is still true when the request leaves: the     *)
(* execution guard lets one call in, and the account lock keeps the policy *)
(* that the call has loaded current.                                       *)

Guarded(e) ==
  /\ ex[e].step # "out" => guard = e
  /\ ex[e].step \in InAccount \cup {"leaving"} => lock = e
  /\ ex[e].step \in InAccount => ex[e].policy = policy
  /\ ex[e].step = "sending" => Owned(e) /\ plans[ex[e].plan].version = policy.version

GuardInv == drops = 0 => \A e \in Executors : Guarded(e)

(* A call that is under way is the only one.                               *)
LEMMA Alone ==
  ASSUME \A e \in Executors : Guarded(e),
         NEW e \in Executors, NEW f \in Executors, f # e,
         guard = e \/ guard = None
  PROVE  ex[f].step = "out"
BY NoneAssumption DEF Guarded

(* A step of one call leaves the others where they are: outside.           *)
LEMMA OnlyOne ==
  ASSUME \A e \in Executors : Guarded(e),
         NEW e \in Executors,
         guard = e \/ guard = None,
         \A f \in Executors : f # e => ex'[f] = ex[f],
         Guarded(e)'
  PROVE  \A f \in Executors : Guarded(f)'
<1> SUFFICES ASSUME NEW f \in Executors, f # e PROVE Guarded(f)'
  OBVIOUS
<1>1. ex'[f].step = "out"
  BY Alone
<1>2. QED BY <1>1 DEF Guarded, InAccount

(* A step that is not a call's: what a call relies on stays.               *)
LEMMA Undisturbed ==
  ASSUME TypeOK, SendInv, \A e \in Executors : Guarded(e),
         UNCHANGED <<guard, lock, ex>>,
         lock # None => UNCHANGED policy,
         \A p \in Plans : plans[p].state = "executing" =>
           /\ plans'[p].state = "executing"
           /\ plans'[p].owner = plans[p].owner
           /\ plans'[p].version = plans[p].version
  PROVE  \A e \in Executors : Guarded(e)'
<1> SUFFICES ASSUME NEW e \in Executors PROVE Guarded(e)'
  OBVIOUS
<1>1. ex[e].step \in InAccount => lock = e /\ UNCHANGED policy
  BY NoneAssumption DEF Guarded
<1>2. ex[e].step = "sending" => ex[e].plan \in Plans /\ ex[e].step \in InAccount
  BY DEF SendInv, PreSend, InAccount
<1>3. ex[e].step = "sending" =>
        (Owned(e) /\ plans[ex[e].plan].version = policy.version)'
  BY <1>1, <1>2 DEF Guarded, Owned
<1>4. QED BY <1>1, <1>3 DEF Guarded

LEMMA GuardInductive ==
  TypeOK /\ SendInv /\ GuardInv /\ [Next]_vars => GuardInv'
<1> SUFFICES ASSUME TypeOK, SendInv, GuardInv, [Next]_vars, drops' = 0
             PROVE  \A e \in Executors : Guarded(e)'
  BY DEF GuardInv
<1> USE DEF game, rows, losses, ghosts
<1>a. CASE ~DropGuard /\ ~DropLock
  <2>0. UNCHANGED drops
    <3>1. ASSUME NEW e \in Executors, Execute(e) PROVE UNCHANGED drops
      BY <3>1 DEF Execute, HoldGuard, ClaimFresh, ClaimExpired, RefuseClaim, Run, EnterAccount,
           ReadBefore, CheckPlan, SendCollect, ReadAfter, CollectRaised, Reread, LeaveAccount,
           Finish, Abandon
    <3>2. ASSUME NEW v \in Previewers, Previewing(v) PROVE UNCHANGED drops
      BY <3>2 DEF Previewing, Preview, LosePreview, SavePreview
    <3>3. CASE Environment
      BY <1>a, <3>3 DEF Environment, ServeCollect, PlayerCollects, CapacityChanges, SavePolicy, Tick
    <3>4. QED BY <3>1, <3>2, <3>3 DEF Next, vars
  <2> USE <2>0
  <2>g. \A e \in Executors : Guarded(e)
    BY DEF GuardInv
  <2>h. \A e \in Executors : ex[e].step # "out" => guard = e
    BY <2>g DEF Guarded
  <2>1. ASSUME NEW e \in Executors, HoldGuard(e) PROVE \A f \in Executors : Guarded(f)'
    <3>1. guard = None /\ guard' = e /\ ex' = [ex EXCEPT ![e].step = "guarded"]
      BY <2>1 DEF HoldGuard, Goto
    <3>2. ex'[e].step = "guarded" /\ \A f \in Executors : f # e => ex'[f] = ex[f]
      BY <3>1 DEF TypeOK, Calls
    <3>3. Guarded(e)'
      BY <3>1, <3>2 DEF Guarded, InAccount
    <3>4. QED BY <2>g, <3>1, <3>2, <3>3, OnlyOne
  <2>2. ASSUME NEW e \in Executors, NEW p \in Plans, ClaimFresh(e, p)
        PROVE  \A f \in Executors : Guarded(f)'
    <3>1. /\ ex[e].step = "guarded" /\ ex'[e].step = "claimed"
          /\ \A f \in Executors : f # e => ex'[f] = ex[f]
          /\ UNCHANGED guard
      BY <2>2 DEF ClaimFresh, TypeOK, Calls
    <3>2. QED BY <2>g, <2>h, <3>1, OnlyOne DEF Guarded, InAccount
  <2>3. ASSUME NEW e \in Executors, NEW p \in Plans, NEW r \in RecoveryFlags,
               ClaimExpired(e, p, r)
        PROVE  \A f \in Executors : Guarded(f)'
    <3>1. /\ ex[e].step = "guarded" /\ ex'[e].step = "recovering"
          /\ \A f \in Executors : f # e => ex'[f] = ex[f]
          /\ UNCHANGED guard
      BY <2>3 DEF ClaimExpired, TypeOK, Calls
    <3>2. QED BY <2>g, <2>h, <3>1, OnlyOne DEF Guarded, InAccount
  <2>4. ASSUME NEW e \in Executors, ex[e].step # "out", Unwind(e)
        PROVE  \A f \in Executors : Guarded(f)'
    <3>1. ex'[e].step = "out" /\ \A f \in Executors : f # e => ex'[f] = ex[f]
      BY <2>4 DEF Unwind, NoCall, TypeOK
    <3>2. QED BY <2>g, <2>h, <2>4, <3>1, OnlyOne DEF Guarded, InAccount
  <2>5. ASSUME NEW e \in Executors, EnterAccount(e) PROVE \A f \in Executors : Guarded(f)'
    <3>1. /\ ex[e].step # "out" /\ ex'[e].step \in {"reading", "rereading"}
          /\ ex'[e].policy = policy
          /\ \A f \in Executors : f # e => ex'[f] = ex[f]
          /\ UNCHANGED <<guard, policy>> /\ lock' = e
      BY <2>5 DEF EnterAccount, TypeOK, Calls
    <3>2. QED BY <2>g, <2>h, <3>1, OnlyOne DEF Guarded, InAccount
  <2>6. ASSUME NEW e \in Executors, ReadBefore(e) PROVE \A f \in Executors : Guarded(f)'
    <3>1. /\ ex[e].step = "reading" /\ ex'[e].step = "checking"
          /\ ex'[e].policy = ex[e].policy
          /\ \A f \in Executors : f # e => ex'[f] = ex[f]
          /\ UNCHANGED <<guard, lock, policy>>
      BY <2>6 DEF ReadBefore, TypeOK, Calls
    <3>2. QED BY <2>g, <2>h, <3>1, OnlyOne DEF Guarded, InAccount
  <2>7. ASSUME NEW e \in Executors, CheckPlan(e) PROVE \A f \in Executors : Guarded(f)'
    <3>1. /\ ex[e].step = "checking" /\ UNCHANGED <<guard, lock, policy, plans>>
          /\ guard = e /\ lock = e /\ ex[e].policy = policy
      BY <2>7, <2>g DEF CheckPlan, Guarded, InAccount
    <3>2. \A f \in Executors : f # e => ex'[f] = ex[f]
      BY <2>7 DEF CheckPlan, Goto, Leave, TypeOK
    <3>3. CASE StillValid(e) /\ Goto(e, "sending")
      <4>1. /\ ex'[e].step = "sending" /\ ex'[e].plan = ex[e].plan
            /\ ex'[e].policy = ex[e].policy
        BY <3>3 DEF Goto, TypeOK, Calls
      <4>2. Guarded(e)'
        BY <3>1, <3>3, <4>1 DEF Guarded, StillValid, Owned, InAccount
      <4>3. QED BY <2>g, <3>1, <3>2, <4>2, OnlyOne
    <3>4. CASE Leave(e, "precondition_failed")
      <4>1. ex'[e].step = "leaving"
        BY <3>4 DEF Leave, NoCall, TypeOK
      <4>2. QED BY <2>g, <3>1, <3>2, <4>1, OnlyOne DEF Guarded, InAccount
    <3>5. QED BY <2>7, <3>3, <3>4 DEF CheckPlan
  <2>8. ASSUME NEW e \in Executors, SendCollect(e) PROVE \A f \in Executors : Guarded(f)'
    <3>1. /\ ex[e].step = "sending" /\ ex'[e].step = "waiting"
          /\ ex'[e].policy = ex[e].policy
          /\ \A f \in Executors : f # e => ex'[f] = ex[f]
          /\ UNCHANGED <<guard, lock, policy>>
      BY <2>8 DEF SendCollect, Goto, TypeOK, Calls
    <3>2. QED BY <2>g, <2>h, <3>1, OnlyOne DEF Guarded, InAccount
  <2>9. ASSUME NEW e \in Executors, NEW outcome, ex[e].step \in InAccount, Leave(e, outcome),
               UNCHANGED <<guard, lock>>
        PROVE  \A f \in Executors : Guarded(f)'
    <3>1. /\ ex'[e].step = "leaving"
          /\ \A f \in Executors : f # e => ex'[f] = ex[f]
      BY <2>9 DEF Leave, NoCall, TypeOK
    <3>2. guard = e /\ lock = e
      BY <2>9, <2>g DEF Guarded, InAccount
    <3>3. Guarded(e)'
      BY <2>9, <3>1, <3>2 DEF Guarded, InAccount
    <3>4. QED BY <2>g, <3>1, <3>2, <3>3, OnlyOne
  <2>10. ASSUME NEW e \in Executors, LeaveAccount(e) PROVE \A f \in Executors : Guarded(f)'
    <3>1. CASE Unwind(e)
      BY <2>4, <2>10, <3>1 DEF LeaveAccount
    <3>2. CASE Goto(e, "finishing") /\ UNCHANGED guard
      <4>1. /\ ex[e].step = "leaving" /\ ex'[e].step = "finishing"
            /\ \A f \in Executors : f # e => ex'[f] = ex[f]
        BY <2>10, <3>2 DEF LeaveAccount, Goto, TypeOK, Calls
      <4>2. QED BY <2>g, <2>h, <3>2, <4>1, OnlyOne DEF Guarded, InAccount
    <3>3. QED BY <2>10, <3>1, <3>2 DEF LeaveAccount
  <2>11. ASSUME NEW e \in Executors, Execute(e) PROVE \A f \in Executors : Guarded(f)'
    <3>1. CASE ReadAfter(e) \/ CollectRaised(e) \/ Reread(e)
      BY <2>9, <3>1 DEF ReadAfter, CollectRaised, Reread, InAccount
    <3>2. CASE Finish(e) \/ Abandon(e) \/ \E p \in Plans, r \in RecoveryFlags : RefuseClaim(e, p, r)
      BY <2>4, <3>2 DEF Finish, Abandon, RefuseClaim
    <3>3. QED BY <2>1, <2>2, <2>3, <2>5, <2>6, <2>7, <2>8, <2>10, <2>11, <3>1, <3>2 DEF Execute, Run
  <2>12. ASSUME NEW v \in Previewers, Previewing(v) PROVE \A f \in Executors : Guarded(f)'
    <3>1. CASE Preview(v) \/ LosePreview(v)
      BY <2>g, <3>1, Undisturbed DEF Preview, LosePreview
    <3>2. ASSUME NEW p \in Plans, SavePreview(v, p) PROVE \A f \in Executors : Guarded(f)'
      <4>1. \A q \in Plans : plans[q].state = "executing" => plans'[q] = plans[q]
        BY <3>2 DEF SavePreview, TypeOK
      <4>2. UNCHANGED <<guard, lock, ex, policy>>
        BY <3>2 DEF SavePreview
      <4>3. QED BY <2>g, <4>1, <4>2, Undisturbed
    <3>3. QED BY <2>12, <3>1, <3>2 DEF Previewing
  <2>13. CASE Environment
    <3>1. CASE Tick
      <4>1. \A p \in Plans : /\ plans'[p].state = plans[p].state
                             /\ plans'[p].owner = plans[p].owner
                             /\ plans'[p].version = plans[p].version
        BY <3>1 DEF Tick, TypeOK, PlanRows
      <4>2. UNCHANGED <<guard, lock, ex, policy>>
        BY <3>1 DEF Tick
      <4>3. QED BY <2>g, <4>1, <4>2, Undisturbed
    <3>2. ASSUME NEW t \in Thresholds, SavePolicy(t) PROVE \A f \in Executors : Guarded(f)'
      BY <2>g, <3>2, Undisturbed DEF SavePolicy
    <3>3. CASE PlayerCollects \/ CapacityChanges \/ \E p \in Plans : ServeCollect(p)
      BY <2>g, <3>3, Undisturbed DEF PlayerCollects, CapacityChanges, ServeCollect
    <3>4. QED BY <1>a, <2>13, <3>1, <3>2, <3>3 DEF Environment
  <2>14. CASE UNCHANGED vars
    BY <2>g, <2>14, Undisturbed DEF vars
  <2>15. QED BY <2>11, <2>12, <2>13, <2>14 DEF Next
<1>b. CASE DropGuard \/ DropLock
  BY <1>b DEF DropGuard, DropLock, TypeOK
<1>c. QED BY <1>a, <1>b

(* As long as no connection is dropped, idle_collect leaves only for a     *)
(* plan that is claimed by the sending call and of the current policy      *)
(* version (hold, locked, owned and _send_once).                           *)
THEOREM SendCurrent == Spec => SendWhileCurrent
<1> DEFINE Inv == TypeOK /\ SendInv /\ GuardInv
<1>1. Init => Inv
  <2>1. Init => TypeOK
    BY InitTypes
  <2>2. Init => SendInv
    BY DEF Init, SendInv, PreSend, Untouched, AtMostOneSend, NoCall
  <2>3. Init => GuardInv
    <3>1. ASSUME Init, NEW e \in Executors PROVE Guarded(e)
      <4>1. ex[e].step = "out"
        BY <3>1 DEF Init, NoCall
      <4>2. QED BY <4>1 DEF Guarded, InAccount
    <3>2. QED BY <3>1 DEF GuardInv
  <2>4. QED BY <2>1, <2>2, <2>3
<1>2. Inv /\ [Next]_vars => Inv'
  BY NextTypes, SendInductive, GuardInductive
<1>3. Inv => \A e \in Executors :
        (drops = 0 /\ ex[e].step = "sending" /\ ex'[e].step = "waiting") =>
          Owned(e) /\ plans[ex[e].plan].version = policy.version
  BY DEF GuardInv, Guarded
<1>4. Inv /\ [Next]_vars =>
        [\A e \in Executors :
           (drops = 0 /\ ex[e].step = "sending" /\ ex'[e].step = "waiting") =>
             Owned(e) /\ plans[ex[e].plan].version = policy.version]_vars
  BY <1>3
<1>5. QED BY <1>1, <1>2, <1>4, PTL DEF Spec, SendWhileCurrent
=============================================================================
