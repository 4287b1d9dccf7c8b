---------------------------- MODULE Mutations_proofs ----------------------------
(***************************************************************************)
(* What mutate guarantees of a plan, for any number of calls and plans,    *)
(* lost transactions, policies and moves of the player: which plans may    *)
(* send, how often one is carried out, and whether its verdict is true     *)
(* (AccountService.mutate of placegame/accounts/service.py).               *)
(***************************************************************************)
EXTENDS Mutations, FiniteSetTheorems, TLAPS

(* A call has a plan that exists; what does not exist has had no request;  *)
(* and every effect of a plan has moved the game away from what the plan   *)
(* has seen.                                                               *)
PlanInv ==
  /\ \A c \in Callers : call[c].at # "idle" =>
       call[c].plan \in Plans /\ plans[call[c].plan] # None
  /\ \A p \in Plans : plans[p] = None => effects[p] = 0 /\ late[p] = 0
  /\ \A p \in Plans : plans[p] # None => plans[p].seen + effects[p] <= world

(* A call that is about to send has checked its plan under this policy.    *)
PolicyInv ==
  \A c \in Callers : call[c].at = "ready" /\ lock = c =>
    plans[call[c].plan].version = policy

IInv == TypeOK /\ PlanInv /\ PolicyInv

LEMMA IdleTyped == Idle \in Calls
BY DEF Idle, Calls, Verdicts, Sends

(* What a step of a call under way does to the call.                       *)
Onward(c) ==
  \E r \in Calls :
    /\ call' = [call EXCEPT ![c] = r]
    /\ r.plan = call[c].plan
    /\ call[c].at # "idle" /\ r.at # "idle"
    /\ r.at = "ready" =>
         call[c].at = "checking" /\ lock = c /\ Sendable(call[c].plan)

Steps == {"checking", "ready", "sent", "worked", "conflict", "refused", "verifying"}

LEMMA ConcludeStep ==
  ASSUME TypeOK, NEW c \in Callers, NEW v \in Verdicts, call[c].at # "idle",
         Conclude(c, v)
  PROVE  Onward(c) /\ UNCHANGED <<plans, policy, faults>>
<1> DEFINE r == [call[c] EXCEPT !.at = "closing", !.verdict = v]
<1>1. call[c] \in Calls
  BY DEF TypeOK
<1>2. r \in Calls /\ r.plan = call[c].plan /\ r.at = "closing"
  BY <1>1 DEF Calls
<1>3. call' = [call EXCEPT ![c] = r] /\ UNCHANGED <<plans, policy, faults>>
  BY DEF Conclude, Local
<1> HIDE DEF r
<1>4. QED BY <1>2, <1>3 DEF Onward

LEMMA LocalStep ==
  ASSUME TypeOK, NEW c \in Callers, NEW at \in Steps, call[c].at # "idle",
         Local(c, [call[c] EXCEPT !.at = at]),
         at = "ready" => call[c].at = "checking" /\ lock = c /\ Sendable(call[c].plan)
  PROVE  Onward(c) /\ UNCHANGED <<plans, policy, faults>>
<1> DEFINE r == [call[c] EXCEPT !.at = at]
<1>1. call[c] \in Calls
  BY DEF TypeOK
<1>2. r \in Calls /\ r.plan = call[c].plan /\ r.at = at /\ at # "idle"
  BY <1>1 DEF Calls, Steps
<1>3. call' = [call EXCEPT ![c] = r] /\ UNCHANGED <<plans, policy, faults>>
  BY DEF Local
<1> HIDE DEF r
<1>4. QED BY <1>2, <1>3 DEF Onward

Working(c) ==
  \/ CheckPlan(c) \/ CheckRaises(c) \/ Send(c) \/ Serve(c) \/ Receive(c) \/ Verify(c)
  \/ ReceiveRefusal(c) \/ ReceiveConflict(c) \/ Timeout(c) \/ Cancel(c)

(* A step of a call leaves the rows alone, and the game unless its request *)
(* is served or given up.                                                  *)
LEMMA WorkingStep ==
  ASSUME TypeOK, NEW c \in Callers, Working(c)
  PROVE  /\ Onward(c)
         /\ UNCHANGED <<plans, policy, lock, faults, moves>>
         /\ \/ UNCHANGED <<world, late, effects>>
            \/ call[c].at = "sent" /\ Effect(call[c].plan) /\ UNCHANGED late
            \/ call[c].at = "sent" /\ UNCHANGED <<world, effects>>
               /\ late' = [late EXCEPT ![call[c].plan] = @ + 1]
<1> USE DEF game
<1>v. \A v \in {"executed", "failed", "reconciliation_required", None} : v \in Verdicts
  BY DEF Verdicts, Settled
<1>c. \A v \in Verdicts : call[c].at # "idle" /\ Conclude(c, v) =>
        Onward(c) /\ UNCHANGED <<plans, policy, faults>>
  BY ConcludeStep
<1>l. \A at \in Steps \ {"ready"} :
        call[c].at # "idle" /\ Local(c, [call[c] EXCEPT !.at = at]) =>
          Onward(c) /\ UNCHANGED <<plans, policy, faults>>
  BY LocalStep DEF Steps
<1>1. CASE CheckPlan(c)
  <2>1. CASE Sendable(call[c].plan)
    BY <1>1, <2>1, LocalStep DEF CheckPlan, Steps
  <2>2. CASE ~Sendable(call[c].plan)
    BY <1>1, <2>2, <1>c, <1>v DEF CheckPlan
  <2>3. QED BY <2>1, <2>2
<1>2. CASE CheckRaises(c)
  BY <1>2, <1>c, <1>v DEF CheckRaises
<1>3. CASE Send(c)
  BY <1>3, <1>l DEF Send, Steps
<1>4. CASE Serve(c)
  BY <1>4, <1>l DEF Serve, Effect, Steps
<1>5. CASE Receive(c)
  BY <1>5, <1>l DEF Receive, Steps
<1>6. CASE Verify(c)
  BY <1>6, <1>c, <1>v DEF Verify
<1>7. CASE ReceiveRefusal(c)
  BY <1>7, <1>c, <1>v DEF ReceiveRefusal
<1>8. CASE ReceiveConflict(c)
  <2> DEFINE n == call[c].attempt
             r == [call[c] EXCEPT !.at = "checking", !.attempt = n + 1]
  <2>1. CASE ~Last(n) /\ Local(c, r)
    <3>1. call[c] \in Calls
      BY DEF TypeOK
    <3>2. n + 1 \in 1..Sends
      BY <2>1, <3>1 DEF Calls, Last, Sends
    <3>3. r \in Calls /\ r.plan = call[c].plan /\ r.at = "checking"
      BY <3>1, <3>2 DEF Calls
    <3>4. call' = [call EXCEPT ![c] = r] /\ UNCHANGED <<plans, policy, faults>>
      BY <2>1 DEF Local
    <3> HIDE DEF r
    <3>5. Onward(c)
      BY <1>8, <3>3, <3>4 DEF Onward, ReceiveConflict
    <3>6. QED BY <1>8, <3>4, <3>5 DEF ReceiveConflict
  <2>2. CASE Conclude(c, "reconciliation_required") \/ Conclude(c, "failed")
    BY <1>8, <2>2, <1>c, <1>v DEF ReceiveConflict
  <2>3. QED BY <1>8, <2>1, <2>2 DEF ReceiveConflict
<1>9. CASE Timeout(c)
  <2>1. Ambiguous(call[c].at = "worked") \subseteq Verdicts
    BY <1>v DEF Ambiguous
  <2>2. QED BY <1>9, <1>c, <2>1 DEF Timeout, GiveUp
<1>10. CASE Cancel(c)
  BY <1>10, <1>c, <1>v DEF Cancel, GiveUp
<1>11. QED BY <1>1, <1>2, <1>3, <1>4, <1>5, <1>6, <1>7, <1>8, <1>9, <1>10 DEF Working

(* A call is about to send only after its check.                           *)
LEMMA CallStep ==
  ASSUME TypeOK, [Next]_vars, NEW c \in Callers,
         call[c].at = "checking", call'[c].at = "ready"
  PROVE  Sendable(call[c].plan)
<1> USE DEF game
<1>1. ASSUME NEW d \in Callers, Working(d) PROVE Sendable(call[c].plan)
  <2>1. CASE d = c
    BY <1>1, <2>1, WorkingStep DEF Onward, TypeOK
  <2>2. CASE d # c
    BY <1>1, <2>2, WorkingStep DEF Onward, TypeOK
  <2>3. QED BY <2>1, <2>2
<1>2. ASSUME NEW d \in Callers, Close(d) \/ Die(d) PROVE FALSE
  BY <1>2 DEF Close, Die, Idle, TypeOK
<1>3. ASSUME NEW d \in Callers, NEW p \in Plans, Start(d, p) PROVE FALSE
  <2>1. [Idle EXCEPT !.at = "checking", !.plan = p].at = "checking"
    BY DEF Idle
  <2>2. QED BY <1>3, <2>1 DEF Start, Local, TypeOK
<1>4. CASE UNCHANGED call
  BY <1>4
<1>5. QED
  BY <1>1, <1>2, <1>3, <1>4 DEF Next, Proceed, Working,
     Create, Confirm, Expire, Store,
     ServeLate, SavePolicy, DropLock, PlayerMoves, vars

LEMMA InitInductive == Init => IInv
<1> SUFFICES ASSUME Init PROVE IInv
  OBVIOUS
<1>1. TypeOK
  <2>1. policy \in 1..MaxVersion /\ moves \in 0..MaxMoves /\ faults \in 0..MaxFaults
    BY MutationsAssumption DEF Init
  <2>2. QED BY <2>1, IdleTyped DEF Init, TypeOK
<1>2. \A c \in Callers : call[c].at = "idle"
  BY DEF Init, Idle
<1>3. PlanInv /\ PolicyInv
  BY <1>2 DEF Init, PlanInv, PolicyInv
<1>4. QED BY <1>1, <1>3 DEF IInv

(* A row that is created, confirmed or expires.                            *)
RowStep(p) == Confirm(p) \/ Expire(p) \/ \E needs \in BOOLEAN : Create(p, needs)

LEMMA StoreStep ==
  ASSUME IInv, NEW p \in Plans, RowStep(p)
  PROVE  \E r \in Rows :
           /\ plans' = [plans EXCEPT ![p] = r]
           /\ plans[p] = None => r.seen = world /\ r.state = "pending"
           /\ plans[p] # None =>
                /\ r.seen = plans[p].seen /\ r.version = plans[p].version
                /\ \/ r.state = plans[p].state
                   \/ plans[p].state = "pending" /\ r.state = "confirmed"
           /\ UNCHANGED <<policy, lock, call, game, faults>>
<1>a. plans[p] \in Rows \cup {None} /\ policy \in 1..MaxVersion /\ world \in Nat
  BY DEF IInv, TypeOK
<1>1. CASE Confirm(p)
  <2> DEFINE r == [plans[p] EXCEPT !.state = "confirmed"]
  <2>1. r \in Rows /\ r.seen = plans[p].seen /\ r.version = plans[p].version
        /\ r.state = "confirmed" /\ plans[p] # None /\ plans[p].state = "pending"
    BY <1>1, <1>a DEF Confirm, Rows
  <2>2. QED BY <1>1, <2>1 DEF Confirm, Store
<1>2. CASE Expire(p)
  <2> DEFINE r == [plans[p] EXCEPT !.expired = TRUE]
  <2>1. r \in Rows /\ r.seen = plans[p].seen /\ r.version = plans[p].version
        /\ r.state = plans[p].state /\ plans[p] # None
    BY <1>2, <1>a DEF Expire, Rows
  <2>2. QED BY <1>2, <2>1 DEF Expire, Store
<1>3. ASSUME NEW needs \in BOOLEAN, Create(p, needs)
      PROVE  \E r \in Rows :
           /\ plans' = [plans EXCEPT ![p] = r]
           /\ plans[p] = None /\ r.seen = world /\ r.state = "pending"
           /\ UNCHANGED <<policy, lock, call, game, faults>>
  <2> DEFINE r == [state |-> "pending", needs |-> needs, version |-> policy,
                   seen |-> world, expired |-> FALSE]
  <2>1. r \in Rows /\ r.seen = world /\ r.state = "pending"
    BY <1>a DEF Rows
  <2>2. QED BY <1>3, <2>1 DEF Create, Store
<1>4. QED BY <1>1, <1>2, <1>3 DEF RowStep

LEMMA TypeInductive == IInv /\ [Next]_vars => TypeOK'
<1> SUFFICES ASSUME IInv, [Next]_vars PROVE TypeOK'
  OBVIOUS
<1> USE DEF game
<1>t. TypeOK
  BY DEF IInv
<1>a. ASSUME NEW n \in [Plans -> Nat], NEW p \in Plans
      PROVE  [n EXCEPT ![p] = @ + 1] \in [Plans -> Nat]
  OBVIOUS
<1>1. ASSUME NEW c \in Callers, Working(c) PROVE TypeOK'
  <2>1. call' \in [Callers -> Calls] /\ UNCHANGED <<plans, policy, lock, faults, moves>>
    BY <1>1, <1>t, WorkingStep DEF TypeOK, Onward
  <2>2. world' \in Nat /\ late' \in [Plans -> Nat] /\ effects' \in [Plans -> Nat]
    <3>1. call[c].at = "sent" => call[c].plan \in Plans
      BY DEF IInv, PlanInv
    <3>2. QED BY <1>1, <1>t, <1>a, <3>1, WorkingStep DEF TypeOK, Effect
  <2>3. QED BY <1>t, <2>1, <2>2 DEF TypeOK
<1>2. ASSUME NEW c \in Callers, Close(c) PROVE TypeOK'
  <2>1. plans' \in [Plans -> {None} \cup Rows]
    <3>1. CASE lock = c /\ call[c].verdict # None
      <4>1. call[c].verdict \in Settled
        BY <1>t, <3>1 DEF TypeOK, Calls, Verdicts
      <4>2. call[c].plan \in Plans /\ plans[call[c].plan] \in Rows
        BY <1>2, <1>t DEF Close, IInv, PlanInv, TypeOK
      <4>3. [plans[call[c].plan] EXCEPT !.state = call[c].verdict] \in Rows
        BY <4>1, <4>2 DEF Rows
      <4>4. QED BY <1>2, <1>t, <3>1, <4>3 DEF Close, TypeOK
    <3>2. QED BY <1>2, <1>t, <3>1 DEF Close, TypeOK
  <2>2. QED BY <1>2, <1>t, <2>1, IdleTyped DEF Close, TypeOK
<1>3. ASSUME NEW c \in Callers, Die(c) PROVE TypeOK'
  <2>1. faults' \in 0..MaxFaults
    BY <1>3, <1>t, MutationsAssumption DEF Die, TypeOK
  <2>2. late' \in [Plans -> Nat] /\ UNCHANGED <<world, effects, moves>>
    <3>1. call[c].at = "sent" => call[c].plan \in Plans
      BY DEF IInv, PlanInv
    <3>2. QED BY <1>3, <1>t, <1>a, <3>1 DEF Die, GiveUp, TypeOK
  <2>3. /\ call' \in [Callers -> Calls] /\ lock' \in Callers \cup {None}
        /\ UNCHANGED <<plans, policy>>
    BY <1>3, <1>t, IdleTyped DEF Die, TypeOK
  <2>4. QED BY <1>t, <2>1, <2>2, <2>3 DEF TypeOK
<1>4. ASSUME NEW c \in Callers, NEW p \in Plans, Start(c, p) PROVE TypeOK'
  <2>1. [Idle EXCEPT !.at = "checking", !.plan = p] \in Calls
    <3>1. ASSUME NEW r \in Calls
          PROVE  [r EXCEPT !.at = "checking", !.plan = p] \in Calls
      BY DEF Calls
    <3>2. QED BY <3>1, IdleTyped
  <2>2. QED BY <1>4, <1>t, <2>1 DEF Start, Local, TypeOK
<1>5. ASSUME NEW p \in Plans, RowStep(p) PROVE TypeOK'
  BY <1>5, <1>t, StoreStep DEF TypeOK
<1>6. ASSUME NEW p \in Plans, ServeLate(p) PROVE TypeOK'
  <2>1. late' \in [Plans -> Nat]
    <3>1. late[p] - 1 \in Nat
      BY <1>6, <1>t DEF ServeLate, TypeOK
    <3>2. QED BY <1>6, <1>t, <3>1 DEF ServeLate, TypeOK
  <2>2. world' \in Nat /\ effects' \in [Plans -> Nat] /\ UNCHANGED moves
    BY <1>6, <1>t, <1>a DEF ServeLate, Effect, TypeOK
  <2>3. QED BY <1>6, <1>t, <2>1, <2>2 DEF ServeLate, TypeOK
<1>7. CASE SavePolicy
  BY <1>7, <1>t, MutationsAssumption DEF SavePolicy, TypeOK
<1>8. CASE DropLock
  BY <1>8, <1>t, MutationsAssumption DEF DropLock, TypeOK
<1>9. CASE PlayerMoves
  BY <1>9, <1>t, MutationsAssumption DEF PlayerMoves, TypeOK
<1>10. CASE UNCHANGED vars
  BY <1>10, <1>t DEF vars, TypeOK
<1>11. QED
  BY <1>1, <1>2, <1>3, <1>4, <1>5, <1>6, <1>7, <1>8, <1>9, <1>10
  DEF Next, Proceed, Working, RowStep

(* The plan of a call exists, and effects only add up with the moves of    *)
(* the account.                                                            *)
LEMMA PlanInductive == IInv /\ [Next]_vars => PlanInv'
<1> SUFFICES ASSUME IInv, [Next]_vars PROVE PlanInv'
  OBVIOUS
<1> USE DEF game
<1>t. TypeOK /\ PlanInv
  BY DEF IInv
<1>1. ASSUME NEW c \in Callers, Working(c) PROVE PlanInv'
  <2>1. call[c].at # "idle" /\ call[c].plan \in Plans /\ plans[call[c].plan] # None
    BY <1>1, <1>t, WorkingStep DEF Onward, PlanInv
  <2>2. \A d \in Callers : call'[d].at # "idle" =>
          call'[d].plan \in Plans /\ plans'[call'[d].plan] # None
    BY <1>1, <1>t, <2>1, WorkingStep DEF Onward, PlanInv, TypeOK
  <2>3. \A p \in Plans : p # call[c].plan =>
          effects'[p] = effects[p] /\ late'[p] = late[p]
    BY <1>1, <1>t, <2>1, WorkingStep DEF Effect, TypeOK
  <2>4. plans' = plans
    BY <1>1, <1>t, WorkingStep
  <2>5. \/ effects'[call[c].plan] = effects[call[c].plan] /\ world' = world
        \/ effects'[call[c].plan] = effects[call[c].plan] + 1 /\ world' = world + 1
    BY <1>1, <1>t, <2>1, WorkingStep DEF Effect, TypeOK
  <2>6. \A p \in Plans : plans'[p] # None => plans'[p].seen + effects'[p] <= world'
    <3> SUFFICES ASSUME NEW p \in Plans, plans[p] # None
                 PROVE  plans[p].seen + effects'[p] <= world'
      BY <2>4
    <3>1. plans[p].seen + effects[p] <= world
      BY <1>t DEF PlanInv
    <3>2. plans[p].seen \in Nat /\ effects[p] \in Nat /\ world \in Nat
      BY <1>t DEF TypeOK, Rows
    <3>3. QED BY <2>3, <2>5, <3>1, <3>2
  <2>7. QED BY <1>t, <2>1, <2>2, <2>3, <2>4, <2>6 DEF PlanInv
<1>2. ASSUME NEW c \in Callers, Close(c) PROVE PlanInv'
  <2>1. call[c].plan \in Plans /\ plans[call[c].plan] \in Rows
    BY <1>2, <1>t DEF Close, PlanInv, TypeOK
  <2>2. \A p \in Plans : (plans'[p] = None <=> plans[p] = None)
                        /\ (plans[p] # None => plans'[p].seen = plans[p].seen)
    <3>1. CASE lock = c /\ call[c].verdict # None
      <4>1. call[c].verdict \in Settled
        BY <1>t, <3>1 DEF TypeOK, Calls, Verdicts
      <4>2. [plans[call[c].plan] EXCEPT !.state = call[c].verdict] \in Rows
            /\ [plans[call[c].plan] EXCEPT !.state = call[c].verdict].seen
                 = plans[call[c].plan].seen
        BY <2>1, <4>1 DEF Rows
      <4>3. QED BY <1>2, <1>t, <2>1, <3>1, <4>2, NullAssumption DEF Close, TypeOK
    <3>2. QED BY <1>2, <3>1 DEF Close
  <2>3. \A d \in Callers : call'[d] = call[d] \/ call'[d].at = "idle"
    BY <1>2, <1>t DEF Close, Idle, TypeOK
  <2>4. UNCHANGED game
    BY <1>2 DEF Close
  <2>5. QED BY <1>t, <2>2, <2>3, <2>4 DEF PlanInv
<1>3. ASSUME NEW c \in Callers, Die(c) PROVE PlanInv'
  <2>1. \A d \in Callers : call'[d] = call[d] \/ call'[d].at = "idle"
    BY <1>3, <1>t DEF Die, Idle, TypeOK
  <2>2. UNCHANGED <<plans, world, effects>>
    BY <1>3 DEF Die, GiveUp
  <2>3. \A p \in Plans : plans[p] = None => late'[p] = late[p]
    BY <1>3, <1>t DEF Die, GiveUp, PlanInv, TypeOK
  <2>4. QED BY <1>t, <2>1, <2>2, <2>3 DEF PlanInv
<1>4. ASSUME NEW c \in Callers, NEW p \in Plans, Start(c, p) PROVE PlanInv'
  <2>1. call'[c].plan = p /\ \A d \in Callers : d # c => call'[d] = call[d]
    <3>1. [Idle EXCEPT !.at = "checking", !.plan = p].plan = p
      BY DEF Idle
    <3>2. QED BY <1>4, <1>t, <3>1 DEF Start, Local, TypeOK
  <2>2. plans[p] # None /\ UNCHANGED <<plans, world, effects, late>>
    BY <1>4 DEF Start, Local
  <2>3. QED BY <1>t, <2>1, <2>2 DEF PlanInv
<1>5. ASSUME NEW p \in Plans, RowStep(p) PROVE PlanInv'
  <2>1. PICK r \in Rows :
           /\ plans' = [plans EXCEPT ![p] = r]
           /\ plans[p] = None => r.seen = world
           /\ plans[p] # None => r.seen = plans[p].seen
           /\ UNCHANGED <<policy, lock, call, game, faults>>
    BY <1>5, StoreStep
  <2>2. plans'[p] = r /\ r # None /\ \A q \in Plans : q # p => plans'[q] = plans[q]
    BY <1>t, <2>1, NullAssumption DEF TypeOK
  <2>3. r.seen + effects[p] <= world
    BY <1>t, <2>1 DEF PlanInv, TypeOK
  <2>4. QED BY <1>t, <2>1, <2>2, <2>3 DEF PlanInv
<1>6. ASSUME NEW p \in Plans, ServeLate(p) PROVE PlanInv'
  <2>1. plans[p] # None
    BY <1>6, <1>t DEF ServeLate, PlanInv
  <2>2. UNCHANGED <<plans, call>>
        /\ effects'[p] = effects[p] + 1 /\ world' = world + 1
        /\ \A q \in Plans : q # p => effects'[q] = effects[q] /\ late'[q] = late[q]
    BY <1>6, <1>t DEF ServeLate, Effect, TypeOK
  <2>3. \A q \in Plans : plans[q] # None => plans[q].seen + effects'[q] <= world'
    <3> SUFFICES ASSUME NEW q \in Plans, plans[q] # None
                 PROVE  plans[q].seen + effects'[q] <= world'
      OBVIOUS
    <3>1. plans[q].seen + effects[q] <= world
      BY <1>t DEF PlanInv
    <3>2. plans[q].seen \in Nat /\ effects[q] \in Nat /\ world \in Nat
      BY <1>t DEF TypeOK, Rows
    <3>3. QED BY <2>2, <3>1, <3>2
  <2>4. QED BY <1>t, <2>1, <2>2, <2>3 DEF PlanInv
<1>7. CASE SavePolicy \/ DropLock \/ UNCHANGED vars
  BY <1>7, <1>t DEF SavePolicy, DropLock, vars, PlanInv
<1>8. CASE PlayerMoves
  <2>1. UNCHANGED <<plans, call, effects, late>> /\ world' = world + 1
    BY <1>8 DEF PlayerMoves
  <2>2. \A p \in Plans : plans[p] # None => plans[p].seen + effects[p] <= world + 1
    <3> SUFFICES ASSUME NEW p \in Plans, plans[p] # None
                 PROVE  plans[p].seen + effects[p] <= world + 1
      OBVIOUS
    <3>1. plans[p].seen + effects[p] <= world
      BY <1>t DEF PlanInv
    <3>2. plans[p].seen \in Nat /\ effects[p] \in Nat /\ world \in Nat
      BY <1>t DEF TypeOK, Rows
    <3>3. QED BY <3>1, <3>2
  <2>3. QED BY <1>t, <2>1, <2>2 DEF PlanInv
<1>9. QED
  BY <1>1, <1>2, <1>3, <1>4, <1>5, <1>6, <1>7, <1>8 DEF Next, Proceed, Working, RowStep

(* Whoever holds the lock keeps the policy where it is, and the versions   *)
(* of rows never change.                                                   *)
LEMMA PolicyInductive == IInv /\ [Next]_vars => PolicyInv'
<1> SUFFICES ASSUME IInv, [Next]_vars PROVE PolicyInv'
  OBVIOUS
<1> USE DEF game
<1>t. TypeOK /\ PlanInv /\ PolicyInv
  BY DEF IInv
<1>n. \A c \in Callers : c # None
  BY MutationsAssumption
<1>1. ASSUME NEW c \in Callers, Working(c) PROVE PolicyInv'
  <2>1. UNCHANGED <<plans, policy, lock>>
    BY <1>1, <1>t, WorkingStep
  <2>2. \A d \in Callers : d # c => call'[d] = call[d]
    BY <1>1, <1>t, WorkingStep DEF Onward, TypeOK
  <2>3. call'[c].at = "ready" => plans[call'[c].plan].version = policy
    BY <1>1, <1>t, WorkingStep DEF Onward, Sendable, TypeOK
  <2>4. QED BY <1>t, <2>1, <2>2, <2>3 DEF PolicyInv
<1>2. ASSUME NEW c \in Callers, Close(c) \/ Die(c) PROVE PolicyInv'
  <2>1. \A d \in Callers : (d # c /\ call'[d] = call[d]) \/ call'[d].at = "idle"
    BY <1>2, <1>t DEF Close, Die, Idle, TypeOK
  <2>2. policy' = policy /\ (lock # c => plans' = plans /\ lock' = lock)
        /\ (lock = c => lock' = None)
    BY <1>2 DEF Close, Die
  <2>3. QED BY <1>t, <1>n, <2>1, <2>2 DEF PolicyInv
<1>3. ASSUME NEW c \in Callers, NEW p \in Plans, Start(c, p) PROVE PolicyInv'
  <2>1. call'[c].at = "checking" /\ \A d \in Callers : d # c => call'[d] = call[d]
    <3>1. [Idle EXCEPT !.at = "checking", !.plan = p].at = "checking"
      BY DEF Idle
    <3>2. QED BY <1>3, <1>t, <3>1 DEF Start, Local, TypeOK
  <2>2. lock' = c /\ UNCHANGED <<plans, policy>>
    BY <1>3 DEF Start, Local
  <2>3. QED BY <2>1, <2>2 DEF PolicyInv
<1>4. ASSUME NEW p \in Plans, RowStep(p) PROVE PolicyInv'
  <2>1. PICK r \in Rows :
           /\ plans' = [plans EXCEPT ![p] = r]
           /\ plans[p] # None => r.version = plans[p].version
           /\ UNCHANGED <<policy, lock, call, game, faults>>
    BY <1>4, StoreStep
  <2>2. plans'[p] = r /\ \A q \in Plans : q # p => plans'[q] = plans[q]
    BY <1>t, <2>1 DEF TypeOK
  <2>3. QED BY <1>t, <2>1, <2>2 DEF PolicyInv, PlanInv
<1>5. CASE SavePolicy \/ DropLock
  BY <1>5, <1>n DEF SavePolicy, DropLock, PolicyInv
<1>6. CASE PlayerMoves \/ UNCHANGED vars \/ \E p \in Plans : ServeLate(p)
  BY <1>6, <1>t DEF PlayerMoves, ServeLate, vars, PolicyInv
<1>7. QED BY <1>1, <1>2, <1>3, <1>4, <1>5, <1>6 DEF Next, Proceed, Working, RowStep

LEMMA Inductive == Spec => []IInv
<1>1. Init => IInv
  BY InitInductive
<1>2. IInv /\ [Next]_vars => IInv'
  BY TypeInductive, PlanInductive, PolicyInductive DEF IInv
<1>3. QED BY <1>1, <1>2, PTL DEF Spec

(* Rows, calls and counters keep their types (ActionPlan of models.py and  *)
(* the locals of mutate).                                                  *)
THEOREM TypeCorrect == Spec => []TypeOK
<1>1. IInv => TypeOK
  BY DEF IInv
<1>2. QED BY <1>1, Inductive, PTL

(* A call gets to its request only for a plan that has had no effect, also *)
(* when earlier transactions of the plan were lost with their verdicts     *)
(* (the comparison of the fingerprint in mutate).                          *)
THEOREM Fenced == Spec => ReplayFenced
<1>1. ASSUME IInv, [Next]_vars, NEW c \in Callers,
             call[c].at = "checking", call'[c].at = "ready"
      PROVE  effects[call[c].plan] = 0
  <2>t. TypeOK /\ PlanInv
    BY <1>1 DEF IInv
  <2>1. Sendable(call[c].plan)
    BY <1>1, <2>t, CallStep
  <2>2. call[c].plan \in Plans /\ plans[call[c].plan] \in Rows
    BY <1>1, <2>t DEF PlanInv, TypeOK
  <2>3. /\ plans[call[c].plan].seen = world
        /\ plans[call[c].plan].seen + effects[call[c].plan] <= world
    BY <2>t, <2>1, <2>2, NullAssumption DEF Sendable, PlanInv
  <2>4. world \in Nat /\ effects[call[c].plan] \in Nat
    BY <2>t, <2>2 DEF TypeOK
  <2>5. QED BY <2>3, <2>4
<1>2. IInv /\ [Next]_vars =>
        [\A c \in Callers : call[c].at = "checking" /\ call'[c].at = "ready" =>
           effects[call[c].plan] = 0]_vars
  BY <1>1
<1>3. QED BY <1>2, Inductive, PTL DEF ReplayFenced, Spec

(* The request of a plan leaves under the policy that the plan was made    *)
(* for (save takes the account lock, mutate checks the version under it).  *)
THEOREM Current == Spec => SendWhileCurrent
<1>1. IInv => \A c \in Callers : call[c].at = "ready" /\ lock = c =>
        plans[call[c].plan].version = policy
  BY DEF IInv, PolicyInv
<1>2. IInv /\ [Next]_vars =>
        [\A c \in Callers : call[c].at = "ready" /\ call'[c].at = "sent" /\ lock = c =>
           plans[call[c].plan].version = policy]_vars
  BY <1>1
<1>3. QED BY <1>2, Inductive, PTL DEF SendWhileCurrent, Spec

-----------------------------------------------------------------------------
(* How often a plan is carried out, and whether its verdict is true.       *)

(* A call that may still send, or has sent; one that has to settle its     *)
(* plan because its request may have worked; one that has the right to     *)
(* settle it.                                                              *)
Armed(k) == k.at \in {"ready", "sent"}
Concluding(k) ==
  \/ k.at \in {"worked", "verifying"}
  \/ k.at = "closing" /\ k.verdict \in {"executed", "reconciliation_required"}
Engaged(k) == Armed(k) \/ Concluding(k)
Busy(k) ==
  \/ k.at \in {"ready", "sent", "worked", "conflict", "refused", "verifying"}
  \/ k.at = "closing" /\ k.verdict # None

Unsettled(p) == plans[p] = None \/ plans[p].state \notin Settled

LEMMA WorkingKind ==
  ASSUME TypeOK, NEW c \in Callers, Working(c)
  PROVE  /\ call'[c].plan = call[c].plan
         /\ \A d \in Callers : d # c => call'[d] = call[d]
         /\ Concluding(call[c]) => Concluding(call'[c])
         /\ Busy(call'[c]) => Busy(call[c]) \/ Unsettled(call[c].plan)
         /\ \/ /\ UNCHANGED <<world, late, effects>>
               /\ Armed(call'[c]) => \/ Armed(call[c])
                                     \/ call[c].at = "checking" /\ lock = c
                                        /\ Unsettled(call[c].plan)
               /\ Engaged(call[c]) => \/ Engaged(call'[c])
                                      \/ Armed(call[c]) /\ ~Armed(call'[c])
            \/ /\ call[c].at = "sent" /\ call'[c].at = "worked"
               /\ Effect(call[c].plan) /\ UNCHANGED late
            \/ /\ call[c].at = "sent" /\ Concluding(call'[c]) /\ ~Armed(call'[c])
               /\ UNCHANGED <<world, effects>>
               /\ late' = [late EXCEPT ![call[c].plan] = @ + 1]
<1> USE DEF game, Armed, Concluding, Engaged, Busy
<1>a. call[c] \in Calls /\ \A r : call' = [call EXCEPT ![c] = r] =>
        call'[c] = r /\ \A d \in Callers : d # c => call'[d] = call[d]
  BY DEF TypeOK
<1>b. ASSUME NEW v, Conclude(c, v)
      PROVE  /\ call'[c].plan = call[c].plan
             /\ call'[c].at = "closing" /\ call'[c].verdict = v
             /\ \A d \in Callers : d # c => call'[d] = call[d]
  <2> DEFINE r == [call[c] EXCEPT !.at = "closing", !.verdict = v]
  <2>1. r.plan = call[c].plan /\ r.at = "closing" /\ r.verdict = v
    BY <1>a DEF Calls
  <2>2. call' = [call EXCEPT ![c] = r]
    BY <1>b DEF Conclude, Local
  <2> HIDE DEF r
  <2>3. QED BY <1>a, <2>1, <2>2
<1>c. ASSUME NEW at, Local(c, [call[c] EXCEPT !.at = at])
      PROVE  /\ call'[c].plan = call[c].plan
             /\ call'[c].at = at /\ call'[c].verdict = call[c].verdict
             /\ \A d \in Callers : d # c => call'[d] = call[d]
  <2> DEFINE r == [call[c] EXCEPT !.at = at]
  <2>1. r.plan = call[c].plan /\ r.at = at /\ r.verdict = call[c].verdict
    BY <1>a DEF Calls
  <2>2. call' = [call EXCEPT ![c] = r]
    BY <1>c DEF Local
  <2> HIDE DEF r
  <2>3. QED BY <1>a, <2>1, <2>2
<1>1. CASE CheckPlan(c)
  <2>1. CASE Sendable(call[c].plan)
    BY <1>1, <2>1, <1>c DEF CheckPlan, Sendable, Unsettled, Settled
  <2>2. CASE ~Sendable(call[c].plan)
    BY <1>1, <2>2, <1>b DEF CheckPlan, Unsettled
  <2>3. QED BY <2>1, <2>2
<1>2. CASE CheckRaises(c)
  BY <1>2, <1>b DEF CheckRaises, Unsettled
<1>3. CASE Send(c)
  BY <1>3, <1>c DEF Send
<1>4. CASE Serve(c)
  BY <1>4, <1>c DEF Serve
<1>5. CASE Receive(c)
  BY <1>5, <1>c DEF Receive
<1>6. CASE Verify(c)
  BY <1>6, <1>b DEF Verify
<1>7. CASE ReceiveRefusal(c)
  BY <1>7, <1>b DEF ReceiveRefusal
<1>8. CASE ReceiveConflict(c)
  <2> DEFINE r == [call[c] EXCEPT !.at = "checking", !.attempt = call[c].attempt + 1]
  <2>1. CASE Local(c, r)
    <3>1. r.plan = call[c].plan /\ r.at = "checking"
      BY <1>a DEF Calls
    <3>2. call' = [call EXCEPT ![c] = r]
      BY <2>1 DEF Local
    <3> HIDE DEF r
    <3>3. QED BY <1>8, <1>a, <3>1, <3>2 DEF ReceiveConflict
  <2>2. CASE Conclude(c, "reconciliation_required") \/ Conclude(c, "failed")
    BY <1>8, <2>2, <1>b DEF ReceiveConflict
  <2>3. QED BY <1>8, <2>1, <2>2 DEF ReceiveConflict
<1>9. CASE Timeout(c)
  BY <1>9, <1>b DEF Timeout, GiveUp, Ambiguous
<1>10. CASE Cancel(c)
  BY <1>10, <1>b DEF Cancel, GiveUp
<1>11. QED BY <1>1, <1>2, <1>3, <1>4, <1>5, <1>6, <1>7, <1>8, <1>9, <1>10 DEF Working

(* The other steps of a call: it begins, is closed or dies.                *)
LEMMA EndKind ==
  ASSUME TypeOK, PlanInv, NEW c \in Callers, Close(c) \/ Die(c)
  PROVE  /\ call'[c] = Idle /\ \A d \in Callers : d # c => call'[d] = call[d]
         /\ lock' = IF lock = c THEN None ELSE lock
         /\ \A p \in Plans : (plans'[p] = None <=> plans[p] = None)
                          /\ (p # call[c].plan => plans'[p] = plans[p])
         /\ lock # c \/ Die(c) => plans' = plans
         /\ UNCHANGED <<world, effects>>
<1>1. CASE Die(c)
  BY <1>1 DEF Die, GiveUp, TypeOK
<1>2. CASE Close(c)
  <2>1. call[c].plan \in Plans /\ plans[call[c].plan] \in Rows
    BY <1>2 DEF Close, PlanInv, TypeOK
  <2>2. ASSUME lock = c, call[c].verdict # None
        PROVE  [plans[call[c].plan] EXCEPT !.state = call[c].verdict] \in Rows
    <3>1. call[c].verdict \in Settled
      BY <2>2 DEF TypeOK, Calls, Verdicts
    <3>2. QED BY <2>1, <3>1 DEF Rows
  <2>3. \A p \in Plans : (plans'[p] = None <=> plans[p] = None)
                      /\ (p # call[c].plan => plans'[p] = plans[p])
    BY <1>2, <2>1, <2>2, NullAssumption DEF Close, TypeOK
  <2>4. Die(c) => plans' = plans
    BY DEF Die
  <2>5. QED BY <1>2, <2>3, <2>4 DEF Close, game, TypeOK
<1>3. QED BY <1>1, <1>2

LEMMA StartKind ==
  ASSUME TypeOK, NEW c \in Callers, NEW p \in Plans, Start(c, p)
  PROVE  /\ call'[c].at = "checking" /\ call'[c].plan = p
         /\ call[c].at = "idle"
         /\ \A d \in Callers : d # c => call'[d] = call[d]
         /\ lock = None /\ lock' = c
         /\ UNCHANGED <<plans, policy, faults, game>>
<1>1. [Idle EXCEPT !.at = "checking", !.plan = p].at = "checking"
      /\ [Idle EXCEPT !.at = "checking", !.plan = p].plan = p
  BY DEF Idle
<1>2. call[c].at = "idle"
  BY DEF Start, Idle
<1>3. QED BY <1>1, <1>2 DEF Start, Local, TypeOK

-----------------------------------------------------------------------------
(* Whether the recorded verdict is true.                                   *)

(* A request that has worked leads to a verdict that says so.              *)
ExecutedInv ==
  /\ \A c \in Callers :
       \/ call[c].at \in {"worked", "verifying"}
       \/ call[c].at = "closing" /\ call[c].verdict = "executed"
       => effects[call[c].plan] > 0
  /\ \A p \in Plans : plans[p] # None /\ plans[p].state = "executed" => effects[p] > 0

LEMMA ExecutedStep ==
  ASSUME TypeOK, NEW c \in Callers, Working(c)
  PROVE  \/ call'[c].at \in {"worked", "verifying"}
         \/ call'[c].at = "closing" /\ call'[c].verdict = "executed"
         => \/ call[c].at \in {"worked", "verifying"}
            \/ call[c].at = "sent" /\ Effect(call[c].plan)
<1> USE DEF game
<1>a. call[c] \in Calls /\ \A r : call' = [call EXCEPT ![c] = r] => call'[c] = r
  BY DEF TypeOK
<1>b. ASSUME NEW v, Conclude(c, v) PROVE call'[c].at = "closing" /\ call'[c].verdict = v
  <2> DEFINE r == [call[c] EXCEPT !.at = "closing", !.verdict = v]
  <2>1. r.at = "closing" /\ r.verdict = v
    BY <1>a DEF Calls
  <2>2. call' = [call EXCEPT ![c] = r]
    BY <1>b DEF Conclude, Local
  <2> HIDE DEF r
  <2>3. QED BY <1>a, <2>1, <2>2
<1>c. ASSUME NEW at, Local(c, [call[c] EXCEPT !.at = at]) PROVE call'[c].at = at
  <2> DEFINE r == [call[c] EXCEPT !.at = at]
  <2>1. r.at = at
    BY <1>a DEF Calls
  <2>2. call' = [call EXCEPT ![c] = r]
    BY <1>c DEF Local
  <2> HIDE DEF r
  <2>3. QED BY <1>a, <2>1, <2>2
<1>n. None # "executed"
  BY NullAssumption DEF Settled
<1>1. CASE CheckPlan(c)
  BY <1>1, <1>b, <1>c, <1>n DEF CheckPlan
<1>2. CASE CheckRaises(c) \/ ReceiveRefusal(c)
  BY <1>2, <1>b, <1>n DEF CheckRaises, ReceiveRefusal
<1>3. CASE Send(c) \/ Serve(c) \/ Receive(c)
  BY <1>3, <1>c DEF Send, Serve, Receive
<1>4. CASE Verify(c)
  BY <1>4, <1>b DEF Verify
<1>5. CASE ReceiveConflict(c)
  <2> DEFINE r == [call[c] EXCEPT !.at = "checking", !.attempt = call[c].attempt + 1]
  <2>1. CASE Local(c, r)
    <3>1. r.at = "checking"
      BY <1>a DEF Calls
    <3>2. call' = [call EXCEPT ![c] = r]
      BY <2>1 DEF Local
    <3> HIDE DEF r
    <3>3. QED BY <1>a, <3>1, <3>2
  <2>2. CASE Conclude(c, "reconciliation_required") \/ Conclude(c, "failed")
    BY <2>2, <1>b
  <2>3. QED BY <1>5, <2>1, <2>2 DEF ReceiveConflict
<1>6. CASE Timeout(c)
  BY <1>6, <1>b, <1>n DEF Timeout, Ambiguous
<1>7. CASE Cancel(c)
  BY <1>7, <1>b, <1>n DEF Cancel
<1>8. QED BY <1>1, <1>2, <1>3, <1>4, <1>5, <1>6, <1>7 DEF Working

(* Effects are never taken back.                                           *)
LEMMA EffectsGrow ==
  ASSUME IInv, [Next]_vars
  PROVE  \A p \in Plans : effects'[p] \in Nat /\ effects'[p] >= effects[p]
<1> USE DEF game
<1>t. TypeOK /\ PlanInv
  BY DEF IInv
<1>1. ASSUME NEW q \in Plans, Effect(q)
      PROVE  \A p \in Plans : effects'[p] \in Nat /\ effects'[p] >= effects[p]
  BY <1>1, <1>t DEF Effect, TypeOK
<1>2. CASE UNCHANGED effects
  BY <1>2, <1>t DEF TypeOK
<1>3. ASSUME NEW c \in Callers, Working(c)
      PROVE  \A p \in Plans : effects'[p] \in Nat /\ effects'[p] >= effects[p]
  <2>1. call[c].plan \in Plans
    BY <1>3, <1>t, WorkingStep DEF Onward, PlanInv
  <2>2. QED BY <1>1, <1>2, <1>3, <1>t, <2>1, WorkingStep
<1>4. ASSUME NEW c \in Callers, Close(c) \/ Die(c)
      PROVE  \A p \in Plans : effects'[p] \in Nat /\ effects'[p] >= effects[p]
  BY <1>2, <1>4, <1>t, EndKind
<1>5. QED
  BY <1>1, <1>2, <1>3, <1>4 DEF Next, Proceed, Working,
     Start, Create, Confirm, Expire,
     Store, Local, ServeLate, SavePolicy, DropLock, PlayerMoves, vars

LEMMA ExecutedInductive == IInv /\ ExecutedInv /\ [Next]_vars => ExecutedInv'
<1> SUFFICES ASSUME IInv, ExecutedInv, [Next]_vars PROVE ExecutedInv'
  OBVIOUS
<1> USE DEF game
<1>t. TypeOK /\ PlanInv
  BY DEF IInv
<1> DEFINE Done(k) == \/ k.at \in {"worked", "verifying"}
                      \/ k.at = "closing" /\ k.verdict = "executed"
<1>g. \A p \in Plans : effects[p] > 0 => effects'[p] > 0
  <2>1. \A p \in Plans : effects[p] \in Nat
    BY <1>t DEF TypeOK
  <2>2. QED BY <2>1, EffectsGrow
<1>p. \A c \in Callers : Done(call[c]) => call[c].plan \in Plans
  BY <1>t DEF PlanInv
<1>1. ASSUME \A c \in Callers : call'[c] = call[c] \/ ~Done(call'[c]),
             \A p \in Plans : plans'[p] # None /\ plans'[p].state = "executed" =>
               \/ plans[p] # None /\ plans[p].state = "executed"
               \/ effects'[p] > 0
      PROVE  ExecutedInv'
  BY <1>1, <1>g, <1>p DEF ExecutedInv
<1>2. ASSUME NEW c \in Callers, Working(c) PROVE ExecutedInv'
  <2>1. call[c].plan \in Plans
    BY <1>2, <1>t, WorkingStep DEF Onward, PlanInv
  <2>2. plans' = plans /\ call'[c].plan = call[c].plan
        /\ \A d \in Callers : d # c => call'[d] = call[d]
    BY <1>2, <1>t, WorkingStep, WorkingKind
  <2>3. Done(call'[c]) => effects'[call[c].plan] > 0
    <3>1. CASE call[c].at \in {"worked", "verifying"}
      BY <3>1, <2>1, <1>g DEF ExecutedInv
    <3>2. CASE Effect(call[c].plan)
      BY <3>2, <2>1, <1>t DEF Effect, TypeOK
    <3>3. QED BY <1>2, <1>t, <3>1, <3>2, ExecutedStep
  <2>4. QED BY <1>g, <1>p, <2>1, <2>2, <2>3 DEF ExecutedInv
<1>3. ASSUME NEW c \in Callers, Close(c) \/ Die(c) PROVE ExecutedInv'
  <2>1. \A d \in Callers : call'[d] = call[d] \/ ~Done(call'[d])
    BY <1>3, <1>t, EndKind DEF Idle
  <2>2. ASSUME NEW p \in Plans, plans'[p] # None, plans'[p].state = "executed",
             plans'[p] # plans[p]
        PROVE  effects'[p] > 0
    <3>1. Close(c) /\ lock = c /\ call[c].verdict # None /\ p = call[c].plan
          /\ plans[p] \in Rows
      BY <1>3, <1>t, <2>2, EndKind DEF Close, TypeOK
    <3>2. plans'[p] = [plans[p] EXCEPT !.state = call[c].verdict]
      BY <1>t, <3>1 DEF Close, TypeOK
    <3>3. call[c].verdict = "executed"
      BY <2>2, <3>1, <3>2 DEF Rows
    <3>4. QED BY <1>g, <3>1, <3>3 DEF Close, ExecutedInv
  <2>3. QED BY <1>1, <2>1, <2>2
<1>4. ASSUME NEW c \in Callers, NEW p \in Plans, Start(c, p) PROVE ExecutedInv'
  <2>1. \A d \in Callers : call'[d] = call[d] \/ ~Done(call'[d])
    BY <1>4, <1>t, StartKind
  <2>2. plans' = plans
    BY <1>4, <1>t, StartKind
  <2>3. QED BY <1>1, <2>1, <2>2
<1>5. ASSUME NEW p \in Plans, RowStep(p) PROVE ExecutedInv'
  <2>1. PICK r \in Rows :
           /\ plans' = [plans EXCEPT ![p] = r]
           /\ plans[p] = None => r.state = "pending"
           /\ plans[p] # None => \/ r.state = plans[p].state
                                 \/ plans[p].state = "pending" /\ r.state = "confirmed"
           /\ UNCHANGED <<policy, lock, call, game, faults>>
    BY <1>5, StoreStep
  <2>2. plans'[p] = r /\ \A q \in Plans : q # p => plans'[q] = plans[q]
    BY <1>t, <2>1 DEF TypeOK
  <2>3. QED BY <1>1, <2>1, <2>2
<1>6. CASE UNCHANGED <<plans, call>>
  BY <1>1, <1>6
<1>7. QED
  BY <1>2, <1>3, <1>4, <1>5, <1>6 DEF Next, Proceed, Working, RowStep,
     ServeLate, SavePolicy,
     DropLock, PlayerMoves, vars

(* As long as no transaction is lost: whoever works holds the lock; who    *)
(* has something to settle finds its plan unsettled; and what a request    *)
(* has done, or may still do, is on record or about to be.                 *)
Dirty(p) == effects[p] > 0 \/ late[p] > 0
Claimed(p) == \E c \in Callers : call[c].plan = p /\ Concluding(call[c])
HonestInv == faults = 0 =>
  /\ \A c \in Callers : call[c].at # "idle" => lock = c
  /\ \A c \in Callers : Busy(call[c]) => plans[call[c].plan].state \notin Settled
  /\ \A p \in Plans : plans[p] # None /\ Dirty(p) =>
       plans[p].state \in {"executed", "reconciliation_required"} \/ Claimed(p)

LEMMA HonestInductive == IInv /\ HonestInv /\ [Next]_vars => HonestInv'
<1> SUFFICES ASSUME IInv, HonestInv, [Next]_vars, faults' = 0 PROVE HonestInv'
  BY DEF HonestInv
<1> USE DEF game
<1>t. TypeOK /\ PlanInv
  BY DEF IInv
<1>i. \A c \in Callers : Busy(call[c]) \/ Concluding(call[c]) => call[c].at # "idle"
  BY DEF Busy, Concluding
<1>s. Settled = {"executed", "failed", "reconciliation_required"} /\ None \notin Settled
  BY NullAssumption DEF Settled
<1>1. ASSUME NEW c \in Callers, Working(c) PROVE HonestInv'
  <2>1. /\ call[c].plan \in Plans /\ plans[call[c].plan] # None
        /\ call[c].at # "idle"
        /\ UNCHANGED <<plans, lock, faults>>
    BY <1>1, <1>t, WorkingStep DEF Onward, PlanInv
  <2>2. /\ call'[c].plan = call[c].plan
        /\ \A d \in Callers : d # c => call'[d] = call[d]
        /\ Concluding(call[c]) => Concluding(call'[c])
        /\ Busy(call'[c]) => Busy(call[c]) \/ Unsettled(call[c].plan)
    BY <1>1, <1>t, WorkingKind
  <2>3. \A p \in Plans : Claimed(p) => Claimed(p)'
    BY <2>2 DEF Claimed
  <2>4. \A p \in Plans : Dirty(p)' => Dirty(p) \/ Claimed(p)'
    <3>1. ASSUME NEW p \in Plans, p # call[c].plan PROVE Dirty(p)' = Dirty(p)
      BY <1>1, <1>t, <2>1, <3>1, WorkingStep DEF Effect, Dirty, TypeOK
    <3>2. UNCHANGED <<late, effects>> \/ Concluding(call'[c])
      BY <1>1, <1>t, WorkingKind DEF Concluding
    <3>3. QED BY <3>1, <3>2, <2>2 DEF Dirty, Claimed
  <2>5. faults = 0
    BY <2>1
  <2>6. \A d \in Callers : call'[d].at # "idle" => lock = d
    BY <2>1, <2>2, <2>5 DEF HonestInv
  <2>7. \A d \in Callers : Busy(call'[d]) => plans[call'[d].plan].state \notin Settled
    BY <2>1, <2>2, <2>5 DEF HonestInv, Unsettled
  <2>8. QED BY <2>1, <2>3, <2>4, <2>5, <2>6, <2>7 DEF HonestInv
<1>2. ASSUME NEW c \in Callers, Close(c) PROVE HonestInv'
  <2>1. /\ call[c].at = "closing" /\ faults = 0
        /\ call[c].plan \in Plans /\ plans[call[c].plan] \in Rows
    BY <1>2, <1>t DEF Close, PlanInv, TypeOK
  <2>2. lock = c /\ \A d \in Callers : d # c => call[d].at = "idle"
    BY <2>1 DEF HonestInv
  <2>3. \A d \in Callers : call'[d].at = "idle"
    BY <1>2, <1>t, <2>2, EndKind DEF Idle
  <2>4. \A d \in Callers : ~Busy(call'[d])
    BY <2>3 DEF Busy
  <2>5. UNCHANGED <<effects, late>>
    BY <1>2 DEF Close
  <2>6. ASSUME NEW p \in Plans, plans'[p] # None, Dirty(p)
        PROVE  plans'[p].state \in {"executed", "reconciliation_required"}
    <3>1. plans[p] # None
      BY <1>2, <1>t, <2>6, EndKind
    <3>2. \/ plans[p].state \in {"executed", "reconciliation_required"}
          \/ p = call[c].plan /\ Concluding(call[c])
      BY <2>1, <2>2, <2>6, <3>1, <1>i DEF HonestInv, Claimed
    <3>3. CASE p # call[c].plan
      BY <1>2, <1>t, <3>2, <3>3, EndKind
    <3>4. CASE p = call[c].plan /\ call[c].verdict = None
      BY <1>2, <2>1, <3>2, <3>4, <1>s DEF Close, Concluding
    <3>5. CASE p = call[c].plan /\ call[c].verdict # None
      <4>1. plans[p].state \notin Settled
        BY <2>1, <3>5 DEF HonestInv, Busy
      <4>2. call[c].verdict \in {"executed", "reconciliation_required"}
        BY <2>1, <3>2, <4>1, <1>s DEF Concluding
      <4>3. plans'[p] = [plans[p] EXCEPT !.state = call[c].verdict]
        BY <1>2, <1>t, <2>2, <3>5 DEF Close, TypeOK
      <4>4. QED BY <2>1, <3>5, <4>2, <4>3 DEF Rows
    <3>6. QED BY <3>3, <3>4, <3>5
  <2>7. QED BY <2>3, <2>4, <2>5, <2>6 DEF HonestInv, Dirty
<1>3. ASSUME NEW c \in Callers, NEW p \in Plans, Start(c, p) PROVE HonestInv'
  <2>1. faults = 0 /\ UNCHANGED <<plans, effects, late>>
    BY <1>3, <1>t, StartKind
  <2>2. \A d \in Callers : call[d].at = "idle"
    BY <1>3, <1>t, <2>1, StartKind, MutationsAssumption DEF HonestInv
  <2>3. /\ \A d \in Callers : call'[d].at # "idle" => lock' = d
        /\ \A d \in Callers : ~Busy(call'[d])
    BY <1>3, <1>t, <2>2, StartKind DEF Busy
  <2>4. \A q \in Plans : ~Claimed(q)
    BY <2>2, <1>i DEF Claimed
  <2>5. QED BY <2>1, <2>3, <2>4 DEF HonestInv, Dirty
<1>4. ASSUME NEW p \in Plans, RowStep(p) PROVE HonestInv'
  <2>1. PICK r \in Rows :
           /\ plans' = [plans EXCEPT ![p] = r]
           /\ plans[p] # None => \/ r.state = plans[p].state
                                 \/ plans[p].state = "pending" /\ r.state = "confirmed"
           /\ UNCHANGED <<policy, lock, call, game, faults>>
    BY <1>4, StoreStep
  <2>2. plans'[p] = r /\ \A q \in Plans : q # p => plans'[q] = plans[q]
    BY <1>t, <2>1 DEF TypeOK
  <2>3. faults = 0 /\ UNCHANGED <<call, lock, effects, late>>
    BY <2>1
  <2>4. \A d \in Callers : Busy(call[d]) =>
          call[d].plan \in Plans /\ plans[call[d].plan] # None
    BY <1>i, <1>t DEF PlanInv
  <2>5. \A d \in Callers : Busy(call[d]) => plans'[call[d].plan].state \notin Settled
    BY <2>1, <2>2, <2>3, <2>4, <1>s DEF HonestInv
  <2>6. plans[p] = None => ~Dirty(p)
    BY <1>t DEF PlanInv, Dirty
  <2>7. \A q \in Plans : plans'[q] # None /\ Dirty(q) =>
          plans'[q].state \in {"executed", "reconciliation_required"} \/ Claimed(q)
    BY <2>1, <2>2, <2>3, <2>6 DEF HonestInv
  <2>8. QED BY <2>3, <2>5, <2>7 DEF HonestInv, Dirty, Claimed
<1>5. ASSUME NEW p \in Plans, ServeLate(p) PROVE HonestInv'
  <2>1. UNCHANGED <<plans, lock, call, faults>>
    BY <1>5 DEF ServeLate
  <2>2. Dirty(p)
    BY <1>5 DEF ServeLate, Dirty
  <2>3. \A q \in Plans : Dirty(q)' => Dirty(q)
    BY <1>5, <1>t, <2>2 DEF ServeLate, Effect, Dirty, TypeOK
  <2>4. QED BY <2>1, <2>3 DEF HonestInv, Claimed
<1>6. ASSUME faults' = faults + 1 PROVE FALSE
  BY <1>6, <1>t DEF TypeOK
<1>7. CASE UNCHANGED <<plans, lock, call, effects, late, faults>>
  BY <1>7 DEF HonestInv, Dirty, Claimed
<1>8. QED
  BY <1>1, <1>2, <1>3, <1>4, <1>5, <1>6, <1>7 DEF Next, Proceed, Working, RowStep,
     Die, DropLock,
     SavePolicy, PlayerMoves, vars

LEMMA VerdictInit == Init => ExecutedInv /\ HonestInv
<1> SUFFICES ASSUME Init PROVE ExecutedInv /\ HonestInv
  OBVIOUS
<1>1. \A c \in Callers : call[c].at = "idle"
  BY DEF Init, Idle
<1>2. ExecutedInv
  BY <1>1 DEF Init, ExecutedInv
<1>3. \A c \in Callers : ~Busy(call[c])
  BY <1>1 DEF Busy
<1>4. HonestInv
  BY <1>1, <1>3 DEF Init, HonestInv
<1>5. QED BY <1>2, <1>4

(* What is recorded as executed was done; what is recorded as failed was   *)
(* not done and will not be, unless a transaction was lost (mutate and     *)
(* finish).                                                                *)
THEOREM Honest == Spec => []VerdictHonest
<1>1. IInv /\ ExecutedInv /\ HonestInv => VerdictHonest
  <2> SUFFICES ASSUME IInv, ExecutedInv, HonestInv, NEW p \in Plans, plans[p] # None
               PROVE  /\ plans[p].state = "executed" => effects[p] > 0
                      /\ plans[p].state = "failed" /\ faults = 0 =>
                           effects[p] = 0 /\ late[p] = 0
    BY DEF VerdictHonest
  <2>1. effects[p] \in Nat /\ late[p] \in Nat
    BY DEF IInv, TypeOK
  <2>2. plans[p].state = "failed" /\ faults = 0 => ~Dirty(p)
    <3> SUFFICES ASSUME plans[p].state = "failed", faults = 0, Dirty(p) PROVE FALSE
      OBVIOUS
    <3>1. PICK c \in Callers : call[c].plan = p /\ Concluding(call[c])
      BY DEF HonestInv, Claimed
    <3>2. Busy(call[c])
      BY <3>1, NullAssumption DEF Concluding, Busy, Settled
    <3>3. QED BY <3>1, <3>2 DEF HonestInv, Settled
  <2>3. ~Dirty(p) => effects[p] = 0 /\ late[p] = 0
    BY <2>1 DEF Dirty
  <2>4. QED BY <2>2, <2>3 DEF ExecutedInv
<1>2. Init => ExecutedInv /\ HonestInv
  BY VerdictInit
<1>3. IInv /\ ExecutedInv /\ HonestInv /\ [Next]_vars => (ExecutedInv /\ HonestInv)'
  BY ExecutedInductive, HonestInductive
<1>4. QED BY <1>1, <1>2, <1>3, Inductive, PTL DEF Spec

-----------------------------------------------------------------------------
(* How often a plan is carried out.                                        *)

(* The right to send once, as long as the plan is unsettled and the holder *)
(* of the lock has not taken it; what was sent; and what has worked: only  *)
(* a lost transaction can bring the right back.                            *)
Arms(p) == {c \in Callers : call[c].plan = p /\ Armed(call[c])}
Held(p) == \E c \in Callers : lock = c /\ call[c].plan = p /\ Engaged(call[c])
Open(p) == IF Unsettled(p) /\ ~Held(p) THEN 1 ELSE 0
Load(p) == effects[p] + late[p] + Cardinality(Arms(p)) + Open(p)
OnceInv == \A p \in Plans : Load(p) <= 1 + faults

LEMMA Natural ==
  ASSUME TypeOK, NEW p \in Plans
  PROVE  /\ effects[p] \in Nat /\ late[p] \in Nat /\ faults \in Nat
         /\ Cardinality(Arms(p)) \in Nat /\ Open(p) \in {0, 1}
<1>1. IsFiniteSet(Arms(p))
  BY FS_Subset, MutationsAssumption DEF Arms
<1>2. QED BY <1>1, FS_CardinalityType DEF TypeOK, Open

(* The calls that may send, after one of them has moved on.                *)
LEMMA ArmsStep ==
  ASSUME TypeOK, NEW p \in Plans, NEW c \in Callers, call'[c].plan = p,
         \A d \in Callers : d # c => call'[d] = call[d], call[c].plan = p
  PROVE  Cardinality(Arms(p)') =
           IF Armed(call'[c]) = Armed(call[c]) THEN Cardinality(Arms(p))
           ELSE IF Armed(call'[c]) THEN Cardinality(Arms(p)) + 1
           ELSE Cardinality(Arms(p)) - 1
<1>1. IsFiniteSet(Arms(p))
  BY FS_Subset, MutationsAssumption DEF Arms
<1>2. CASE Armed(call'[c])
  <2>1. Arms(p)' = Arms(p) \cup {c}
    BY <1>2 DEF Arms
  <2>2. c \in Arms(p) <=> Armed(call[c])
    BY DEF Arms
  <2>3. Cardinality(Arms(p) \cup {c}) =
          IF c \in Arms(p) THEN Cardinality(Arms(p)) ELSE Cardinality(Arms(p)) + 1
    BY <1>1, FS_AddElement
  <2>4. QED BY <1>2, <2>1, <2>2, <2>3 DEF Armed
<1>3. CASE ~Armed(call'[c])
  <2>1. Arms(p)' = Arms(p) \ {c}
    BY <1>3 DEF Arms
  <2>2. c \in Arms(p) <=> Armed(call[c])
    BY DEF Arms
  <2>3. Cardinality(Arms(p) \ {c}) =
          IF c \in Arms(p) THEN Cardinality(Arms(p)) - 1 ELSE Cardinality(Arms(p))
    BY <1>1, FS_RemoveElement
  <2>4. QED BY <1>3, <2>1, <2>2, <2>3 DEF Armed
<1>4. QED BY <1>2, <1>3

(* A step of a call under way does not raise the load of its plan.         *)
LEMMA LoadWorking ==
  ASSUME IInv, NEW c \in Callers, Working(c), NEW p \in Plans
  PROVE  Load(p)' <= Load(p)
<1> USE DEF game
<1>t. TypeOK /\ PlanInv
  BY DEF IInv
<1>a. /\ call[c].plan \in Plans /\ call[c].at # "idle"
      /\ UNCHANGED <<plans, lock, faults>>
  BY <1>t, WorkingStep DEF Onward, PlanInv
<1>b. /\ call'[c].plan = call[c].plan
      /\ \A d \in Callers : d # c => call'[d] = call[d]
  BY <1>t, WorkingKind
<1>n. /\ effects[p] \in Nat /\ late[p] \in Nat
      /\ Cardinality(Arms(p)) \in Nat /\ Open(p) \in {0, 1}
  BY <1>t, Natural
<1>1. CASE p # call[c].plan
  <2>1. Arms(p)' = Arms(p) /\ Open(p)' = Open(p)
    BY <1>1, <1>a, <1>b DEF Arms, Open, Held, Unsettled
  <2>2. effects'[p] = effects[p] /\ late'[p] = late[p]
    BY <1>1, <1>t, <1>a, WorkingStep DEF Effect, TypeOK
  <2>3. QED BY <1>n, <2>1, <2>2 DEF Load
<1>2. CASE p = call[c].plan
  <2>1. Cardinality(Arms(p)') =
          IF Armed(call'[c]) = Armed(call[c]) THEN Cardinality(Arms(p))
          ELSE IF Armed(call'[c]) THEN Cardinality(Arms(p)) + 1
          ELSE Cardinality(Arms(p)) - 1
    BY <1>2, <1>t, <1>b, ArmsStep
  <2>2. Unsettled(p)' = Unsettled(p)
    BY <1>a DEF Unsettled
  <2>3. CASE UNCHANGED <<world, late, effects>> /\ Armed(call'[c]) /\ ~Armed(call[c])
    <3>1. call[c].at = "checking" /\ lock = c /\ Unsettled(p)
      BY <1>2, <1>t, <2>3, WorkingKind DEF Armed
    <3>2. Open(p) = 1
      BY <1>2, <1>b, <3>1 DEF Open, Held, Engaged, Armed, Concluding
    <3>3. Open(p)' = 0
      BY <1>2, <1>a, <1>b, <2>3, <3>1 DEF Open, Held, Engaged
    <3>4. Cardinality(Arms(p)') = Cardinality(Arms(p)) + 1
      BY <2>1, <2>3
    <3>5. QED BY <1>n, <2>3, <3>2, <3>3, <3>4 DEF Load
  <2>4. CASE UNCHANGED <<world, late, effects>> /\ Armed(call[c]) /\ ~Armed(call'[c])
    <3>1. Cardinality(Arms(p)') = Cardinality(Arms(p)) - 1
      BY <2>1, <2>4
    <3>2. Open(p)' \in {0, 1}
      BY DEF Open
    <3>3. QED BY <1>n, <2>4, <3>1, <3>2 DEF Load
  <2>5. CASE UNCHANGED <<world, late, effects>> /\ Armed(call[c]) = Armed(call'[c])
    <3>1. Engaged(call[c]) => Engaged(call'[c])
      <4>1. CASE call[c].at = "sent" /\ Concluding(call'[c])
        BY <4>1 DEF Engaged
      <4>2. CASE call[c].at = "sent" /\ call'[c].at = "worked"
        BY <4>2, <2>5 DEF Armed
      <4>3. QED BY <1>t, <2>5, <4>1, <4>2, WorkingKind
    <3>2. Held(p) => Held(p)'
      BY <1>a, <1>b, <3>1 DEF Held
    <3>3. Open(p)' <= Open(p)
      BY <2>2, <3>2 DEF Open
    <3>4. Cardinality(Arms(p)') = Cardinality(Arms(p))
      BY <2>1, <2>5
    <3>5. Open(p)' \in {0, 1}
      BY DEF Open
    <3>6. QED BY <1>n, <2>5, <3>3, <3>4, <3>5 DEF Load
  <2>6. CASE call[c].at = "sent" /\ Concluding(call'[c]) /\ ~Armed(call'[c])
             /\ \/ effects'[p] = effects[p] + 1 /\ late'[p] = late[p]
                \/ effects'[p] = effects[p] /\ late'[p] = late[p] + 1
    <3>1. Cardinality(Arms(p)') = Cardinality(Arms(p)) - 1
      BY <2>1, <2>6 DEF Armed
    <3>2. Held(p) => Held(p)'
      BY <1>2, <1>a, <1>b, <2>6 DEF Held, Engaged
    <3>3. Open(p)' <= Open(p) /\ Open(p)' \in {0, 1}
      BY <2>2, <3>2 DEF Open
    <3>4. QED BY <1>n, <2>6, <3>1, <3>3 DEF Load
  <2>7. \/ UNCHANGED <<world, late, effects>>
        \/ /\ call[c].at = "sent" /\ Concluding(call'[c]) /\ ~Armed(call'[c])
           /\ \/ effects'[p] = effects[p] + 1 /\ late'[p] = late[p]
              \/ effects'[p] = effects[p] /\ late'[p] = late[p] + 1
    BY <1>2, <1>t, <1>a, WorkingKind DEF Effect, Concluding, Armed, TypeOK
  <2>8. (Armed(call[c]) = Armed(call'[c])) \/ (Armed(call[c]) /\ ~Armed(call'[c]))
        \/ (~Armed(call[c]) /\ Armed(call'[c]))
    BY DEF Armed
  <2>9. QED BY <2>3, <2>4, <2>5, <2>6, <2>7, <2>8
<1>3. QED BY <1>1, <1>2

LEMMA OnceInductive == IInv /\ OnceInv /\ [Next]_vars => OnceInv'
<1> SUFFICES ASSUME IInv, OnceInv, [Next]_vars, NEW p \in Plans
             PROVE  Load(p)' <= 1 + faults'
  BY DEF OnceInv
<1> USE DEF game
<1>t. TypeOK /\ PlanInv
  BY DEF IInv
<1>n. /\ effects[p] \in Nat /\ late[p] \in Nat /\ faults \in Nat
      /\ Cardinality(Arms(p)) \in Nat /\ Open(p) \in {0, 1}
  BY <1>t, Natural
<1>o. Load(p) <= 1 + faults
  BY DEF OnceInv
<1>m. Open(p)' \in {0, 1}
  BY DEF Open
<1>1. ASSUME NEW c \in Callers, Working(c) PROVE Load(p)' <= 1 + faults'
  <2>1. Load(p)' <= Load(p) /\ faults' = faults
    BY <1>1, <1>t, LoadWorking, WorkingStep
  <2>2. Load(p) \in Int
    BY <1>n DEF Load
  <2>3. Load(p)' \in Int
    <3>1. TypeOK'
      BY TypeInductive
    <3>2. /\ effects'[p] \in Nat /\ late'[p] \in Nat
      BY <3>1 DEF TypeOK
    <3>3. IsFiniteSet(Arms(p)')
      BY FS_Subset, MutationsAssumption DEF Arms
    <3>4. Cardinality(Arms(p)') \in Nat
      BY <3>3, FS_CardinalityType
    <3>5. QED BY <1>m, <3>2, <3>4 DEF Load
  <2>4. QED BY <1>n, <1>o, <2>1, <2>2, <2>3
<1>2. ASSUME Arms(p)' = Arms(p), effects'[p] = effects[p], late'[p] = late[p],
             Open(p)' <= Open(p), faults' = faults
      PROVE  Load(p)' <= 1 + faults'
  BY <1>2, <1>n, <1>m, <1>o DEF Load
<1>3. ASSUME NEW c \in Callers, Close(c) PROVE Load(p)' <= 1 + faults'
  <2>1. /\ call'[c] = Idle /\ \A d \in Callers : d # c => call'[d] = call[d]
        /\ lock' = IF lock = c THEN None ELSE lock
        /\ plans'[p] = None <=> plans[p] = None
        /\ p # call[c].plan \/ lock # c => plans'[p] = plans[p]
    BY <1>3, <1>t, EndKind
  <2>2. /\ call[c].at = "closing"
        /\ call[c].plan \in Plans /\ plans[call[c].plan] \in Rows
        /\ UNCHANGED <<effects, late, faults>>
    BY <1>3, <1>t DEF Close, PlanInv, TypeOK
  <2>3. Arms(p)' = Arms(p)
    BY <2>1, <2>2 DEF Arms, Armed, Idle
  <2>4. ASSUME Unsettled(p)' PROVE Unsettled(p)
    <3>1. CASE plans'[p] = plans[p]
      BY <2>4, <3>1 DEF Unsettled
    <3>2. CASE p = call[c].plan /\ lock = c /\ call[c].verdict # None
      <4>1. call[c].verdict \in Settled
        BY <1>t, <3>2 DEF TypeOK, Calls, Verdicts
      <4>2. plans'[p] = [plans[p] EXCEPT !.state = call[c].verdict]
        BY <1>3, <1>t, <3>2 DEF Close, TypeOK
      <4>3. plans'[p].state = call[c].verdict /\ plans[p] # None
        BY <2>2, <3>2, <4>2, NullAssumption DEF Rows
      <4>4. QED BY <2>1, <2>4, <4>1, <4>3 DEF Unsettled
    <3>3. CASE lock = c /\ call[c].verdict = None
      BY <1>3, <2>4, <3>3 DEF Close, Unsettled
    <3>4. QED BY <2>1, <3>1, <3>2, <3>3
  <2>5. ASSUME Held(p), Unsettled(p)' PROVE Held(p)'
    <3>1. PICK d \in Callers : lock = d /\ call[d].plan = p /\ Engaged(call[d])
      BY <2>5 DEF Held
    <3>2. CASE d # c
      BY <2>1, <3>1, <3>2 DEF Held
    <3>3. CASE d = c
      <4>1. call[c].verdict \in {"executed", "reconciliation_required"}
        BY <2>2, <3>1, <3>3 DEF Engaged, Armed, Concluding
      <4>2. call[c].verdict # None /\ call[c].verdict \in Settled
        BY <4>1, NullAssumption DEF Settled
      <4>3. plans'[p] = [plans[p] EXCEPT !.state = call[c].verdict]
        BY <1>3, <1>t, <3>1, <3>3, <4>2 DEF Close, TypeOK
      <4>4. plans'[p].state = call[c].verdict /\ plans'[p] # None
        BY <2>1, <2>2, <3>1, <3>3, <4>3, NullAssumption DEF Rows
      <4>5. QED BY <2>5, <4>2, <4>4 DEF Unsettled
    <3>4. QED BY <3>2, <3>3
  <2>6. Open(p)' <= Open(p)
    BY <2>4, <2>5 DEF Open
  <2>7. QED BY <1>2, <2>2, <2>3, <2>6
<1>4. ASSUME NEW c \in Callers, Die(c) PROVE Load(p)' <= 1 + faults'
  <2>1. /\ call'[c] = Idle /\ \A d \in Callers : d # c => call'[d] = call[d]
        /\ UNCHANGED <<plans, effects>> /\ faults' = faults + 1
    BY <1>4, <1>t, EndKind DEF Die
  <2>2. IsFiniteSet(Arms(p))
    BY FS_Subset, MutationsAssumption DEF Arms
  <2>3. Arms(p)' = Arms(p) \ {c}
    BY <2>1 DEF Arms, Armed, Idle
  <2>4. Cardinality(Arms(p)') =
          IF c \in Arms(p) THEN Cardinality(Arms(p)) - 1 ELSE Cardinality(Arms(p))
    BY <2>2, <2>3, FS_RemoveElement
  <2>5. \/ late'[p] = late[p]
        \/ late'[p] = late[p] + 1 /\ c \in Arms(p)
    BY <1>4, <1>t DEF Die, GiveUp, Arms, Armed, PlanInv, TypeOK
  <2>6. QED BY <1>n, <1>m, <1>o, <2>1, <2>4, <2>5 DEF Load
<1>5. CASE DropLock
  <2>1. UNCHANGED <<call, effects, late>> /\ faults' = faults + 1
    BY <1>5 DEF DropLock
  <2>2. Arms(p)' = Arms(p)
    BY <2>1 DEF Arms
  <2>3. QED BY <1>n, <1>m, <1>o, <2>1, <2>2 DEF Load
<1>6. ASSUME NEW c \in Callers, NEW q \in Plans, Start(c, q)
      PROVE  Load(p)' <= 1 + faults'
  <2>1. /\ call'[c].at = "checking" /\ call[c].at = "idle" /\ lock = None /\ lock' = c
        /\ \A d \in Callers : d # c => call'[d] = call[d]
        /\ UNCHANGED <<plans, effects, late, faults>>
    BY <1>6, <1>t, StartKind
  <2>2. Arms(p)' = Arms(p)
    BY <2>1 DEF Arms, Armed
  <2>3. ~Held(p)
    BY <2>1, MutationsAssumption DEF Held
  <2>4. Unsettled(p)' = Unsettled(p)
    BY <2>1 DEF Unsettled
  <2>5. Open(p)' <= Open(p)
    BY <2>3, <2>4 DEF Open
  <2>6. QED BY <1>2, <2>1, <2>2, <2>5
<1>7. ASSUME NEW q \in Plans, RowStep(q) PROVE Load(p)' <= 1 + faults'
  <2>1. PICK r \in Rows :
           /\ plans' = [plans EXCEPT ![q] = r]
           /\ plans[q] # None => \/ r.state = plans[q].state
                                 \/ plans[q].state = "pending" /\ r.state = "confirmed"
           /\ UNCHANGED <<policy, lock, call, game, faults>>
    BY <1>7, StoreStep
  <2>2. plans'[q] = r /\ \A s \in Plans : s # q => plans'[s] = plans[s]
    BY <1>t, <2>1 DEF TypeOK
  <2>3. Unsettled(p)' => Unsettled(p)
    BY <2>1, <2>2, NullAssumption DEF Unsettled, Settled
  <2>4. Arms(p)' = Arms(p) /\ Held(p)' = Held(p)
    BY <2>1 DEF Arms, Held
  <2>5. Open(p)' <= Open(p)
    BY <2>3, <2>4 DEF Open
  <2>6. QED BY <1>2, <2>1, <2>4, <2>5
<1>8. ASSUME NEW q \in Plans, ServeLate(q) PROVE Load(p)' <= 1 + faults'
  <2>1. UNCHANGED <<plans, lock, call, faults>>
    BY <1>8 DEF ServeLate
  <2>2. Arms(p)' = Arms(p) /\ Open(p)' = Open(p)
    BY <2>1 DEF Arms, Open, Held, Unsettled
  <2>3. \/ effects'[p] = effects[p] /\ late'[p] = late[p]
        \/ effects'[p] = effects[p] + 1 /\ late'[p] = late[p] - 1
    BY <1>8, <1>t DEF ServeLate, Effect, TypeOK
  <2>4. QED BY <1>n, <1>o, <2>1, <2>2, <2>3 DEF Load
<1>9. CASE UNCHANGED <<plans, lock, call, effects, late, faults>>
  <2>1. Arms(p)' = Arms(p) /\ Open(p)' = Open(p)
    BY <1>9 DEF Arms, Open, Held, Unsettled
  <2>2. QED BY <1>n, <1>o, <1>9, <2>1 DEF Load
<1>10. QED
  BY <1>1, <1>3, <1>4, <1>5, <1>6, <1>7, <1>8, <1>9 DEF Next, Proceed, Working, RowStep,
     SavePolicy, PlayerMoves, vars

(* A plan is carried out once, and once more at most for every transaction *)
(* that is lost (mutate: the account lock, the verdict in the transaction  *)
(* of its request, no second attempt without a conflict).                  *)
THEOREM Once == Spec => []OnceUnlessLost
<1>1. Init => OnceInv
  <2> SUFFICES ASSUME Init, NEW p \in Plans PROVE Load(p) <= 1 + faults
    BY DEF OnceInv
  <2>1. Arms(p) = {}
    BY DEF Init, Idle, Arms, Armed
  <2>2. Cardinality(Arms(p)) = 0
    BY <2>1, FS_EmptySet
  <2>3. Open(p) \in {0, 1}
    BY DEF Open
  <2>4. QED BY <2>2, <2>3 DEF Init, Load
<1>2. IInv /\ OnceInv => OnceUnlessLost
  <2> SUFFICES ASSUME IInv, OnceInv, NEW p \in Plans PROVE effects[p] <= 1 + faults
    BY DEF OnceUnlessLost
  <2>1. /\ effects[p] \in Nat /\ late[p] \in Nat /\ faults \in Nat
        /\ Cardinality(Arms(p)) \in Nat /\ Open(p) \in {0, 1}
    BY Natural DEF IInv
  <2>2. Load(p) <= 1 + faults
    BY DEF OnceInv
  <2>3. QED BY <2>1, <2>2 DEF Load
<1>3. IInv /\ OnceInv /\ [Next]_vars => OnceInv'
  BY OnceInductive
<1>4. QED BY <1>1, <1>2, <1>3, Inductive, PTL DEF Spec
=============================================================================
