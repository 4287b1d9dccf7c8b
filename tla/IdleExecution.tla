---------------------------- MODULE IdleExecution ----------------------------
(***************************************************************************)
(* Idle preview and idle execution of ONE game account                     *)
(* (placegame/application/idle.py).  Every lock, plan and policy of the    *)
(* code is keyed by the account, so two accounts share nothing here.       *)
(*                                                                         *)
(* A preview reads the game's idle summary under the account lock, decides *)
(* to collect or to wait, and saves a plan in a transaction of its own.    *)
(* execute() holds the account's execution guard (a session advisory lock  *)
(* that never blocks), commits a claim with a lease, enters the account    *)
(* lock, re-reads the game, sends idle_collect at most once, leaves the    *)
(* lock, and writes the verdict in one more transaction.  A claim whose    *)
(* lease ran out may be recovered, which never sends.                      *)
(*                                                                         *)
(* Each action ends where the code awaits the database or the game: other  *)
(* callers, the clock, the player, a cancelled task, a dropped connection  *)
(* may come in between any two of them.  expires_at and                    *)
(* execution_lease_expires_at are kept as the time that is left.           *)
(***************************************************************************)
EXTENDS Integers

CONSTANTS
  Executors,      \* concurrent calls of IdleExecuteUseCase.execute
  Previewers,     \* concurrent calls of IdlePlanUseCase.preview
  Plans,          \* identities of the plan rows
  Thresholds,     \* idle thresholds an operator may configure
  Capacities,     \* capacities the game may report
  RecoveryFlags,  \* the values callers pass for recovery
  LeaseTicks,     \* life of an execution lease
  PlanTicks,      \* life of a plan (expires_at)
  MaxIdle,        \* bound: idle time past every threshold is the same
  MaxVersion,     \* bound: number of policy versions
  MaxFaults,      \* bound: cancelled calls, crashes, calls that raise
  MaxDrops,       \* bound: dropped database connections
  NoCeiling,      \* capacity_seconds is None
  None

ASSUME BoundsAssumption ==
  /\ LeaseTicks \in Nat /\ PlanTicks \in Nat
  /\ MaxIdle \in Nat /\ MaxVersion \in Nat \ {0}
  /\ MaxFaults \in Nat /\ MaxDrops \in Nat
  /\ RecoveryFlags \subseteq BOOLEAN
ASSUME ThresholdAssumption ==
  /\ Thresholds \subseteq 0..MaxIdle
  /\ Capacities \subseteq Nat \cup {NoCeiling}
  /\ NoCeiling \notin Nat
  /\ Thresholds # {} /\ Capacities # {}
ASSUME NoneAssumption ==
  /\ None \notin Executors \cup Plans \cup
       {"executed", "reconciled", "precondition_failed", "reconciliation_required"}
  /\ Plans \cap Previewers = {}
  /\ None \notin [version : 1..MaxVersion, threshold : Thresholds]

VARIABLES
  idle,      \* the game: seconds the account may collect
  capacity,  \* the game: capacity_seconds of the summary
  net,       \* the game: the idle_collect request of each plan
  policy,    \* account policy row: version and threshold
  plans,     \* action_plans rows
  guard,     \* holder of pg advisory lock seed 2
  lock,      \* holder of pg advisory xact lock seed 0
  ex,        \* local state of each execute() call
  drafts,    \* draft each preview() has decided and not saved yet
  faults,    \* number of calls that ended early
  drops,     \* number of connections that were dropped
  sent,      \* ghost: idle_collect requests sent for each plan
  paid       \* ghost: a collection happened since the plan's preview read

vars == <<idle, capacity, net, policy, plans, guard, lock, ex, drafts,
          faults, drops, sent, paid>>
game == <<idle, capacity, net>>
rows == <<policy, plans>>
ghosts == <<sent, paid>>
losses == <<faults, drops>>

Fresh == {"pending", "confirmed"}
Terminal == {"executed", "failed", "reconciliation_required"}
PlanStates == {"absent", "executing"} \cup Fresh \cup Terminal
Policies == [version : 1..MaxVersion, threshold : Thresholds]
Summaries == [seconds : 0..MaxIdle, capacity : Capacities]
Fingerprints == [capacity : Capacities, eligible : BOOLEAN]
PlanRows ==
  [state : PlanStates, fingerprint : Fingerprints \cup {None},
   version : 0..MaxVersion, ttl : 0..PlanTicks,
   owner : Executors \cup {None}, lease : 0..LeaseTicks]
Drafts == [fingerprint : Fingerprints, version : 1..MaxVersion, ttl : 0..PlanTicks]
Outcomes == {"precondition_failed", "executed", "reconciled", "reconciliation_required"}
Steps == {"out", "guarded", "claimed", "reading", "checking", "sending", "waiting",
          "recovering", "rereading", "leaving", "finishing"}
Calls ==
  [step : Steps, plan : Plans \cup {None}, policy : Policies \cup {None},
   before : Summaries \cup {None}, outcome : Outcomes \cup {None}]

NoCall == [step |-> "out", plan |-> None, policy |-> None, before |-> None, outcome |-> None]
NoPlan == [state |-> "absent", fingerprint |-> None, version |-> 0, ttl |-> 0,
           owner |-> None, lease |-> 0]

-----------------------------------------------------------------------------
(* IdlePlanner: the pure rules preview and execution share. *)

Summary == [seconds |-> idle, capacity |-> capacity]

Threshold(p, s) ==
  IF s.capacity = NoCeiling \/ p.threshold <= s.capacity
    THEN p.threshold
    ELSE s.capacity

Decision(s, p) == IF s.seconds >= Threshold(p, s) THEN "collect" ELSE "wait"

Fingerprint(s, p) == [capacity |-> s.capacity, eligible |-> Decision(s, p) = "collect"]

(* Slip: recovery trusts the decision alone, under whatever policy. *)
ProvenByDecision(c, s) == Decision(s, c.policy) = "wait"

Proven(c, s) == c.policy.version = plans[c.plan].version /\ Decision(s, c.policy) = "wait"

-----------------------------------------------------------------------------
Init ==
  /\ idle \in 0..MaxIdle
  /\ capacity \in Capacities
  /\ net = [p \in Plans |-> "none"]
  /\ policy \in [version : {1}, threshold : Thresholds]
  /\ plans = [p \in Plans |-> NoPlan]
  /\ guard = None
  /\ lock = None
  /\ ex = [e \in Executors |-> NoCall]
  /\ drafts = [v \in Previewers |-> None]
  /\ faults = 0
  /\ drops = 0
  /\ sent = [p \in Plans |-> 0]
  /\ paid = [x \in Plans \cup Previewers |-> FALSE]

(* IdlePlanUseCase.preview up to the end of its locked block: nothing else *)
(* of the account runs meanwhile, so the block is one step.  Only a        *)
(* "collect" decision leaves a draft behind.                               *)
Preview(v) ==
  /\ drafts[v] = None
  /\ lock = None
  /\ Decision(Summary, policy) = "collect"
  /\ drafts' = [drafts EXCEPT ![v] =
       [fingerprint |-> Fingerprint(Summary, policy), version |-> policy.version,
        ttl |-> PlanTicks]]
  /\ paid' = [paid EXCEPT ![v] = FALSE]
  /\ UNCHANGED <<game, rows, guard, lock, ex, losses, sent>>

(* IdlePreviewStore.save, after the account lock is gone. *)
SavePreview(v, p) ==
  /\ drafts[v] # None
  /\ plans[p].state = "absent"
  /\ plans' = [plans EXCEPT ![p] =
       [state |-> "pending", fingerprint |-> drafts[v].fingerprint,
        version |-> drafts[v].version, ttl |-> drafts[v].ttl,
        owner |-> None, lease |-> 0]]
  /\ drafts' = [drafts EXCEPT ![v] = None]
  /\ paid' = [paid EXCEPT ![p] = paid[v]]
  /\ UNCHANGED <<game, policy, guard, lock, ex, losses, sent>>

(* The preview is cancelled, or its save rolls back: plan and audit go together. *)
LosePreview(v) ==
  /\ drafts[v] # None
  /\ faults < MaxFaults
  /\ faults' = faults + 1
  /\ drafts' = [drafts EXCEPT ![v] = None]
  /\ UNCHANGED <<game, rows, guard, lock, ex, drops, ghosts>>

-----------------------------------------------------------------------------
(* execute().  The owner token of a claim is a new uuid; a call holds one  *)
(* claim, and is over before its executor claims again, so the executor    *)
(* stands for the token.                                                   *)

ReleaseGuard(e) == guard' = IF guard = e THEN None ELSE guard
ReleaseLock(e) == lock' = IF lock = e THEN None ELSE lock
Goto(e, step) == ex' = [ex EXCEPT ![e].step = step]
(* What was read inside the lock is not used after it. *)
Leave(e, outcome) ==
  ex' = [ex EXCEPT ![e] = [NoCall EXCEPT
          !.step = "leaving", !.plan = ex[e].plan, !.outcome = outcome]]

(* An exception or a cancellation unwinds every context manager. *)
Unwind(e) ==
  /\ ex' = [ex EXCEPT ![e] = NoCall]
  /\ ReleaseGuard(e)
  /\ ReleaseLock(e)

(* Slip: the result of pg_try_advisory_lock is not looked at. *)
HoldGuardUnchecked(e) ==
  /\ ex[e].step = "out"
  /\ guard' = e
  /\ Goto(e, "guarded")
  /\ UNCHANGED <<game, rows, lock, drafts, losses, ghosts>>

HoldGuard(e) ==
  /\ ex[e].step = "out"
  /\ guard = None
  /\ guard' = e
  /\ Goto(e, "guarded")
  /\ UNCHANGED <<game, rows, lock, drafts, losses, ghosts>>

(* Slip: an expired claim is handed out like a fresh plan. *)
CanClaimAgain(p) ==
  \/ plans[p].state \in Fresh /\ plans[p].ttl > 0
  \/ plans[p].state = "executing" /\ plans[p].lease = 0

CanClaim(p) == plans[p].state \in Fresh /\ plans[p].ttl > 0
CanRecover(p, recovery) ==
  plans[p].state = "executing" /\ plans[p].lease = 0 /\ recovery

(* expires_at is not read again once a plan is claimed, nor are the lease  *)
(* and the owner once it has its verdict: the model forgets them.          *)
ClaimFresh(e, p) ==
  /\ ex[e].step = "guarded"
  /\ CanClaim(p)
  /\ plans' = [plans EXCEPT ![p] =
       [@ EXCEPT !.state = "executing", !.owner = e, !.lease = LeaseTicks, !.ttl = 0]]
  /\ ex' = [ex EXCEPT ![e] = [@ EXCEPT !.step = "claimed", !.plan = p]]
  /\ UNCHANGED <<game, policy, guard, lock, drafts, losses, ghosts>>

(* Slip: recovery renews the lease but keeps the lost owner. *)
ClaimExpiredKeepingOwner(e, p, recovery) ==
  /\ ex[e].step = "guarded"
  /\ CanRecover(p, recovery)
  /\ plans' = [plans EXCEPT ![p] = [@ EXCEPT !.lease = LeaseTicks]]
  /\ ex' = [ex EXCEPT ![e] = [@ EXCEPT !.step = "recovering", !.plan = p]]
  /\ UNCHANGED <<game, policy, guard, lock, drafts, losses, ghosts>>

ClaimExpired(e, p, recovery) ==
  /\ ex[e].step = "guarded"
  /\ CanRecover(p, recovery)
  /\ plans' = [plans EXCEPT ![p] = [@ EXCEPT !.owner = e, !.lease = LeaseTicks]]
  /\ ex' = [ex EXCEPT ![e] = [@ EXCEPT !.step = "recovering", !.plan = p]]
  /\ UNCHANGED <<game, policy, guard, lock, drafts, losses, ghosts>>

(* PlanInProgress or PlanPreconditionFailed: the call ends. *)
RefuseClaim(e, p, recovery) ==
  /\ ex[e].step = "guarded"
  /\ ~CanClaim(p)
  /\ ~CanRecover(p, recovery)
  /\ Unwind(e)
  /\ UNCHANGED <<game, rows, drafts, losses, ghosts>>

(* AccountService.locked: waits for the account lock, then loads the policy. *)
EnterAccount(e) ==
  /\ ex[e].step \in {"claimed", "recovering"}
  /\ lock = None
  /\ lock' = e
  /\ ex' = [ex EXCEPT ![e] = [@ EXCEPT
       !.step = IF ex[e].step = "claimed" THEN "reading" ELSE "rereading",
       !.policy = policy]]
  /\ UNCHANGED <<game, rows, guard, drafts, losses, ghosts>>

ReadBefore(e) ==
  /\ ex[e].step = "reading"
  /\ ex' = [ex EXCEPT ![e] = [@ EXCEPT !.step = "checking", !.before = Summary]]
  /\ UNCHANGED <<game, rows, guard, lock, drafts, losses, ghosts>>

Owned(e) == plans[ex[e].plan].state = "executing" /\ plans[ex[e].plan].owner = e

StillValid(e) ==
  /\ Owned(e)
  /\ ex[e].policy.version = plans[ex[e].plan].version
  /\ Fingerprint(ex[e].before, ex[e].policy) = plans[ex[e].plan].fingerprint

CheckPlan(e) ==
  /\ ex[e].step = "checking"
  /\ IF StillValid(e) THEN Goto(e, "sending") ELSE Leave(e, "precondition_failed")
  /\ UNCHANGED <<game, rows, guard, lock, drafts, losses, ghosts>>

SendCollect(e) ==
  /\ ex[e].step = "sending"
  /\ net' = [net EXCEPT ![ex[e].plan] = "inflight"]
  /\ sent' = [sent EXCEPT ![ex[e].plan] = @ + 1]
  /\ Goto(e, "waiting")
  /\ UNCHANGED <<idle, capacity, rows, guard, lock, drafts, losses, paid>>

(* The response arrived and the second idle_summary was read. *)
ReadAfter(e) ==
  LET p == ex[e].plan IN
  /\ ex[e].step = "waiting"
  /\ net[p] \in {"collected", "refused"}
  /\ Leave(e, IF net[p] = "collected" /\ idle < ex[e].before.seconds
                THEN "executed" ELSE "reconciliation_required")
  /\ UNCHANGED <<game, rows, guard, lock, drafts, losses, ghosts>>

(* idle_collect or the summary after it raised; the request may be on its  *)
(* way still.  The state is read once more, and that read may raise too.   *)
CollectRaised(e) ==
  /\ ex[e].step = "waiting"
  /\ \/ Leave(e, "reconciliation_required")
     \/ Proven(ex[e], Summary) /\ Leave(e, "reconciled")
  /\ UNCHANGED <<game, rows, guard, lock, drafts, losses, ghosts>>

(* _recover: one read of the authoritative state, never a request. *)
Reread(e) ==
  /\ ex[e].step = "rereading"
  /\ Leave(e, IF Proven(ex[e], Summary) THEN "reconciled" ELSE "reconciliation_required")
  /\ UNCHANGED <<game, rows, guard, lock, drafts, losses, ghosts>>

(* The locked transaction commits; without its connection it cannot. *)
LeaveAccount(e) ==
  /\ ex[e].step = "leaving"
  /\ IF lock = e
       THEN lock' = None /\ Goto(e, "finishing") /\ UNCHANGED guard
       ELSE Unwind(e)
  /\ UNCHANGED <<game, rows, drafts, losses, ghosts>>

(* Slips: the outcome is stored as it is; an ambiguous outcome counts as a *)
(* failure.                                                                *)
VerdictUnmapped(outcome) == outcome
VerdictForgiving(outcome) ==
  IF outcome \in {"executed", "reconciled"} THEN "executed" ELSE "failed"

Verdict(outcome) ==
  CASE outcome = "precondition_failed" -> "failed"
    [] outcome \in {"executed", "reconciled"} -> "executed"
    [] OTHER -> "reconciliation_required"

(* claims.finish in its own transaction, then the guard is released. *)
Finish(e) ==
  /\ ex[e].step = "finishing"
  /\ IF Owned(e)
       THEN plans' = [plans EXCEPT ![ex[e].plan] =
              [@ EXCEPT !.state = Verdict(ex[e].outcome), !.owner = None, !.lease = 0]]
       ELSE UNCHANGED plans
  /\ Unwind(e)
  /\ UNCHANGED <<game, policy, drafts, losses, ghosts>>

(* The call ends early at any await: the process exits, the task is        *)
(* cancelled, or the account, the game or the database raises.             *)
Abandon(e) ==
  /\ ex[e].step # "out"
  /\ faults < MaxFaults
  /\ faults' = faults + 1
  /\ Unwind(e)
  /\ UNCHANGED <<game, rows, drafts, drops, ghosts>>

(* The database drops the connection that carries a lock; its holder does  *)
(* not notice before it uses the connection again.                         *)
DropGuard ==
  /\ guard # None
  /\ drops < MaxDrops
  /\ drops' = drops + 1
  /\ guard' = None
  /\ UNCHANGED <<game, rows, lock, ex, drafts, faults, ghosts>>

DropLock ==
  /\ lock # None
  /\ drops < MaxDrops
  /\ drops' = drops + 1
  /\ lock' = None
  /\ UNCHANGED <<game, rows, guard, ex, drafts, faults, ghosts>>

-----------------------------------------------------------------------------
(* The game, the player, the operator and the clock. *)

Collected ==
  /\ idle' = 0
  /\ paid' = [x \in Plans \cup Previewers |-> TRUE]

ServeCollect(p) ==
  /\ net[p] = "inflight"
  /\ \/ net' = [net EXCEPT ![p] = "collected"] /\ Collected
     \/ net' = [net EXCEPT ![p] = "refused"] /\ UNCHANGED <<idle, paid>>
  /\ UNCHANGED <<capacity, rows, guard, lock, ex, drafts, losses, sent>>

(* The player collects in the game's own client. *)
PlayerCollects ==
  /\ Collected
  /\ UNCHANGED <<capacity, net, rows, guard, lock, ex, drafts, losses, sent>>

CapacityChanges ==
  /\ capacity' \in Capacities
  /\ UNCHANGED <<idle, net, rows, guard, lock, ex, drafts, losses, ghosts>>

(* PostgresPolicyService.save takes the account lock and bumps the version. *)
SavePolicy(t) ==
  /\ lock = None
  /\ policy.version < MaxVersion
  /\ policy' = [version |-> policy.version + 1, threshold |-> t]
  /\ UNCHANGED <<game, plans, guard, lock, ex, drafts, losses, ghosts>>

Less(n) == IF n > 0 THEN n - 1 ELSE 0

Tick ==
  /\ idle' = IF idle < MaxIdle THEN idle + 1 ELSE idle
  /\ plans' = [p \in Plans |->
       [plans[p] EXCEPT !.ttl = Less(@), !.lease = Less(@)]]
  /\ drafts' = [v \in Previewers |->
       IF drafts[v] = None THEN None ELSE [drafts[v] EXCEPT !.ttl = Less(@)]]
  /\ UNCHANGED <<capacity, net, policy, guard, lock, ex, losses, ghosts>>

-----------------------------------------------------------------------------
Run(e) ==
  \/ EnterAccount(e) \/ ReadBefore(e) \/ CheckPlan(e) \/ SendCollect(e)
  \/ ReadAfter(e) \/ CollectRaised(e) \/ Reread(e) \/ LeaveAccount(e) \/ Finish(e)

Execute(e) ==
  \/ HoldGuard(e)
  \/ \E p \in Plans : ClaimFresh(e, p)
  \/ \E p \in Plans, recovery \in RecoveryFlags :
       ClaimExpired(e, p, recovery) \/ RefuseClaim(e, p, recovery)
  \/ Run(e)
  \/ Abandon(e)

Previewing(v) == Preview(v) \/ LosePreview(v) \/ \E p \in Plans : SavePreview(v, p)

Environment ==
  \/ DropGuard \/ DropLock
  \/ \E p \in Plans : ServeCollect(p)
  \/ PlayerCollects \/ CapacityChanges
  \/ \E t \in Thresholds : SavePolicy(t)
  \/ Tick

Next ==
  \/ \E e \in Executors : Execute(e)
  \/ \E v \in Previewers : Previewing(v)
  \/ Environment

Spec == Init /\ [][Next]_vars

-----------------------------------------------------------------------------
(* Properties. *)

(* The rows, locks and calls keep their types, and a row that is being     *)
(* executed names the call that claimed it.                                *)
TypeOK ==
  /\ idle \in 0..MaxIdle
  /\ capacity \in Capacities
  /\ net \in [Plans -> {"none", "inflight", "collected", "refused"}]
  /\ policy \in Policies
  /\ plans \in [Plans -> PlanRows]
  /\ guard \in Executors \cup {None}
  /\ lock \in Executors \cup {None}
  /\ ex \in [Executors -> Calls]
  /\ drafts \in [Previewers -> Drafts \cup {None}]
  /\ faults \in 0..MaxFaults
  /\ drops \in 0..MaxDrops
  /\ sent \in [Plans -> Nat]
  /\ paid \in [Plans \cup Previewers -> BOOLEAN]

(* However calls race, crash, lose their locks or recover each other's     *)
(* claims, idle_collect is sent at most once for a plan                    *)
(* (IdleExecutionClaims.claim and IdleExecuteUseCase.execute).             *)
AtMostOneSend == \A p \in Plans : sent[p] <= 1

(* A plan recorded as executed, by the call that sent or by a recovery     *)
(* that only looked, stands for a collection that really happened after    *)
(* its preview read the game (_send_once, _recover).                       *)
ExecutedMeansCollected == \A p \in Plans : plans[p].state = "executed" => paid[p]

(* A call that died before it sent leaves a plan that a recovery may       *)
(* record as executed only if the reward was collected by other means      *)
(* (_recover; test_pre_send_process_exit_recovery_requires_reconciliation  *)
(* _without_mutation).                                                     *)
UnsentMeansCollected ==
  \A p \in Plans : plans[p].state = "executed" /\ sent[p] = 0 => paid[p]

(* As long as the database drops no connection, idle_collect leaves only   *)
(* for a plan that is claimed by the sending call at that very moment, and *)
(* under the policy version the plan was made for (guard, lock, owned).    *)
SendWhileCurrent ==
  [][\A e \in Executors :
       (drops = 0 /\ ex[e].step = "sending" /\ ex'[e].step = "waiting") =>
         Owned(e) /\ plans[ex[e].plan].version = policy.version]_vars

(* The whole of it refines the contract of an idle plan: one claim, one    *)
(* request at most, one verdict that is final, never "failed" after a      *)
(* request and never "executed" without a collection.                      *)
Contract == INSTANCE IdlePlanContract WITH
  state <- [p \in Plans |-> plans[p].state],
  requests <- sent,
  rewarded <- [p \in Plans |-> paid[p]]
KeepsContract == Contract!Spec

(* With callers that ask for recovery, every claim ends in a verdict.      *)
ClaimResolves ==
  \A p \in Plans : plans[p].state = "executing" ~> plans[p].state \in Terminal

(* A call in progress goes on, the account lock is handed on fairly, time  *)
(* passes, and callers keep asking: one that may recover an expired claim  *)
(* is let in some day.                                                     *)
Fairness ==
  /\ \A e \in Executors :
       /\ WF_vars(Run(e)) /\ SF_vars(EnterAccount(e))
       /\ WF_vars(\E p \in Plans, r \in RecoveryFlags : RefuseClaim(e, p, r))
  /\ WF_vars(\E e \in Executors : HoldGuard(e))
  /\ \A p \in Plans :
       SF_vars(\E e \in Executors, r \in RecoveryFlags : ClaimExpired(e, p, r))
  /\ WF_vars(Tick)

FairSpec == Spec /\ Fairness
=============================================================================
