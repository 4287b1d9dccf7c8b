----------------------------- MODULE Mutations -----------------------------
(***************************************************************************)
(* Planned mutations of one account: AccountService.mutate with a plan     *)
(* (placegame/accounts/service.py), the plan store (policy/plans.py) and   *)
(* the versions of the policy (policy/store.py).                           *)
(*                                                                         *)
(* A call is one database transaction under the account lock, from its     *)
(* first read to its verdict: whatever happens in between, the plan keeps  *)
(* its committed state until Close.  The transaction ends early when the   *)
(* process dies (Die) or the database drops its connection (DropLock); in  *)
(* the second case the call does not notice before its next query.         *)
(*                                                                         *)
(* The account's state in the game is world, which every effect and every  *)
(* move of the player changes; a fingerprint is the state it was taken of. *)
(* The verifier of a call tells whether its effect has happened.  Calls    *)
(* without a plan leave nothing behind that a later call would look at.    *)
(***************************************************************************)
EXTENDS Integers, FiniteSets

CONSTANTS
  Callers,
  Plans,
  MaxVersion,  \* bound: policy versions
  MaxMoves,    \* bound: moves of the player
  MaxFaults,   \* bound: processes that die, connections that drop
  None

ASSUME MutationsAssumption ==
  /\ MaxVersion \in Nat \ {0} /\ MaxMoves \in Nat /\ MaxFaults \in Nat
  /\ None \notin Callers \cup Plans /\ IsFiniteSet(Callers)

VARIABLES
  plans,    \* committed action_plans rows
  policy,   \* policy_version, of game_accounts and of account_policies
  lock,     \* the account lock
  call,     \* the locals of mutate()
  world,    \* the account in the game
  late,     \* requests for a plan on the way whose callers have given up
  effects,  \* ghost: how often the game has done the work of a plan
  moves,
  faults

vars == <<plans, policy, lock, call, world, late, effects, moves, faults>>
game == <<world, late, effects, moves>>

Sends == 3  \* the first and two retries after a conflict
Settled == {"executed", "failed", "reconciliation_required"}
Rows == [state : {"pending", "confirmed"} \cup Settled, needs : BOOLEAN,
         version : 1..MaxVersion, seen : Nat, expired : BOOLEAN]
Verdicts == Settled \cup {None}
Calls == [at : {"idle", "checking", "ready", "sent", "worked", "conflict", "refused",
                "verifying", "closing"},
          plan : Plans \cup {None}, attempt : 1..Sends, verdict : Verdicts]

ASSUME NullAssumption == None \notin Rows \cup Settled

Idle == [at |-> "idle", plan |-> None, attempt |-> 1, verdict |-> None]

Init ==
  /\ plans = [p \in Plans |-> None]
  /\ policy = 1
  /\ lock = None
  /\ call = [c \in Callers |-> Idle]
  /\ world = 0
  /\ late = [p \in Plans |-> 0]
  /\ effects = [p \in Plans |-> 0]
  /\ moves = 0
  /\ faults = 0

-----------------------------------------------------------------------------
(* Plans and policies (create, confirm; save).                             *)

Store(p, r) ==
  /\ plans' = [plans EXCEPT ![p] = r]
  /\ UNCHANGED <<policy, lock, call, game, faults>>

Create(p, needs) ==
  /\ plans[p] = None
  /\ Store(p, [state |-> "pending", needs |-> needs, version |-> policy,
               seen |-> world, expired |-> FALSE])

(* Takes the lock of the plan's row, not that of the account.              *)
Confirm(p) ==
  /\ plans[p] # None
  /\ plans[p].state = "pending" /\ ~plans[p].expired
  /\ Store(p, [plans[p] EXCEPT !.state = "confirmed"])

Expire(p) ==
  /\ plans[p] # None /\ ~plans[p].expired
  /\ Store(p, [plans[p] EXCEPT !.expired = TRUE])

(* Slip: the policy is saved without the account lock. *)
SavePolicyUnlocked ==
  /\ policy < MaxVersion
  /\ policy' = policy + 1
  /\ UNCHANGED <<plans, lock, call, game, faults>>

SavePolicy ==
  /\ lock = None /\ policy < MaxVersion
  /\ policy' = policy + 1
  /\ UNCHANGED <<plans, lock, call, game, faults>>

-----------------------------------------------------------------------------
(* One call of mutate.                                                     *)

Local(c, r) ==
  /\ call' = [call EXCEPT ![c] = r]
  /\ UNCHANGED <<plans, policy, faults>>

Conclude(c, verdict) ==
  Local(c, [call[c] EXCEPT !.at = "closing", !.verdict = verdict])

Start(c, p) ==
  /\ call[c] = Idle /\ lock = None
  /\ plans[p] # None
  /\ lock' = c
  /\ Local(c, [Idle EXCEPT !.at = "checking", !.plan = p])
  /\ UNCHANGED game

(* Slip: the game's state is not compared with the fingerprint. *)
SendableByPlan(p) ==
  /\ plans[p].state \in {"pending", "confirmed"} /\ ~plans[p].expired
  /\ plans[p].needs => plans[p].state = "confirmed"
  /\ plans[p].version = policy

(* _check_plan, and the fingerprint resolved from the game.                *)
Sendable(p) ==
  /\ plans[p].state \in {"pending", "confirmed"} /\ ~plans[p].expired
  /\ plans[p].needs => plans[p].state = "confirmed"
  /\ plans[p].version = policy
  /\ plans[p].seen = world

CheckPlan(c) ==
  LET p == call[c].plan IN
  /\ call[c].at = "checking" /\ lock = c
  /\ IF Sendable(p) THEN Local(c, [call[c] EXCEPT !.at = "ready"])
     ELSE Conclude(c, IF plans[p].state \in Settled THEN None ELSE "failed")
  /\ UNCHANGED <<lock, game>>

(* The account may not be used, there is no session, no policy, no answer: *)
(* the plan stays, unless the game calls it a conflict.                    *)
CheckRaises(c) ==
  /\ call[c].at = "checking"
  /\ \/ Conclude(c, None)
     \/ plans[call[c].plan].state \notin Settled /\ Conclude(c, "failed")
  /\ UNCHANGED <<lock, game>>

Send(c) ==
  /\ call[c].at = "ready"
  /\ Local(c, [call[c] EXCEPT !.at = "sent"])
  /\ UNCHANGED <<lock, game>>

Effect(p) ==
  /\ world' = world + 1
  /\ effects' = [effects EXCEPT ![p] = @ + 1]
  /\ UNCHANGED moves

(* The game works, finds a conflict, or rejects the session.               *)
Serve(c) ==
  /\ call[c].at = "sent"
  /\ \/ Effect(call[c].plan) /\ Local(c, [call[c] EXCEPT !.at = "worked"])
     \/ /\ \E reply \in {"conflict", "refused"} : Local(c, [call[c] EXCEPT !.at = reply])
        /\ UNCHANGED <<world, effects, moves>>
  /\ UNCHANGED <<lock, late>>

ServeLate(p) ==
  /\ late[p] > 0
  /\ late' = [late EXCEPT ![p] = @ - 1]
  /\ Effect(p)
  /\ UNCHANGED <<plans, policy, lock, call, faults>>

Receive(c) ==
  /\ call[c].at = "worked"
  /\ Local(c, [call[c] EXCEPT !.at = "verifying"])
  /\ UNCHANGED <<lock, game>>

(* The state is refreshed and, if the caller wants it, the effect verified.*)
Verify(c) ==
  /\ call[c].at = "verifying"
  /\ \E v \in {"executed", "reconciliation_required"} : Conclude(c, v)
  /\ UNCHANGED <<lock, game>>

ReceiveRefusal(c) ==
  /\ call[c].at = "refused"
  /\ Conclude(c, "failed")
  /\ UNCHANGED <<lock, game>>

(* Slip: one attempt more. *)
LastLate(n) == n > Sends
Last(n) == n >= Sends

(* Slip: the attempts are not counted. *)
ReceiveConflictUncounted(c) ==
  /\ call[c].at = "conflict"
  /\ Local(c, [call[c] EXCEPT !.at = "checking"])
  /\ UNCHANGED <<lock, game>>

(* A conflict: nothing was done; everything is checked again, twice, once  *)
(* the state is refreshed.  A refresh that meets a conflict ends the call  *)
(* as the last attempt does; any other failure of it is taken for one of   *)
(* the request.                                                            *)
ReceiveConflict(c) ==
  LET n == call[c].attempt IN
  /\ call[c].at = "conflict"
  /\ \/ ~Last(n) /\ Local(c, [call[c] EXCEPT !.at = "checking", !.attempt = n + 1])
     \/ ~Last(n) /\ Conclude(c, "reconciliation_required")
     \/ Conclude(c, "failed")
  /\ UNCHANGED <<lock, game>>

(* Slips: the plan is left as it was, or given up. *)
AmbiguousForgotten(worked) == {None}
AmbiguousFailed(worked) == {"failed"}
(* No answer, or none that can be read: settled by a verifier that sees    *)
(* the effect.                                                             *)
Ambiguous(worked) ==
  {"reconciliation_required"} \cup IF worked THEN {"executed"} ELSE {}

(* A request that was given up may still arrive.                           *)
GiveUp(c) ==
  /\ late' = IF call[c].at = "sent" THEN [late EXCEPT ![call[c].plan] = @ + 1] ELSE late
  /\ UNCHANGED <<world, effects, moves>>

Timeout(c) ==
  /\ call[c].at \in {"sent", "worked", "conflict", "refused"}
  /\ \E v \in Ambiguous(call[c].at = "worked") : Conclude(c, v)
  /\ GiveUp(c)
  /\ UNCHANGED lock

(* The task is cancelled: everything is rolled back, unless it was waiting *)
(* for the game's answer or for what came after it.                        *)
Cancel(c) ==
  /\ \/ call[c].at \in {"checking", "ready", "conflict"} /\ Conclude(c, None)
     \/ /\ call[c].at \in {"sent", "worked", "conflict", "refused", "verifying"}
        /\ Conclude(c, "reconciliation_required")
  /\ GiveUp(c)
  /\ UNCHANGED lock

(* The verdict is committed, if the transaction still lives.               *)
Close(c) ==
  /\ call[c].at = "closing"
  /\ plans' = IF lock = c /\ call[c].verdict # None
              THEN [plans EXCEPT ![call[c].plan].state = call[c].verdict] ELSE plans
  /\ lock' = IF lock = c THEN None ELSE lock
  /\ call' = [call EXCEPT ![c] = Idle]
  /\ UNCHANGED <<policy, game, faults>>

-----------------------------------------------------------------------------
(* Faults, and the player.                                                 *)

Die(c) ==
  /\ call[c] # Idle /\ faults < MaxFaults
  /\ lock' = IF lock = c THEN None ELSE lock
  /\ call' = [call EXCEPT ![c] = Idle]
  /\ GiveUp(c)
  /\ faults' = faults + 1
  /\ UNCHANGED <<plans, policy>>

DropLock ==
  /\ lock # None /\ faults < MaxFaults
  /\ lock' = None
  /\ faults' = faults + 1
  /\ UNCHANGED <<plans, policy, call, game>>

PlayerMoves ==
  /\ moves < MaxMoves
  /\ moves' = moves + 1
  /\ world' = world + 1
  /\ UNCHANGED <<plans, policy, lock, call, late, effects, faults>>

-----------------------------------------------------------------------------
Proceed(c) ==
  \/ CheckPlan(c) \/ CheckRaises(c) \/ Send(c) \/ Serve(c) \/ Receive(c) \/ Verify(c)
  \/ ReceiveRefusal(c) \/ ReceiveConflict(c) \/ Timeout(c) \/ Close(c)

Next ==
  \/ \E c \in Callers : Proceed(c) \/ Cancel(c) \/ Die(c)
  \/ \E c \in Callers, p \in Plans : Start(c, p)
  \/ \E p \in Plans :
       Confirm(p) \/ Expire(p) \/ ServeLate(p) \/ \E needs \in BOOLEAN : Create(p, needs)
  \/ SavePolicy \/ DropLock \/ PlayerMoves

Spec == Init /\ [][Next]_vars

(* A call in progress goes on; nothing else need happen.                   *)
FairSpec == Spec /\ \A c \in Callers : WF_vars(Proceed(c))

-----------------------------------------------------------------------------
(* Properties. *)

(* Rows, calls and counters keep their types (ActionPlan of models.py and  *)
(* the locals of mutate).                                                  *)
TypeOK ==
  /\ plans \in [Plans -> {None} \cup Rows]
  /\ policy \in 1..MaxVersion
  /\ lock \in Callers \cup {None}
  /\ call \in [Callers -> Calls]
  /\ world \in Nat /\ moves \in 0..MaxMoves /\ faults \in 0..MaxFaults
  /\ late \in [Plans -> Nat] /\ effects \in [Plans -> Nat]

(* A plan is carried out once, whatever times out, is cancelled, replayed  *)
(* or called at the same time; only a transaction that is lost after its   *)
(* request can cost one more (mutate: the lock, the verdict in the same    *)
(* transaction, no second attempt without a conflict).                     *)
OnceUnlessLost == \A p \in Plans : effects[p] <= 1 + faults

(* The recorded verdict is true: what is executed was done, and what has   *)
(* failed was not done and will not be, as long as no transaction was lost *)
(* (mutate, finish).                                                       *)
VerdictHonest ==
  \A p \in Plans : plans[p] # None =>
    /\ plans[p].state = "executed" => effects[p] > 0
    /\ plans[p].state = "failed" /\ faults = 0 => effects[p] = 0 /\ late[p] = 0

(* Although a lost transaction leaves its plan executable, a replay does   *)
(* not get to its request when the effect was there at its check (the      *)
(* comparison of the fingerprint).                                         *)
ReplayFenced ==
  [][\A c \in Callers : call[c].at = "checking" /\ call'[c].at = "ready" =>
       effects[call[c].plan] = 0]_vars

(* A request leaves for a plan only under the policy it was made for,      *)
(* unless the call has lost its lock (save takes the account lock).        *)
SendWhileCurrent ==
  [][\A c \in Callers : call[c].at = "ready" /\ call'[c].at = "sent" /\ lock = c =>
       plans[call[c].plan].version = policy]_vars

(* A call ends, however often the game reports a conflict (mutate).        *)
CallEnds == \A c \in Callers : call[c] # Idle ~> call[c] = Idle
=============================================================================
