--------------------------- MODULE IdlePlanContract ---------------------------
(***************************************************************************)
(* What idle plans promise, without locks, leases, owners or calls.  A     *)
(* plan is offered, claimed once, requested at most once, and settled with *)
(* one verdict: "failed" only if nothing was ever requested for it,        *)
(* "executed" only if the reward it was offered for has been collected,    *)
(* and otherwise left to a human as "reconciliation_required".             *)
(***************************************************************************)
EXTENDS Naturals

CONSTANT Plans

VARIABLES
  state,     \* state of each plan
  requests,  \* idle_collect requests sent for each plan
  rewarded   \* the reward seen by the plan's preview was collected

vars == <<state, requests, rewarded>>

Verdicts == {"executed", "failed", "reconciliation_required"}

Init ==
  /\ state = [p \in Plans |-> "absent"]
  /\ requests = [p \in Plans |-> 0]
  /\ rewarded \in [Plans -> BOOLEAN]

Offer(p) ==
  /\ state[p] = "absent"
  /\ state' = [state EXCEPT ![p] = "pending"]
  /\ \E b \in BOOLEAN : rewarded' = [rewarded EXCEPT ![p] = b]
  /\ UNCHANGED requests

(* A plan waits with or without a confirmation.                            *)
Claim(p) ==
  /\ state[p] \in {"pending", "confirmed"}
  /\ state' = [state EXCEPT ![p] = "executing"]
  /\ UNCHANGED <<requests, rewarded>>

(* A sender that was overtaken by a recovery may still send its request.   *)
Request(p) ==
  /\ state[p] \in {"executing", "executed", "reconciliation_required"}
  /\ requests[p] = 0
  /\ requests' = [requests EXCEPT ![p] = 1]
  /\ UNCHANGED <<state, rewarded>>

(* Somebody collects: this account's service, or the player.               *)
Collect ==
  /\ rewarded' = [p \in Plans |-> TRUE]
  /\ UNCHANGED <<state, requests>>

Settle(p, verdict) ==
  /\ state[p] = "executing"
  /\ verdict = "executed" => rewarded[p]
  /\ verdict = "failed" => requests[p] = 0
  /\ state' = [state EXCEPT ![p] = verdict]
  /\ UNCHANGED <<requests, rewarded>>

Next ==
  \/ \E p \in Plans : Offer(p) \/ Claim(p) \/ Request(p)
  \/ \E p \in Plans, verdict \in Verdicts : Settle(p, verdict)
  \/ Collect

Spec == Init /\ [][Next]_vars
=============================================================================
