--------------------------- MODULE MCIdleExecution ---------------------------
(* Small instances of IdleExecution for TLC. *)
EXTENDS IdleExecution

CONSTANTS e1, e2, p1, v1

ExecutorPair == {e1, e2}
OneExecutor == {e1}
OnePlan == {p1}
OnePreviewer == {v1}

(* The game reports no ceiling, or a ceiling below the larger threshold.   *)
NoCapacity == {NoCeiling}
TwoCapacities == {NoCeiling, 1}

AnyCaller == {FALSE, TRUE}
=============================================================================
