----------------------------- MODULE MCMutations -----------------------------
(* Small instances of Mutations for TLC. *)
EXTENDS Mutations

CONSTANTS c1, c2, p1

TwoCallers == {c1, c2}
OnePlan == {p1}
=============================================================================
