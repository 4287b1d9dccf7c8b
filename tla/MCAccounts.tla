----------------------------- MODULE MCAccounts -----------------------------
(* Small instances of Accounts for TLC. *)
EXTENDS Accounts, TLC

CONSTANTS a1, a2, i1, i2, u1, r1, r2

Pair == {a1, a2}
TwoIdentities == {i1, i2}
OneUsername == {u1}
TwoRequests == {r1, r2}
Symmetric == Permutations(Pair) \cup Permutations(TwoIdentities) \cup Permutations(TwoRequests)

Typed == {"operator"}
TypedMark == {"removed"}
=============================================================================
