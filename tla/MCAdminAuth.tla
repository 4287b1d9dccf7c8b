----------------------------- MODULE MCAdminAuth -----------------------------
(* Small instances of AdminAuth for TLC. *)
EXTENDS AdminAuth

CONSTANTS c1, c2, t1, t2

TwoCallers == {c1, c2}
TwoTokens == {t1, t2}
=============================================================================
