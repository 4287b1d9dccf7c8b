----------------------------- MODULE MCGameClient -----------------------------
(* Small instances of GameClient for TLC. *)
EXTENDS GameClient

CONSTANTS c1, c2

CallerPair == {c1, c2}
=============================================================================
