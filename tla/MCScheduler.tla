----------------------------- MODULE MCScheduler -----------------------------
(* Small instances of Scheduler for TLC. *)
EXTENDS Scheduler

CONSTANTS a1, w1, w2

OneAccount == {a1}
OneWorker == {w1}
WorkerPair == {w1, w2}
=============================================================================
