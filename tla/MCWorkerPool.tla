---------------------------- MODULE MCWorkerPool ----------------------------
(* A small instance of WorkerPool for TLC. *)
EXTENDS WorkerPool

CONSTANTS w1, w2, c1, none

TwoWorkers == {w1, w2}
OneWorld == {c1}
=============================================================================
