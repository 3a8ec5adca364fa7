--------------------------- MODULE MCExecutionFuel ---------------------------
(* Small instances of ExecutionFuel for TLC. *)
EXTENDS ExecutionFuel, TLC

CONSTANTS w1, w2, d

MCWorkers == {w1, w2}
MCSymmetry == Permutations(MCWorkers)
=============================================================================
