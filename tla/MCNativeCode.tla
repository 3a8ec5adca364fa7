---------------------------- MODULE MCNativeCode ----------------------------
(* Small instances of NativeCode for TLC. *)
EXTENDS NativeCode, TLC

CONSTANTS t1, t2, s1, s2, none

TwoThreads == {t1, t2}
TwoSlots == {s1, s2}

(* Two units of code and a budget of two: s1 and s2 do not fit together. *)
Sizes == [s \in TwoSlots |-> IF s = s1 THEN 2 ELSE 1]
ThreadSymmetry == Permutations(TwoThreads)
=============================================================================
