---------------------------- MODULE MCScheduler ----------------------------
(* Instances of the deterministic scheduler for TLC. *)
EXTENDS Scheduler

TwoProcs == {1, 2}

(* The second proc can only answer. *)
MixedBudget == [t \in {0, 1, 2} |-> IF t = 2 THEN 1 ELSE 2]

(* Room for a sender to block, a receiver to drain, and both again. *)
MailBudget == [t \in {0, 1, 2} |-> 3]

(* Two operations each: the procs may spawn one another. *)
TinyBudget == [t \in {0, 1, 2} |-> 2]
=============================================================================
