---------------------------- MODULE SerialWorld ----------------------------
(* What a world promises its guests, whichever scheduler drives it: its      *)
(* machines act one at a time, each operation takes effect at once, only the *)
(* top machine of a task that is not paused acts, and machines fail from     *)
(* outside only with a host call, in a deadlock or after the root ended.     *)
(* Nothing is said of leases, reports or queues: Coordinator.tla has those,  *)
(* and implements this module.                                               *)
EXTENDS ProcOps

Performs(t) ==
    LET m == top[t]
    IN /\ t \notin paused
       /\ state[m] = "ready"
       /\ \E inUse \in BOOLEAN : Does(t, m, Ask(m), inUse)
       /\ Asked(m)

Retries(t) ==
    LET m == top[t]
    IN /\ t \notin paused
       /\ state[m] = "blocked"
       /\ BlockOver(m)
       /\ Does(t, m, request[m], FALSE)
       /\ UNCHANGED todo

(* The run of a held machine answers when that machine has stopped. *)
RunAnswers(t) ==
    /\ top[t] # t
    /\ Terminal(top[t])
    /\ top' = [top EXCEPT ![t] = t]
    /\ UNCHANGED <<state, request, box, paused, todo>>

HostAnswers(m) ==
    /\ state[m] = "waiting"
    /\ Answers(m)
    /\ UNCHANGED <<box, paused, top, todo>>

(* A task that could still act, or is about to. *)
CanMove(t) ==
    LET m == top[t]
    IN /\ t \notin paused
       /\ \/ state[m] \in {"ready", "waiting"}
          \/ state[m] = "blocked" /\ BlockOver(m)
          \/ m # t /\ Terminal(m)

(* Machines fail from outside in three cases only: their host calls fail,   *)
(* no task can move, or the root has ended and the world is being put away. *)
CallsFail(F) == \A m \in F : state[m] = "waiting"

Deadlock(F) ==
    /\ \A t \in Tasks : ~CanMove(t)
    /\ \A m \in F : \E t \in Tasks : m = top[t]

PutAway(F) == Terminal(Root) /\ F \subseteq Tasks

Fails(F) ==
    /\ F # {}
    /\ CallsFail(F) \/ Deadlock(F) \/ PutAway(F)
    /\ state' = [m \in Machines |-> IF m \in F THEN "faulted" ELSE state[m]]
    /\ UNCHANGED <<request, box, paused>>
    /\ \A m \in Machines : todo'[m] # todo[m] => todo'[m] = Tail(todo[m])
    /\ top' \in {top, [t \in Tasks |-> IF t \in F THEN t ELSE top[t]]}

SerialNext ==
    \/ \E t \in Tasks : Performs(t) \/ Retries(t) \/ RunAnswers(t)
    \/ \E m \in Machines : HostAnswers(m)
    \/ \E F \in SUBSET Machines : Fails(F)

SerialSpec == WorldInit /\ [][SerialNext]_worldVars
============================================================================
