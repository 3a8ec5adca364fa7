---------------------------- MODULE ProcOps --------------------------------
(* The operations of procs.rs and machines.rs that one machine performs on   *)
(* others, as the driver loop applies them to a world at rest.               *)
(*                                                                           *)
(* A task is the root or a proc.  Its stack holds the task's own machine     *)
(* and, while that machine runs a machine it holds, the held one on top.     *)
(* Guests do not spawn procs or close mailboxes here: ProcWorld.tla has both.*)
EXTENDS Integers, Sequences, FiniteSets

CONSTANTS
    Procs,          \* the procs of the world
    Held,           \* the machines a task holds and runs on its own stack
    Holder,         \* [Held -> Tasks], whose handle on the machine it is
    MailboxLimit,   \* ResourceConfig.max_mailbox
    Programs        \* what the guests ask for: a set of values of todo

VARIABLES
    state,      \* [Machines -> State], MachineState without Empty and Asked
    request,    \* [Machines -> Request], the operation of a blocked machine
    box,        \* [Procs -> Seq(Machines)], who sent each queued message
    paused,     \* the procs that Proc.Pause stopped
    top,        \* [Tasks -> Machines], the machine on top of the task's stack
    todo        \* [Machines -> Seq(Request)], what the guest asks for, in order

worldVars == <<state, request, box, paused, top, todo>>

Root == 0
Tasks == {Root} \cup Procs
Machines == Tasks \cup Held

Terminal(m) == state[m] \in {"done", "faulted"}

Request == [op : {"send", "recv", "done", "pause", "resume", "run", "collect", "host", "end"},
            to : Machines]

Req(op, u) == [op |-> op, to |-> u]

(* What the guest of m may ask for.  A handle on a machine never leaves its *)
(* holder, so only the holder runs it; the other operations name procs.     *)
Allowed(m, r) ==
    /\ r.op # "end"
    /\ r.op = "recv" => m \in Procs
    /\ r.op = "run" => r.to \in Held /\ Holder[r.to] = m
    /\ r.op \in {"send", "done", "pause", "resume"} => r.to \in Procs

ASSUME WorldAssumption ==
    /\ Root \notin Procs
    /\ Held \cap Tasks = {}
    /\ Holder \in [Held -> Tasks]
    /\ MailboxLimit \in Nat
    /\ \A p \in Programs :
         /\ p \in [Machines -> Seq(Request)]
         /\ \A m \in Machines : \A i \in DOMAIN p[m] : Allowed(m, p[m][i])

WorldTypeOK ==
    /\ state \in [Machines -> {"ready", "blocked", "waiting", "done", "faulted"}]
    /\ request \in [Machines -> [op : {"none", "send", "recv", "done"}, to : Machines]]
    /\ box \in [Procs -> Seq(Machines)]
    /\ paused \subseteq Procs
    /\ top \in [Tasks -> Machines]
    /\ todo \in [Machines -> Seq(Request)]

WorldInit ==
    /\ state = [m \in Machines |-> "ready"]
    /\ request = [m \in Machines |-> Req("none", Root)]
    /\ box = [u \in Procs |-> <<>>]
    /\ paused = {}
    /\ top = [t \in Tasks |-> t]
    /\ todo \in Programs

---------------------------------------------------------------------------
(* One operation of machine m.  Each either answers, and m stays ready, or   *)
(* leaves m blocked with the request to be retried.  Mailboxes stay open,    *)
(* and only procs receive.                                                   *)

Blocks(m, r) ==
    /\ state' = [state EXCEPT ![m] = "blocked"]
    /\ request' = [request EXCEPT ![m] = r]

Answers(m) ==
    /\ state' = [state EXCEPT ![m] = "ready"]
    /\ request' = [request EXCEPT ![m] = Req("none", Root)]

(* A mailbox takes one more message. *)
HasRoom(u) == Len(box[u]) < MailboxLimit

proc_send(m, r) ==
    /\ r.op = "send"
    /\ IF Terminal(r.to)
         THEN Answers(m) /\ UNCHANGED box
         ELSE IF HasRoom(r.to)
                THEN Answers(m) /\ box' = [box EXCEPT ![r.to] = Append(@, m)]
                ELSE Blocks(m, r) /\ UNCHANGED box
    /\ UNCHANGED <<paused, top>>

proc_recv(m, r) ==
    /\ r.op = "recv"
    /\ IF box[m] # <<>>
         THEN Answers(m) /\ box' = [box EXCEPT ![m] = Tail(@)]
         ELSE Blocks(m, r) /\ UNCHANGED box
    /\ UNCHANGED <<paused, top>>

proc_done(m, r) ==
    /\ r.op = "done"
    /\ IF Terminal(r.to) THEN Answers(m) ELSE Blocks(m, r)
    /\ UNCHANGED <<box, paused, top>>

(* inUse is the holder's answer for a proc whose stack is in use. *)
proc_pause(m, r, inUse) ==
    /\ r.op = "pause"
    /\ Answers(m)
    /\ paused' = IF Terminal(r.to) \/ inUse THEN paused ELSE paused \cup {r.to}
    /\ UNCHANGED <<box, top>>

proc_resume(m, r, inUse) ==
    /\ r.op = "resume"
    /\ Answers(m)
    /\ paused' = IF Terminal(r.to) \/ inUse THEN paused ELSE paused \ {r.to}
    /\ UNCHANGED <<box, top>>

(* Vm.Run pushes the held machine; a terminal one answers at once. *)
vm_run(t, r) ==
    /\ r.op = "run"
    /\ top' = IF Terminal(r.to) THEN top ELSE [top EXCEPT ![t] = r.to]
    /\ UNCHANGED <<state, request, box, paused>>

(* A spawn at the reclamation threshold collects children that are gone. *)
collect(r) ==
    /\ r.op = "collect"
    /\ UNCHANGED <<state, request, box, paused, top>>

host_call(m, r) ==
    /\ r.op = "host"
    /\ state' = [state EXCEPT ![m] = "waiting"]
    /\ UNCHANGED <<request, box, paused, top>>

ends(m, r) ==
    /\ r.op = "end"
    /\ state' = [state EXCEPT ![m] = "done"]
    /\ UNCHANGED <<request, box, paused, top>>

Does(t, m, r, inUse) ==
    \/ proc_send(m, r) \/ proc_recv(m, r) \/ proc_done(m, r)
    \/ proc_pause(m, r, inUse) \/ proc_resume(m, r, inUse)
    \/ vm_run(t, r) \/ collect(r) \/ host_call(m, r) \/ ends(m, r)

(* The block of m is over: the request would answer now. *)
BlockOver(m) ==
    LET r == request[m]
    IN \/ r.op = "send" /\ (Terminal(r.to) \/ HasRoom(r.to))
       \/ r.op = "recv" /\ box[m] # <<>>
       \/ r.op = "done" /\ Terminal(r.to)

(* What the guest of m asks for next: a guest with nothing left to do ends. *)
Ask(m) == IF todo[m] = <<>> THEN Req("end", Root) ELSE Head(todo[m])

Asked(m) == todo' = [todo EXCEPT ![m] = IF @ = <<>> THEN @ ELSE Tail(@)]
============================================================================
