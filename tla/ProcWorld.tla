------------------------------ MODULE ProcWorld ------------------------------
(***************************************************************************)
(* The machines of one world as the scheduler sees them: which may run,    *)
(* what a blocked one waits for, and the schedule events every operation   *)
(* leaves behind (lm-vm: world/procs.rs, world/sched.rs, schedule.rs).     *)
(*                                                                         *)
(* A machine is its identifier; machine 0 is the root.  A machine slot is  *)
(* used once, so the generation half of a TaskKey is left out.  A mailbox  *)
(* is its length and its closed flag: no property here is about contents.  *)
(***************************************************************************)
EXTENDS Integers, FiniteSets

CONSTANTS
    Procs,         \* the machine identifiers a spawn may use
    MailboxLimit,  \* VmConfig::mailbox_limit
    Budget,        \* bound: operations each machine performs
    Ops            \* the operations the guest programs use

Root == 0
Tasks == {Root} \cup Procs

ASSUME ProcsPositive == Procs \subseteq Nat \ {0} /\ IsFiniteSet(Procs)
ASSUME LimitIsNat == MailboxLimit \in Nat
ASSUME BudgetIsNat == Budget \in [Tasks -> Nat]

VARIABLES
    state,      \* MachineState of every machine
    request,    \* the pending operation of a blocked machine
    queued,     \* length of every mailbox
    closed,     \* Mailbox::closed
    paused,     \* Machine::paused, with ownership at the holder
    procs,      \* ActiveProcs: the scheduler-owned machines
    completed,  \* machines whose host completion is ready to be taken
    suspended,  \* World::suspended: machines whose stack a host call keeps
    budget,     \* operations each machine may still perform
    removed,    \* ScheduleEvents::removed
    wakes,      \* ScheduleEvents::wakes
    readied     \* ScheduleEvents::ready

machineVars == <<state, request, budget>>
mailboxVars == <<queued, closed>>
eventVars == <<removed, wakes, readied>>
worldVars == <<state, request, queued, closed, paused, procs, completed, budget,
               removed, wakes, readied>>

(* WakeKey: its lane (in the order of the enum) and the machine it names. *)
Receive(t) == <<0, t>>
Send(t) == <<1, t>>
Done(t) == <<2, t>>
WakeKeys == (0..2) \X Tasks

Requests == [op: {"send", "close", "done", "spawn", "pause", "resume", "held",
                  "snapshot", "recv", "host"}, to: Tasks]
NoRequest == [op |-> "none", to |-> Root]

Spawned == {t \in Tasks : state[t] # "empty"}
Terminal(t) == state[t] \in {"done", "faulted"}
Accepts(u) == ~closed[u] /\ queued[u] < MailboxLimit

(* block_ready: the pending operation of t would not block again. *)
BlockReady(t) ==
    CASE request[t].op = "recv" -> queued[t] > 0 \/ closed[t]
      [] request[t].op = "send" -> Terminal(request[t].to) \/ closed[request[t].to]
                                     \/ Accepts(request[t].to)
      [] request[t].op = "done" -> Terminal(request[t].to)
      [] OTHER -> FALSE

(* block_wake_key, for machine t blocked on request r *)
BlockWakeKey(t, r) ==
    CASE r.op = "recv" -> Receive(t)
      [] r.op = "send" -> Send(r.to)
      [] OTHER -> Done(r.to)

(* task_status, without wait sets, gates and routed requests. *)
Status(t) ==
    IF Terminal(t) THEN "terminal"
    ELSE IF state[t] = "empty" \/ (t # Root /\ (t \notin procs \/ paused[t])) THEN "dormant"
    ELSE IF state[t] = "waiting" THEN "waiting"
    ELSE IF state[t] = "blocked" /\ ~BlockReady(t) THEN "blocked"
    ELSE "ready"

WorldInit ==
    /\ state = [t \in Tasks |-> IF t = Root THEN "ready" ELSE "empty"]
    /\ request = [t \in Tasks |-> NoRequest]
    /\ queued = [t \in Tasks |-> 0]
    /\ closed = [t \in Tasks |-> FALSE]
    /\ paused = [t \in Tasks |-> FALSE]
    /\ procs = {}
    /\ completed = {}
    /\ suspended = {}
    /\ budget = Budget
    /\ removed = {} /\ wakes = {} /\ readied = {}

------------------------------------------------------------------------------
(* The operations of proc_exec, performed by machine t, r.to being the     *)
(* machine its handle names.  A machine that is answered is ready again; a *)
(* machine that blocks keeps its request, and complete_blocked_machine     *)
(* performs it anew.                                                       *)

Answer(t) ==
    /\ state' = [state EXCEPT ![t] = "ready"]
    /\ request' = [request EXCEPT ![t] = NoRequest]

BlockMachine(t, r) ==
    /\ state' = [state EXCEPT ![t] = "blocked"]
    /\ request' = [request EXCEPT ![t] = r]

(* A send that forgets the mailbox limit. *)
ProcSend_Unbounded(t, r) ==
    /\ r.op = "send"
    /\ Answer(t)
    /\ IF Terminal(r.to) \/ closed[r.to]
       THEN UNCHANGED <<queued, wakes>>
       ELSE /\ queued' = [queued EXCEPT ![r.to] = @ + 1]
            /\ wakes' = wakes \cup {Receive(r.to)}
    /\ UNCHANGED <<closed, paused, procs, completed, removed, readied>>

ProcSend(t, r) ==
    /\ r.op = "send"
    /\ \/ /\ Terminal(r.to) \/ closed[r.to]
          /\ Answer(t)
          /\ UNCHANGED <<queued, wakes>>
       \/ /\ ~Terminal(r.to) /\ ~closed[r.to] /\ ~Accepts(r.to)
          /\ BlockMachine(t, r)
          /\ UNCHANGED <<queued, wakes>>
       \/ /\ ~Terminal(r.to) /\ Accepts(r.to)
          /\ Answer(t)
          /\ queued' = [queued EXCEPT ![r.to] = @ + 1]
          /\ wakes' = wakes \cup {Receive(r.to)}
    /\ UNCHANGED <<closed, paused, procs, completed, removed, readied>>

(* A close that wakes receivers only. *)
ProcClose_ReceiversOnly(t, r) ==
    /\ r.op = "close"
    /\ Answer(t)
    /\ IF Terminal(r.to)
       THEN UNCHANGED <<closed, wakes>>
       ELSE /\ closed' = [closed EXCEPT ![r.to] = TRUE]
            /\ wakes' = wakes \cup {Receive(r.to)}
    /\ UNCHANGED <<queued, paused, procs, completed, removed, readied>>

ProcClose(t, r) ==
    /\ r.op = "close"
    /\ Answer(t)
    /\ IF Terminal(r.to)
       THEN UNCHANGED <<closed, wakes>>
       ELSE /\ closed' = [closed EXCEPT ![r.to] = TRUE]
            /\ wakes' = wakes \cup {Receive(r.to), Send(r.to)}
    /\ UNCHANGED <<queued, paused, procs, completed, removed, readied>>

(* Only a scheduler-owned proc may receive: the root faults, and so has no *)
(* such step.                                                              *)
ProcRecv(t, r) ==
    /\ r.op = "recv" /\ t \in procs
    /\ \/ /\ queued[t] > 0
          /\ Answer(t)
          /\ queued' = [queued EXCEPT ![t] = @ - 1]
          /\ wakes' = wakes \cup {Send(t)}
       \/ /\ queued[t] = 0 /\ closed[t]
          /\ Answer(t)
          /\ UNCHANGED <<queued, wakes>>
       \/ /\ queued[t] = 0 /\ ~closed[t]
          /\ BlockMachine(t, r)
          /\ UNCHANGED <<queued, wakes>>
    /\ UNCHANGED <<closed, paused, procs, completed, removed, readied>>

ProcDone(t, r) ==
    /\ r.op = "done"
    /\ IF Terminal(r.to) THEN Answer(t) ELSE BlockMachine(t, r)
    /\ UNCHANGED <<queued, closed, paused, procs, completed, removed, wakes, readied>>

ProcSpawn(t, r) ==
    /\ r.op = "spawn" /\ state[r.to] = "empty"
    /\ state' = [state EXCEPT ![t] = "ready", ![r.to] = "ready"]
    /\ procs' = procs \cup {r.to}
    /\ readied' = readied \cup {r.to}
    /\ UNCHANGED <<request, queued, closed, paused, completed, removed, wakes>>

(* A machine in a host call keeps its activation and is in use, also after *)
(* the reply is installed, until its next slice takes up its stack.        *)
ProcPause(t, r) ==
    /\ r.op = "pause"
    /\ Answer(t)
    /\ IF Terminal(r.to) \/ paused[r.to] \/ r.to = t \/ r.to \in suspended
       THEN UNCHANGED <<paused, procs, removed>>
       ELSE /\ paused' = [paused EXCEPT ![r.to] = TRUE]
            /\ procs' = procs \ {r.to}
            /\ removed' = IF r.to \in procs THEN removed \cup {r.to} ELSE removed
    /\ UNCHANGED <<queued, closed, completed, wakes, readied>>

ProcResume(t, r) ==
    /\ r.op = "resume"
    /\ Answer(t)
    /\ IF Terminal(r.to) \/ ~paused[r.to]
       THEN UNCHANGED <<paused, procs, readied>>
       ELSE /\ paused' = [paused EXCEPT ![r.to] = FALSE]
            /\ procs' = procs \cup {r.to}
            /\ readied' = readied \cup {r.to}
    /\ UNCHANGED <<queued, closed, completed, removed, wakes>>

(* The holder of a paused machine runs it to its end inside its own slice: *)
(* advance_stack calls note_terminal.                                      *)
RunHeld(t, r) ==
    /\ r.op = "held" /\ paused[r.to] /\ state[r.to] = "ready"
    /\ state' = [state EXCEPT ![t] = "ready", ![r.to] = "done"]
    /\ wakes' = wakes \cup {Done(r.to), Send(r.to)}
    /\ UNCHANGED <<request, queued, closed, paused, procs, completed, removed, readied>>

(* run_cut and release_cut around a capture: the machines of the closed    *)
(* set are stopped and frozen, then thawed and resumed.  What the slice    *)
(* leaves is the events.  The set is closed over references this model     *)
(* does not have, so it is any set that holds the captured machine.        *)
Snapshot(t, r) ==
    /\ r.op = "snapshot"
    /\ Answer(t)
    /\ \E set \in SUBSET Spawned :
          LET scheduled == set \cap (procs \cup {Root})
          IN /\ r.to \in set
             /\ removed' = removed \cup scheduled
             /\ wakes' = wakes \cup {Send(u) : u \in set}
             /\ readied' = readied \cup scheduled
    /\ UNCHANGED <<queued, closed, paused, procs, completed>>

(* A host operation that does not complete at once.  The slice ends and    *)
(* suspends the machine's stack (Scheduler.SliceOperation).                *)
HostStart(t, r) ==
    /\ r.op = "host"
    /\ state' = [state EXCEPT ![t] = "waiting"]
    /\ UNCHANGED <<request, queued, closed, paused, procs, completed, removed, wakes, readied>>

ProcExec(t, r) ==
    \/ ProcSend(t, r) \/ ProcClose(t, r) \/ ProcRecv(t, r) \/ ProcDone(t, r)
    \/ ProcSpawn(t, r) \/ ProcPause(t, r) \/ ProcResume(t, r) \/ RunHeld(t, r)
    \/ Snapshot(t, r) \/ HostStart(t, r)

(* The handles t may hold: any spawned proc, itself only when the programs *)
(* pass a proc its own handle.                                             *)
Handles(t) == {u \in Spawned \ {Root} : u # t \/ "self" \in Ops}

Targets(t, op) ==
    CASE op \in {"recv", "host"} -> {t}
      [] op = "spawn" -> Procs \ Spawned
      [] OTHER -> Handles(t)

(* t performs its next operation. *)
Perform(t) ==
    /\ state[t] = "ready" /\ budget[t] > 0
    /\ \E op \in Ops \ {"self"} : \E u \in Targets(t, op) :
          ProcExec(t, [op |-> op, to |-> u])
    /\ budget' = [budget EXCEPT ![t] = @ - 1]

(* complete_blocked_machine *)
CompleteBlocked(t) ==
    /\ state[t] = "blocked"
    /\ ProcExec(t, request[t])
    /\ UNCHANGED budget

(* t returns or faults; retire_scheduler_task takes a proc off the active  *)
(* list.                                                                   *)
Retire(t) ==
    /\ state[t] = "ready"
    /\ state' = [state EXCEPT ![t] = "done"]
    /\ wakes' = wakes \cup {Done(t), Send(t)}
    /\ procs' = procs \ {t}
    /\ removed' = IF t \in procs THEN removed \cup {t} ELSE removed
    /\ UNCHANGED <<request, queued, closed, paused, completed, budget, readied>>

(* install_host_completion: the reply makes the machine ready, *)
InstallCompletion(t) ==
    /\ t \in completed /\ state[t] = "waiting"
    /\ state' = [state EXCEPT ![t] = "ready"]
    /\ completed' = completed \ {t}
    /\ readied' = readied \cup {t}
    /\ UNCHANGED <<request, queued, closed, paused, procs, budget, removed, wakes>>

(* or faults it.  A result that is an error, has another scope or type, or *)
(* does not fit the heap leaves no event; a value that cannot be pushed is *)
(* noticed by notify_task_state.  The machine stays among the procs.       *)
InstallFails(t) ==
    /\ t \in completed /\ state[t] = "waiting"
    /\ state' = [state EXCEPT ![t] = "faulted"]
    /\ completed' = completed \ {t}
    /\ wakes' \in {wakes, wakes \cup {Done(t), Send(t)}}
    /\ UNCHANGED <<request, queued, closed, paused, procs, budget, removed, readied>>

(* fail_blocked_task and fail_waiting_task: no event is left, and          *)
(* prune_host_completions forgets a completion nobody waits for.           *)
FailTasks(set) ==
    /\ state' = [t \in Tasks |-> IF t \in set THEN "faulted" ELSE state[t]]
    /\ request' = [t \in Tasks |-> IF t \in set THEN NoRequest ELSE request[t]]
    /\ completed' = completed \ set
    /\ UNCHANGED <<queued, closed, paused, procs, budget, removed, wakes, readied>>

(* The host finishes an operation of a waiting machine. *)
HostCompletes ==
    /\ \E t \in Tasks \ completed : state[t] = "waiting" /\ completed' = completed \cup {t}
    /\ UNCHANGED <<state, request, queued, closed, paused, procs, budget, removed, wakes, readied>>
==============================================================================
