------------------------------ MODULE Scheduler ------------------------------
(***************************************************************************)
(* The deterministic scheduler: the task index, and the loop that drains   *)
(* schedule events, polls the host, and runs one slice of the oldest ready *)
(* task (lm-proc: lib.rs).  The loop is one thread; the host is the only   *)
(* other actor.  Loops over a batch of events or over the waiters of one   *)
(* key take one step per element, in the order of the code.                *)
(*                                                                         *)
(* Tickets only have to tell the entries of one queue apart, so the u128   *)
(* counter runs modulo TicketSpace, which is above any queue length.       *)
(***************************************************************************)
EXTENDS ProcWorld, Sequences

CONSTANTS
    TicketSpace    \* bound: distinct tickets

ASSUME TicketSpacePositive == TicketSpace \in Nat \ {0}

VARIABLES
    pc,            \* where run_deterministic_loop is
    current,       \* the task whose slice runs or has just ended, else the root
    exit,          \* the SliceExit still to install for current
    ready,         \* the queue of (task, ticket)
    ready_ticket,
    tasks,         \* TaskIndex: the IndexedState of every task
    blocked,       \* WakeIndex: the waiters of every key
    waiting,       \* tasks registered for their host completion
    direct,        \* wake calls of finish_terminal still to make
    woken          \* the key wake() works on, with each waiter still to visit

indexVars == <<ready, ready_ticket, tasks, blocked, waiting>>
drainVars == <<direct, woken>>
loopVars == <<pc, current, exit>>
vars == <<worldVars, suspended, indexVars, drainVars, loopVars>>

(* IndexedState and SliceExit *)
None == <<"none", 0>>
Queued(ticket) == <<"queued", ticket>>
Running == <<"running", 0>>
Blocked(wake) == <<"blocked", wake>>
Waiting == <<"waiting", 0>>
Yielded == <<"yielded", 0>>

IsQueued(t) == tasks[t][1] = "queued"
IsBlocked(t) == tasks[t][1] = "blocked"

Init ==
    /\ WorldInit
    /\ pc = "poll" /\ current = Root /\ exit = None
    /\ ready = <<<<Root, 0>>>> /\ ready_ticket = 1 % TicketSpace
    /\ tasks = [t \in Tasks |-> IF t = Root THEN Queued(0) ELSE None]
    /\ blocked = [w \in WakeKeys |-> {}]
    /\ waiting = {}
    /\ direct = <<>> /\ woken = {}

------------------------------------------------------------------------------
(* The index operations. *)

(* remove_index *)
BlockedWithout(t) ==
    IF IsBlocked(t) THEN [blocked EXCEPT ![tasks[t][2]] = @ \ {t}] ELSE blocked
WaitingWithout(t) == IF tasks[t] = Waiting THEN waiting \ {t} ELSE waiting

(* An enqueue that gives every entry the same ticket. *)
Enqueue_SameTicket(t) ==
    IF IsQueued(t) THEN UNCHANGED indexVars
    ELSE /\ tasks' = [tasks EXCEPT ![t] = Queued(0)]
         /\ ready' = Append(ready, <<t, 0>>)
         /\ blocked' = BlockedWithout(t)
         /\ waiting' = WaitingWithout(t)
         /\ UNCHANGED ready_ticket

(* An enqueue at the front of the queue. *)
Enqueue_Front(t) ==
    IF IsQueued(t) THEN UNCHANGED indexVars
    ELSE /\ tasks' = [tasks EXCEPT ![t] = Queued(ready_ticket)]
         /\ ready' = <<<<t, ready_ticket>>>> \o ready
         /\ ready_ticket' = (ready_ticket + 1) % TicketSpace
         /\ blocked' = BlockedWithout(t)
         /\ waiting' = WaitingWithout(t)

Enqueue(t) ==
    IF IsQueued(t) THEN UNCHANGED indexVars
    ELSE /\ tasks' = [tasks EXCEPT ![t] = Queued(ready_ticket)]
         /\ ready' = Append(ready, <<t, ready_ticket>>)
         /\ ready_ticket' = (ready_ticket + 1) % TicketSpace
         /\ blocked' = BlockedWithout(t)
         /\ waiting' = WaitingWithout(t)

Block(t, wake) ==
    IF tasks[t] = Blocked(wake) THEN UNCHANGED indexVars
    ELSE /\ tasks' = [tasks EXCEPT ![t] = Blocked(wake)]
         /\ blocked' = [BlockedWithout(t) EXCEPT ![wake] = @ \cup {t}]
         /\ waiting' = WaitingWithout(t)
         /\ UNCHANGED <<ready, ready_ticket>>

Wait(t) ==
    IF tasks[t] = Waiting THEN UNCHANGED indexVars
    ELSE /\ tasks' = [tasks EXCEPT ![t] = Waiting]
         /\ waiting' = waiting \cup {t}
         /\ blocked' = BlockedWithout(t)
         /\ UNCHANGED <<ready, ready_ticket>>

DropTask(t) ==
    /\ tasks' = [tasks EXCEPT ![t] = None]
    /\ blocked' = BlockedWithout(t)
    /\ waiting' = WaitingWithout(t)
    /\ UNCHANGED <<ready, ready_ticket>>

(* refresh: index_status of the live status. *)
Refresh(t) ==
    \/ Status(t) = "ready" /\ Enqueue(t)
    \/ Status(t) = "blocked" /\ Block(t, BlockWakeKey(t, request[t]))
    \/ Status(t) = "waiting" /\ Wait(t)
    \/ Status(t) \in {"terminal", "dormant"} /\ DropTask(t)

------------------------------------------------------------------------------
(* consume_events, finish_terminal's wake calls first. *)

Least(set) == CHOOSE t \in set : \A u \in set : t <= u

(* Order of WakeKey *)
LeastKey(set) ==
    CHOOSE w \in set : \A v \in set : w[1] < v[1] \/ (w[1] = v[1] /\ w[2] <= v[2])

(* A wake that takes its waiters out and does not index them anew. *)
WakeOne_NoRefresh ==
    /\ pc = "drain"
    /\ \E v \in woken :
          /\ \A u \in woken : v.task <= u.task
          /\ woken' = woken \ {v}
    /\ UNCHANGED <<worldVars, suspended, indexVars, loopVars, direct>>

(* One waiter taken out by wake(). *)
WakeOne ==
    /\ pc = "drain"
    /\ \E v \in woken :
          /\ \A u \in woken : v.task <= u.task
          /\ woken' = woken \ {v}
          /\ IF tasks[v.task] = Blocked(v.wake) THEN Refresh(v.task) ELSE UNCHANGED indexVars
    /\ UNCHANGED <<worldVars, suspended, loopVars, direct>>

(* A wake that serves the first waiter only. *)
TakeWaiters_FirstOnly(wake) ==
    /\ woken' = {[wake |-> wake, task |-> t] :
                    t \in {u \in blocked[wake] : \A v \in blocked[wake] : u <= v}}
    /\ blocked' = [blocked EXCEPT ![wake] = {}]
    /\ UNCHANGED <<ready, ready_ticket, tasks, waiting>>

(* wake(): take the waiters of one key. *)
TakeWaiters(wake) ==
    /\ woken' = {[wake |-> wake, task |-> t] : t \in blocked[wake]}
    /\ blocked' = [blocked EXCEPT ![wake] = {}]
    /\ UNCHANGED <<ready, ready_ticket, tasks, waiting>>

DirectWake ==
    /\ pc = "drain" /\ woken = {} /\ direct # <<>>
    /\ TakeWaiters(Head(direct))
    /\ direct' = Tail(direct)
    /\ UNCHANGED <<worldVars, suspended, loopVars>>

PopRemoved ==
    /\ pc = "drain" /\ woken = {} /\ direct = <<>> /\ removed # {}
    /\ DropTask(Least(removed))
    /\ removed' = removed \ {Least(removed)}
    /\ UNCHANGED <<machineVars, mailboxVars, paused, procs, completed, wakes, readied>>
    /\ UNCHANGED <<suspended, drainVars, loopVars>>

PopWake ==
    /\ pc = "drain" /\ woken = {} /\ direct = <<>> /\ removed = {} /\ wakes # {}
    /\ TakeWaiters(LeastKey(wakes))
    /\ wakes' = wakes \ {LeastKey(wakes)}
    /\ UNCHANGED <<machineVars, mailboxVars, paused, procs, completed, removed, readied>>
    /\ UNCHANGED <<suspended, direct, loopVars>>

PopReady ==
    /\ pc = "drain" /\ woken = {} /\ direct = <<>> /\ removed = {} /\ wakes = {}
    /\ readied # {}
    /\ Refresh(Least(readied))
    /\ readied' = readied \ {Least(readied)}
    /\ UNCHANGED <<machineVars, mailboxVars, paused, procs, completed, removed, wakes>>
    /\ UNCHANGED <<suspended, drainVars, loopVars>>

Drained == woken = {} /\ direct = <<>> /\ removed = {} /\ wakes = {} /\ readied = {}

(* finish_slice for a slice that did not end its task. *)
FinishSlice ==
    /\ pc = "drain" /\ Drained
    /\ CASE exit = Yielded -> Enqueue(current)
         [] exit = Waiting -> Wait(current)
         [] exit[1] = "blocked" -> Block(current, exit[2])
         [] OTHER -> UNCHANGED indexVars
    /\ pc' = "poll" /\ exit' = None /\ current' = Root
    /\ UNCHANGED <<worldVars, suspended, drainVars>>

------------------------------------------------------------------------------
(* poll_completions and next_ready. *)

(* complete_completion for the completion of t: the task is queued, or, if *)
(* the reply faulted its machine, only dropped from the index.             *)
CompleteCompletion(t) ==
    /\ t \in waiting
    /\ \/ /\ InstallCompletion(t)
          /\ tasks' = [tasks EXCEPT ![t] = Queued(ready_ticket)]
          /\ ready' = Append(ready, <<t, ready_ticket>>)
          /\ ready_ticket' = (ready_ticket + 1) % TicketSpace
       \/ /\ InstallFails(t)
          /\ tasks' = [tasks EXCEPT ![t] = None]
          /\ UNCHANGED <<ready, ready_ticket>>
    /\ waiting' = waiting \ {t}
    /\ UNCHANGED blocked

PollCompletion ==
    /\ pc = "poll"
    /\ \E t \in Tasks : CompleteCompletion(t)
    /\ UNCHANGED <<suspended, drainVars, loopVars>>

(* No completion is ready, and the root has not ended. *)
PollNothing ==
    /\ pc = "poll" /\ waiting \cap completed = {}
    /\ pc' = IF Terminal(Root) THEN "returned" ELSE "pick"
    /\ UNCHANGED <<worldVars, suspended, indexVars, drainVars, current, exit>>

(* next_ready: one queue entry, stale, run, or indexed anew because its    *)
(* task is not ready any more.  A slice takes up a suspended stack.        *)
NextReady ==
    /\ pc = "pick" /\ ready # <<>>
    /\ ready' = Tail(ready)
    /\ LET t == Head(ready)[1]
           key == BlockWakeKey(t, request[t])
       IN \/ /\ tasks[t] # Queued(Head(ready)[2])
             /\ UNCHANGED <<tasks, blocked, waiting, suspended, pc, current>>
          \/ /\ tasks[t] = Queued(Head(ready)[2]) /\ Status(t) = "ready"
             /\ tasks' = [tasks EXCEPT ![t] = Running]
             /\ current' = t /\ pc' = "slice"
             /\ suspended' = suspended \ {t}
             /\ UNCHANGED <<blocked, waiting>>
          \/ /\ tasks[t] = Queued(Head(ready)[2]) /\ Status(t) # "ready"
             /\ tasks' = [tasks EXCEPT ![t] =
                            CASE Status(t) = "blocked" -> Blocked(key)
                              [] Status(t) = "waiting" -> Waiting
                              [] OTHER -> None]
             /\ blocked' = IF Status(t) = "blocked"
                           THEN [blocked EXCEPT ![key] = @ \cup {t}] ELSE blocked
             /\ waiting' = IF Status(t) = "waiting" THEN waiting \cup {t} ELSE waiting
             /\ UNCHANGED <<suspended, pc, current>>
    /\ UNCHANGED <<ready_ticket, worldVars, drainVars, exit>>

------------------------------------------------------------------------------
(* One slice of the current task. *)

(* The operation done, the task goes on, or its slice ends here. *)
SliceGoesOn ==
    IF state'[current] = "ready"
    THEN UNCHANGED <<pc, exit>>
    ELSE /\ pc' = "drain"
         /\ exit' = IF state'[current] = "waiting" THEN Waiting
                    ELSE Blocked(BlockWakeKey(current, request'[current]))

SliceOperation ==
    /\ pc = "slice"
    /\ Perform(current) \/ CompleteBlocked(current)
    /\ SliceGoesOn
    /\ suspended' = suspended \cup {t \in {current} : state'[t] = "waiting"}
    /\ UNCHANGED <<indexVars, drainVars, current>>

(* The quantum or a poll ends the slice. *)
SliceYields ==
    /\ pc = "slice" /\ state[current] = "ready"
    /\ pc' = "drain" /\ exit' = Yielded
    /\ UNCHANGED <<worldVars, suspended, indexVars, drainVars, current>>

(* finish_terminal: the task leaves the index before its events are read. *)
SliceEnds ==
    /\ pc = "slice"
    /\ Retire(current) /\ DropTask(current)
    /\ direct' = <<Send(current), Done(current)>>
    /\ pc' = "drain" /\ exit' = None /\ current' = Root
    /\ UNCHANGED <<woken, suspended>>

------------------------------------------------------------------------------
(* No task is ready. *)

HostWait ==
    /\ pc = "pick" /\ ready = <<>> /\ waiting # {}
    /\ \E t \in Tasks : CompleteCompletion(t)
    /\ pc' = "drain"
    /\ UNCHANGED <<suspended, drainVars, current, exit>>

(* fail_waiting: Host::wait has no completion and returns None. *)
FailWaiting ==
    /\ pc = "pick" /\ ready = <<>> /\ waiting # {}
    /\ waiting \cap completed = {}
    /\ FailTasks(waiting)
    /\ tasks' = [t \in Tasks |-> IF t \in waiting THEN None ELSE tasks[t]]
    /\ waiting' = {}
    /\ pc' = "drain"
    /\ UNCHANGED <<ready, ready_ticket, blocked, suspended, drainVars, current, exit>>

(* fail_every_block *)
FailEveryBlock ==
    /\ pc = "pick" /\ ready = <<>> /\ waiting = {}
    /\ LET stuck == {t \in Tasks : IsBlocked(t)}
       IN /\ stuck # {}
          /\ FailTasks(stuck)
          /\ tasks' = [t \in Tasks |-> IF t \in stuck THEN None ELSE tasks[t]]
          /\ blocked' = [w \in WakeKeys |-> blocked[w] \ stuck]
    /\ pc' = "drain"
    /\ UNCHANGED <<ready, ready_ticket, waiting, suspended, drainVars, current, exit>>

HostStep == HostCompletes /\ UNCHANGED <<suspended, indexVars, drainVars, loopVars>>

LoopStep ==
    \/ WakeOne \/ DirectWake \/ PopRemoved \/ PopWake \/ PopReady \/ FinishSlice
    \/ PollCompletion \/ PollNothing \/ NextReady
    \/ SliceOperation \/ SliceYields \/ SliceEnds
    \/ HostWait \/ FailWaiting \/ FailEveryBlock

(* run_deterministic has returned the root's outcome. *)
Returned == pc = "returned" /\ UNCHANGED vars

Next == LoopStep \/ HostStep \/ Returned

Spec == Init /\ [][Next]_vars

(* The loop is one thread that runs on, and a started host operation ends. *)
FairSpec == Spec /\ WF_vars(LoopStep) /\ WF_vars(HostStep)

------------------------------------------------------------------------------
(* Properties *)

Tickets == 0..(TicketSpace - 1)

WorldTypes ==
    /\ state \in [Tasks -> {"empty", "ready", "blocked", "waiting", "done", "faulted"}]
    /\ request \in [Tasks -> Requests \cup {NoRequest}]
    /\ queued \in [Tasks -> 0..MailboxLimit]
    /\ closed \in [Tasks -> BOOLEAN]
    /\ paused \in [Tasks -> BOOLEAN]
    /\ procs \subseteq Procs
    /\ completed \subseteq Tasks
    /\ budget \in [Tasks -> Nat]
    /\ removed \subseteq Tasks /\ wakes \subseteq WakeKeys /\ readied \subseteq Tasks

IndexTypes ==
    /\ ready \in Seq(Tasks \X Tickets)
    /\ ready_ticket \in Tickets
    /\ tasks \in [Tasks -> {None, Running, Waiting} \cup {Queued(k) : k \in Tickets}
                             \cup {Blocked(w) : w \in WakeKeys}]
    /\ blocked \in [WakeKeys -> SUBSET Tasks]
    /\ waiting \subseteq Tasks

LoopTypes ==
    /\ pc \in {"drain", "poll", "pick", "slice", "returned"}
    /\ current \in Tasks
    /\ exit \in {None, Yielded, Waiting} \cup {Blocked(w) : w \in WakeKeys}
    /\ direct \in Seq(WakeKeys)
    /\ woken \subseteq [wake: WakeKeys, task: Tasks]

(* Type correctness of the world, the task index and the loop; a mailbox   *)
(* never holds more than its limit, whoever refills it (proc_send).        *)
TypeOK == WorldTypes /\ IndexTypes /\ LoopTypes /\ suspended \subseteq Tasks

(* The ticket does its work: a queued task has exactly one entry of the    *)
(* ready queue that next_ready will accept, whatever stale entries of      *)
(* earlier stays a pause, a snapshot or a termination left in the queue.   *)
OneValidEntry ==
    \A t \in Tasks : IsQueued(t) =>
        Cardinality({i \in DOMAIN ready : ready[i] = <<t, tasks[t][2]>>}) = 1

(* No ready task is forgotten: whenever next_ready is about to choose,     *)
(* every machine that could run is in the ready queue, so no wake, resume, *)
(* close or termination was lost on the way through the event batch.  The  *)
(* exception is a machine that waits for one which fail_waiting or a reply *)
(* faulted: that leaves no event, or one that is read only after the       *)
(* choice.                                                                 *)
ReadyIsQueued ==
    pc = "pick" =>
        \A t \in Tasks : Status(t) = "ready" =>
            IsQueued(t) \/ (state[t] = "blocked" /\ state[request[t].to] = "faulted")

(* "Index one blocked task under every condition that can wake it": a task *)
(* the index calls blocked is among the waiters of its key, unless wake()  *)
(* holds it in its hand.                                                   *)
BlockedIsIndexed ==
    \A t \in Tasks : IsBlocked(t) =>
        t \in blocked[tasks[t][2]] \/ [wake |-> tasks[t][2], task |-> t] \in woken

(* A deadlock is real: fail_every_block faults the blocked machines only   *)
(* when none of them could go on.                                          *)
DeadlockIsReal ==
    (pc = "pick" /\ ready = <<>> /\ waiting = {}) =>
        \A t \in Tasks : Status(t) # "ready"

(* "A proc crash is a value for its holder": a machine that waits in done  *)
(* for a proc that has ended is answered, never faulted.                   *)
CrashIsValue ==
    [][\A t \in Tasks :
          (request[t].op = "done" /\ Terminal(request[t].to)) => state'[t] # "faulted"]_vars

(* FIFO order starves nobody: a queued task leaves the queue, however long *)
(* the others go on yielding, unless the run returns first.                *)
QueuedRuns == \A t \in Tasks : []<>(~IsQueued(t) \/ pc = "returned")

(* A machine that waits for a proc that ended in a slice is answered,      *)
(* unless its holder paused it, or it is not the root and the root ended   *)
(* first: done() needs no luck with the order of events, whatever the host *)
(* does to other procs, and no deadlock fault ends the wait.  (For a proc  *)
(* that the host faulted see CrashIsValue.)                                *)
DoneReturns ==
    \A t \in Tasks :
        (request[t].op = "done" /\ state[request[t].to] = "done")
            ~> ((request[t] = NoRequest /\ state[t] # "faulted")
                  \/ paused[t] \/ (t # Root /\ Terminal(Root)))
==============================================================================
