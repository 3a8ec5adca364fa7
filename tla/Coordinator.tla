---------------------------- MODULE Coordinator ----------------------------
(* The parallel coordinator of one world (lm-proc/src/parallel.rs, with      *)
(* lm-vm/src/world/parallel.rs and advance_stack of world/run.rs).           *)
(*                                                                           *)
(* Workers execute leased machines and report where each stopped.  The       *)
(* coordinator takes the reports back, commits their operations in the       *)
(* order it received them, and leases machines out again.  An operation      *)
(* whose target is away, or in use, waits: the coordinator recalls the       *)
(* target and meanwhile commits only reports that change nothing, or that    *)
(* bring the target to rest.                                                 *)
(*                                                                           *)
(* The model starts with workers enabled, all machines at home and all procs *)
(* spawned.  Drive waits, snapshot watches and a scarce fuel pool are left   *)
(* out, so a lease ends at an operation, at the end of the guest or at a     *)
(* recall.  ProcOps.tla says which operations there are.                     *)
EXTENDS ProcOps, Functions

VARIABLES
    where,          \* [Tasks -> Place], who has the task's stack
    stop,           \* [Tasks -> Request], why its last lease ended
    idx,            \* [Tasks -> IndexedState], the index of the scheduler
    listed,         \* blocked tasks that a wake of their key still finds
    events,         \* scheduler events not consumed yet
    reports,        \* the report channel
    returned,       \* reports taken back and not committed
    continuations,  \* stacks that keep their slice
    recalled,       \* leases with recall_requested
    scoped_stops,   \* tasks no dispatch may take
    commit_quiescence,
    root_terminal,
    pc,             \* where the coordinator's loop stands
    cur,            \* the task whose stack is being advanced
    mode,           \* what an advanced stack that can execute does
    back            \* where the loop goes on afterwards

indexVars == <<idx, listed, events>>
queueVars == <<reports, returned, continuations, recalled>>
stopVars == <<scoped_stops, commit_quiescence, root_terminal>>
loopVars == <<pc, cur, mode, back>>
vars == <<worldVars, where, stop, indexVars, queueVars, stopVars, loopVars>>

Fresh == Req("fresh", Root)      \* quantum left
Spent == Req("spent", Root)      \* quantum used up
Recalled == Req("recalled", Root)

(* The stack is released, leased, reported back, retained, being advanced,  *)
(* or saved with its reply chain.                                           *)
Places == {"none", "out", "returned", "cont", "cur", "saved"}

Active == {t \in Tasks : where[t] = "out"}

(* A leased machine is not resident. *)
Away(m) == \E t \in Active : top[t] = m

(* A machine counts as in use only while a worker has it. *)
InUse_LeasedOnly(m) == Away(m)

(* MachineSlot.active > 0: some stack holds the machine. *)
InUse(m) == \E t \in Tasks : m \in {t, top[t]} /\ where[t] # "none"

(* The report names a request the guest paid for. *)
Counts(r) == r.op \notin {"fresh", "spent", "recalled", "end"}

(* can_commit_out_of_order *)
Quiet(t) == stop[t] = Recalled

TypeOK ==
    /\ WorldTypeOK
    /\ where \in [Tasks -> Places]
    /\ stop \in [Tasks -> Request \cup {Fresh, Spent, Recalled}]
    /\ idx \in [Tasks -> {"none", "queued", "running", "blocked", "waiting"}]
    /\ listed \subseteq Tasks
    /\ events \subseteq ({"send", "recv", "done", "ready", "removed"} \X Machines)
    /\ reports \in Seq(Tasks)
    /\ returned \in Seq(Tasks)
    /\ continuations \in Seq(Tasks)
    /\ recalled \subseteq Active
    /\ scoped_stops \subseteq Machines
    /\ {commit_quiescence, root_terminal} \subseteq BOOLEAN
    /\ pc \in {"top", "drain", "commit", "commit2", "decide", "dispatch", "idle",
               "advance", "finish", "inline", "park", "host", "settle", "returned", "invalid"}
    /\ cur \in Tasks

---------------------------------------------------------------------------
(* Task status and the scheduler index. *)

(* block_ready: a target that is away never ends a block. *)
block_ready(m) ==
    /\ request[m].op \in {"send", "done"} => ~Away(request[m].to)
    /\ BlockOver(m)

task_status(t) ==
    LET m == top[t]
    IN IF Away(t) THEN "none"
       ELSE IF Terminal(t) THEN "terminal"
       ELSE IF t \in paused \/ where[t] \notin {"none", "saved"} THEN "none"
       ELSE IF state[m] = "blocked" /\ ~block_ready(m) THEN "blocked"
       ELSE IF state[m] = "waiting" THEN "waiting"
       ELSE "ready"

index_status(t) ==
    LET s == task_status(t)
    IN IF s = "ready" THEN "queued" ELSE IF s = "terminal" THEN "none" ELSE s

WakeKey(t) ==
    LET m == top[t]
    IN <<request[m].op, IF request[m].op = "recv" THEN m ELSE request[m].to>>

(* consume_events, then the refresh of the given tasks.  A task that is     *)
(* blocked again under its old key is not listed again: block returns early *)
(* on an equal entry, after the wake took it out of the bucket.             *)
ConsumeEvents(tasks, dropped, keys) ==
    LET all == events \cup keys
        gone == dropped \cup {t \in Tasks : <<"removed", t>> \in all}
        woken == {t \in listed \ gone : WakeKey(t) \in all}
        fresh == tasks \cup woken \cup {t \in Tasks : <<"ready", t>> \in all}
        was(t) == IF t \in gone THEN "none" ELSE idx[t]
    IN /\ idx' = [t \in Tasks |-> IF t \in fresh THEN index_status(t) ELSE was(t)]
       /\ listed' = {t \in Tasks :
                       IF t \in fresh
                         THEN /\ task_status(t) = "blocked"
                              /\ was(t) = "blocked" => t \in listed \ woken
                         ELSE t \in listed \ gone}
       /\ events' = {}

(* The events an operation of m leaves. *)
Emits(m, r) ==
    events' = events \cup
        CASE r.op = "send" /\ box'[r.to] # box[r.to] -> {<<"recv", r.to>>}
          [] r.op = "recv" /\ box'[m] # box[m] -> {<<"send", m>>}
          [] r.op = "pause" /\ paused' # paused -> {<<"removed", r.to>>}
          [] r.op = "resume" /\ paused' # paused -> {<<"ready", r.to>>}
          [] OTHER -> {}

Operates(t, r) ==
    LET m == top[t]
    IN Does(t, m, r, InUse(r.to)) /\ Emits(m, r)

Init ==
    /\ WorldInit
    /\ where = [t \in Tasks |-> "none"]
    /\ stop = [t \in Tasks |-> Fresh]
    /\ idx = [t \in Tasks |-> "queued"]
    /\ listed = {} /\ events = {}
    /\ reports = <<>> /\ returned = <<>> /\ continuations = <<>>
    /\ recalled = {} /\ scoped_stops = {}
    /\ commit_quiescence = FALSE /\ root_terminal = FALSE
    /\ pc = "top" /\ cur = Root /\ mode = "none" /\ back = "top"

Without(s, i) == SubSeq(s, 1, i - 1) \o SubSeq(s, i + 1, Len(s))

Goto(l) == pc' = l /\ UNCHANGED <<cur, mode, back>>

(* The stack of cur is dealt with. *)
Release(l) == pc' = l /\ cur' = Root /\ mode' = "none" /\ back' = "top"

---------------------------------------------------------------------------
(* Workers and the host. *)

(* A worker executes its lease up to an operation or to a recall.  A report *)
(* that arrives elsewhere in the loop is seen by the next drain, so it may  *)
(* as well arrive there.                                                    *)
WorkerReports(t) ==
    /\ pc \in {"drain", "park"}
    /\ where[t] = "out"
    /\ t \notin Range(reports)
    /\ \/ stop' = [stop EXCEPT ![t] = Ask(top[t])] /\ Asked(top[t])
       \/ t \in recalled /\ stop' = [stop EXCEPT ![t] = Recalled] /\ UNCHANGED todo
    /\ reports' = Append(reports, t)
    /\ UNCHANGED <<state, request, box, paused, top, where, indexVars, returned, continuations, recalled,
                   stopVars, loopVars>>

(* install_host_completion: the call is answered, or its result does not    *)
(* fit and the machine faults.  Of some of these faults notify_task_state   *)
(* leaves the events.                                                       *)
InstallsCompletion(m) ==
    \/ Answers(m) /\ UNCHANGED events
    \/ /\ state' = [state EXCEPT ![m] = "faulted"]
       /\ events' \in {events, events \cup {<<"send", m>>, <<"done", m>>}}
       /\ UNCHANGED request

(* The index entry of a task whose call is over, or whose machine failed. *)
Refreshed(t) == IF state'[t] \in {"done", "faulted"} THEN "none" ELSE "queued"

(* poll_completions, which comes before the drain, or the completion that   *)
(* wait_host_completion returns; complete_completion refreshes the task.    *)
HostCompletes(t) ==
    /\ pc \in {"drain", "host"}
    /\ idx[t] = "waiting" /\ where[t] = "saved" /\ state[top[t]] = "waiting"
    /\ InstallsCompletion(top[t])
    /\ idx' = [idx EXCEPT ![t] = Refreshed(t)]
    /\ Goto(IF pc = "host" THEN "top" ELSE pc)
    /\ UNCHANGED <<box, paused, top, todo, where, stop, listed, queueVars, stopVars>>

(* A report or a completion wakes the coordinator. *)
Unparks ==
    /\ pc = "park"
    /\ reports # <<>> \/ \E t \in Tasks : idx[t] = "waiting"
    /\ Goto("top")
    /\ UNCHANGED <<worldVars, where, stop, indexVars, queueVars, stopVars>>

(* consume_events *)
LoopStarts ==
    /\ pc = "top"
    /\ ConsumeEvents({}, {}, {})
    /\ Goto("drain")
    /\ UNCHANGED <<worldVars, where, stop, queueVars, stopVars>>

(* A drain that leaves the recall flag of a lease behind. *)
drain_worker_reports_KeepsRecall ==
    /\ pc = "drain"
    /\ IF reports = <<>>
         THEN Goto("commit") /\ UNCHANGED <<where, reports, returned>>
         ELSE /\ reports' = Tail(reports)
              /\ returned' = Append(returned, Head(reports))
              /\ where' = [where EXCEPT ![Head(reports)] = "returned"]
              /\ UNCHANGED loopVars
    /\ UNCHANGED <<worldVars, stop, indexVars, continuations, recalled, stopVars>>

drain_worker_reports ==
    /\ pc = "drain"
    /\ IF reports = <<>>
         THEN Goto("commit") /\ UNCHANGED <<where, reports, returned, recalled>>
         ELSE LET t == Head(reports)
              IN /\ reports' = Tail(reports)
                 /\ returned' = Append(returned, t)
                 /\ where' = [where EXCEPT ![t] = "returned"]
                 /\ recalled' = recalled \ {t}
                 /\ UNCHANGED loopVars
    /\ UNCHANGED <<worldVars, stop, indexVars, continuations, stopVars>>

---------------------------------------------------------------------------
(* commit_ready_reports *)

Ready == [kind |-> "ready", key |-> Root]
Collection == [kind |-> "collection", key |-> Root]
Needs(kind, m) == [kind |-> kind, key |-> m]

(* policy_requirement: every ancestor has to be at home.  The holder of a   *)
(* held machine is below it on the same stack, hence at home.               *)
policy_requirement(m) == m # Root /\ Away(Root)

machine_requirement(m) == IF Away(m) THEN Needs("machine", m) ELSE Ready

machine_safepoint_requirement(m) == IF InUse(m) THEN Needs("safepoint", m) ELSE Ready

operation_needs_idle_target(op) == op \in {"run", "pause", "resume"}

(* What the operation itself asks of the machine it names. *)
perform_machine_requirement(m, r) ==
    IF r.op = "collect" THEN Collection
    ELSE IF r.op \notin {"send", "done", "run", "pause", "resume"} \/ r.to = m THEN Ready
    ELSE IF operation_needs_idle_target(r.op) THEN machine_safepoint_requirement(r.to)
    ELSE machine_requirement(r.to)

parallel_requirement(t) ==
    IF stop[t].op \in {"recalled", "end"} THEN Ready
    ELSE IF policy_requirement(top[t]) THEN Needs("machine", Root)
    ELSE perform_machine_requirement(top[t], stop[t])

IsNeed(q) == q.kind \in {"machine", "safepoint"}

Oldest == Head(returned)
OldestNeeds == parallel_requirement(Oldest)

(* The oldest report commits whatever it needs. *)
OldestReady_Always == TRUE

OldestReady ==
    \/ OldestNeeds = Ready
    \/ OldestNeeds = Collection /\ Active = {}

(* What the loop does for the front report before it picks one. *)
Prepare ==
    /\ commit_quiescence' =
         IF Active = {} THEN FALSE
         ELSE commit_quiescence \/ OldestNeeds = Collection
    /\ recalled' = recalled \cup
         CASE OldestNeeds = Collection -> Active
           [] IsNeed(OldestNeeds) -> {t \in Active : top[t] = OldestNeeds.key}
           [] OTHER -> {}

ScopedStops ==
    IF OldestNeeds.kind = "safepoint" THEN scoped_stops \cup {OldestNeeds.key}
    ELSE scoped_stops

(* park_retained_machine: the retained stacks that hold the needed machine. *)
Retained ==
    IF IsNeed(OldestNeeds) /\ ~Away(OldestNeeds.key)
      THEN {i \in DOMAIN continuations :
              OldestNeeds.key \in {continuations[i], top[continuations[i]]}}
      ELSE {}

(* The reports the loop may commit now. *)
Candidates ==
    IF OldestReady THEN {1}
    ELSE {i \in 2..Len(returned) :
            \/ Quiet(returned[i])
            \/ IsNeed(OldestNeeds) /\ top[returned[i]] = OldestNeeds.key}

First(i, S) == \A j \in S : i <= j

AfterCommits == IF pc = "commit" THEN "decide" ELSE "idle"

(* A continuation that is parked and retained. *)
CommitParks_Keeps ==
    /\ pc \in {"commit", "commit2"}
    /\ returned # <<>>
    /\ Prepare
    /\ scoped_stops' = ScopedStops
    /\ \E i \in Retained :
         /\ First(i, Retained)
         /\ cur' = continuations[i]
         /\ where' = [where EXCEPT ![continuations[i]] = "cur"]
    /\ mode' = "park" /\ back' = pc /\ pc' = "advance"
    /\ UNCHANGED <<worldVars, stop, indexVars, reports, returned, continuations,
                   root_terminal>>

CommitParks ==
    /\ pc \in {"commit", "commit2"}
    /\ returned # <<>>
    /\ Prepare
    /\ scoped_stops' = ScopedStops
    /\ \E i \in Retained :
         /\ First(i, Retained)
         /\ cur' = continuations[i]
         /\ continuations' = Without(continuations, i)
         /\ where' = [where EXCEPT ![continuations[i]] = "cur"]
    /\ mode' = "park" /\ back' = pc /\ pc' = "advance"
    /\ UNCHANGED <<worldVars, stop, indexVars, reports, returned, root_terminal>>

(* commit_parallel_report refuses a report whose target is away. *)
Refused(t) ==
    LET q == parallel_requirement(t)
    IN \/ IsNeed(q) /\ Away(q.key)
       \/ q = Collection /\ Active # {}

commit_parallel_report(t) ==
    IF Refused(t)
      THEN Goto("invalid") /\ UNCHANGED <<worldVars, where, stop, events, continuations>>
      ELSE /\ IF Quiet(t)
                THEN UNCHANGED <<worldVars, events>>
                ELSE Operates(t, stop[t]) /\ UNCHANGED todo
           /\ where' = [where EXCEPT ![t] = "cont"]
           /\ stop' = [stop EXCEPT ![t] = IF @ = Recalled THEN Spent ELSE Fresh]
           /\ continuations' = Append(continuations, t)
           /\ UNCHANGED loopVars

CommitReport ==
    /\ pc \in {"commit", "commit2"}
    /\ returned # <<>>
    /\ Retained = {} /\ ~root_terminal
    /\ Prepare
    /\ \E i \in Candidates :
         /\ First(i, Candidates)
         /\ returned' = Without(returned, i)
         /\ scoped_stops' = IF i = 1 THEN {} ELSE ScopedStops
         /\ commit_parallel_report(returned[i])
    /\ UNCHANGED <<idx, listed, reports, root_terminal>>

CommitsEnd ==
    /\ pc \in {"commit", "commit2"}
    /\ IF returned = <<>>
         THEN UNCHANGED <<scoped_stops, commit_quiescence, recalled>>
         ELSE /\ Retained = {} /\ (Candidates = {} \/ root_terminal)
              /\ Prepare
              /\ scoped_stops' = ScopedStops
    /\ Goto(AfterCommits)
    /\ UNCHANGED <<worldVars, where, stop, indexVars, reports, returned, continuations,
                   root_terminal>>

---------------------------------------------------------------------------
(* advance_stack: what happens to the stack of cur before its top machine   *)
(* executes again.  A released stack leaves nothing behind; a stack with a  *)
(* reply chain, and one that waits for the host, is saved.                  *)

Advancing == pc = "advance"
Top == top[cur]
Leaves == IF Top = cur THEN "none" ELSE "saved"

Rests(place) ==
    /\ where' = [where EXCEPT ![cur] = place]
    /\ pc' = "finish"
    /\ UNCHANGED <<cur, mode, back, worldVars, stop, indexVars, queueVars, stopVars>>

(* complete_blocked_machine *)
AdvanceCompletes ==
    /\ Advancing /\ state[Top] = "blocked" /\ block_ready(Top)
    /\ Operates(cur, request[Top])
    /\ UNCHANGED <<todo, where, stop, idx, listed, queueVars, stopVars, loopVars>>

AdvanceBlocks ==
    Advancing /\ state[Top] = "blocked" /\ ~block_ready(Top) /\ Rests(Leaves)

AdvanceWaits == Advancing /\ state[Top] = "waiting" /\ Rests("saved")

(* A machine that stopped inside another task's slice answers its holder,   *)
(* and note_terminal wakes whoever waits on it.                             *)
AdvanceAnswers ==
    /\ Advancing /\ Terminal(Top) /\ Top # cur
    /\ top' = [top EXCEPT ![cur] = cur]
    /\ events' = events \cup {<<"send", Top>>, <<"done", Top>>}
    /\ UNCHANGED <<state, request, box, paused, todo, where, stop, idx, listed,
                   queueVars, stopVars, loopVars>>

AdvanceEnds == Advancing /\ Terminal(Top) /\ Top = cur /\ Rests("none")

AdvanceYields ==
    /\ Advancing /\ state[Top] = "ready"
    /\ stop[cur] = Spent \/ mode = "park"
    /\ Rests(Leaves)

(* make_parallel_dispatch, or the inline loop of a serial slice *)
AdvanceExecutes ==
    /\ Advancing /\ state[Top] = "ready"
    /\ stop[cur] # Spent /\ mode # "park"
    /\ IF mode = "inline"
         THEN Goto("inline") /\ UNCHANGED where
         ELSE Release("dispatch") /\ where' = [where EXCEPT ![cur] = "out"]
    /\ UNCHANGED <<worldVars, stop, indexVars, queueVars, stopVars>>

(* drive_stack with every machine at home: the operation commits at once. *)
InlinePerforms ==
    /\ pc = "inline"
    /\ Operates(cur, Ask(Top))
    /\ Asked(Top)
    /\ Goto("advance")
    /\ UNCHANGED <<where, stop, idx, listed, queueVars, stopVars>>

InlineYields ==
    /\ pc = "inline"
    /\ stop' = [stop EXCEPT ![cur] = Spent]
    /\ Goto("advance")
    /\ UNCHANGED <<worldVars, where, indexVars, queueVars, stopVars>>

(* finish_slice *)
finish_slice ==
    /\ pc = "finish"
    /\ IF Terminal(cur)
         THEN ConsumeEvents({}, {cur}, {<<"send", cur>>, <<"done", cur>>})
         ELSE ConsumeEvents({cur}, {}, {})
    /\ root_terminal' = (root_terminal \/ (cur = Root /\ Terminal(Root)))
    /\ Release(back)
    /\ UNCHANGED <<worldVars, where, stop, queueVars, scoped_stops, commit_quiescence>>

---------------------------------------------------------------------------
(* The rest of the loop. *)

RootEnded == root_terminal \/ task_status(Root) = "terminal"

Queued == {t \in Tasks : idx[t] = "queued"}
WorkCount == Len(continuations) + Cardinality(Queued)
SerialTurn == Active = {} /\ WorkCount = 1

(* The coordinator waits for the leases without recalling them. *)
RootStops_NoRecall ==
    /\ pc = "decide"
    /\ RootEnded
    /\ root_terminal' = TRUE
    /\ Goto(IF Active = {} THEN "settle" ELSE "park")
    /\ UNCHANGED <<worldVars, where, stop, indexVars, queueVars, scoped_stops,
                   commit_quiescence>>

RootStops ==
    /\ pc = "decide"
    /\ RootEnded
    /\ root_terminal' = TRUE
    /\ recalled' = Active
    /\ Goto(IF Active = {} THEN "settle" ELSE "park")
    /\ UNCHANGED <<worldVars, where, stop, indexVars, reports, returned, continuations,
                   scoped_stops, commit_quiescence>>

Quiesces ==
    /\ pc = "decide"
    /\ ~RootEnded /\ commit_quiescence
    /\ recalled' = Active
    /\ Goto(IF Active = {} THEN "top" ELSE "park")
    /\ UNCHANGED <<worldVars, where, stop, indexVars, reports, returned, continuations,
                   stopVars>>

Dispatches ==
    /\ pc = "decide"
    /\ ~RootEnded /\ ~commit_quiescence /\ ~SerialTurn
    /\ Goto("dispatch")
    /\ UNCHANGED <<worldVars, where, stop, indexVars, queueVars, stopVars>>

(* The turn of run_one_serial_slice, or one turn of dispatch_ready_work. *)
TurnMode ==
    CASE pc = "decide" /\ ~RootEnded /\ ~commit_quiescence /\ SerialTurn -> "inline"
      [] pc = "dispatch" -> "dispatch"
      [] OTHER -> "none"

Takes(t) ==
    /\ cur' = t /\ mode' = TurnMode /\ pc' = "advance"
    /\ back' = IF TurnMode = "inline" THEN "top" ELSE "dispatch"
    /\ where' = [where EXCEPT ![t] = "cur"]

(* continue_parallel_slice, run_parallel_continuation_inline *)
Continues ==
    /\ TurnMode # "none"
    /\ continuations # <<>>
    /\ Takes(Head(continuations))
    /\ continuations' = Tail(continuations)
    /\ UNCHANGED <<worldVars, stop, indexVars, reports, returned, recalled, stopVars>>

(* The tasks the ready queue may give: dispatch passes over stopped ones,   *)
(* a serial slice does not.                                                 *)
Offered == IF TurnMode = "inline" THEN Queued ELSE Queued \ scoped_stops

(* begin_parallel_slice, drive_scheduler_slice.  The order of the ready     *)
(* queue is Scheduler.tla's matter.                                         *)
Begins(t) ==
    /\ TurnMode # "none"
    /\ continuations = <<>>
    /\ t \in Offered /\ task_status(t) = "ready"
    /\ Takes(t)
    /\ stop' = [stop EXCEPT ![t] = Fresh]
    /\ idx' = [idx EXCEPT ![t] = "running"]
    /\ IF state[t] = "blocked" /\ where[t] = "none"
         THEN Operates(t, request[t]) /\ UNCHANGED todo
         ELSE UNCHANGED <<worldVars, events>>
    /\ UNCHANGED <<listed, queueVars, stopVars>>

(* A queued task that is not ready any more is indexed anew. *)
Reindexes(t) ==
    /\ TurnMode # "none"
    /\ continuations = <<>>
    /\ t \in Queued /\ task_status(t) # "ready"
    /\ idx' = [idx EXCEPT ![t] = index_status(t)]
    /\ listed' = IF task_status(t) = "blocked" THEN listed \cup {t} ELSE listed
    /\ Goto(IF TurnMode = "inline" THEN "top" ELSE "dispatch")
    /\ UNCHANGED <<worldVars, where, stop, events, queueVars, stopVars>>

DispatchEnds ==
    /\ pc = "dispatch"
    /\ continuations = <<>>
    /\ \A t \in Queued : t \in scoped_stops /\ task_status(t) = "ready"
    /\ Goto("commit2")
    /\ UNCHANGED <<worldVars, where, stop, indexVars, queueVars, stopVars>>

(* After the dispatch.  The loop's two early rounds here, for an ended root *)
(* and for a quiescence, are not actions: both flags are settled by now, or *)
(* the model would deadlock.                                                *)
Idle == pc = "idle" /\ ~root_terminal

Parks ==
    /\ Idle /\ Active # {}
    /\ Goto("park")
    /\ UNCHANGED <<worldVars, where, stop, indexVars, queueVars, stopVars>>

AtRest == Idle /\ Active = {} /\ ~commit_quiescence

(* Every entry is taken to be up to date. *)
Stale_None == {}

(* reconcile_parallel_states: the tasks whose entry is out of date. *)
Stale == {t \in Tasks : idx[t] # "none" /\ idx[t] # index_status(t)}

reconcile_parallel_states ==
    /\ AtRest /\ Stale # {}
    /\ idx' = [t \in Tasks |-> IF t \in Stale THEN index_status(t) ELSE idx[t]]
    /\ listed' = {t \in listed \cup Stale : idx'[t] = "blocked"}
    /\ Goto("top")
    /\ UNCHANGED <<worldVars, where, stop, events, queueVars, stopVars>>

Indexed(s) == {t \in Tasks : idx[t] = s}

(* wait_host_completion: the host has a completion (HostCompletes). *)
WaitsForHost ==
    /\ AtRest /\ Stale = {} /\ Indexed("waiting") # {}
    /\ Goto("host")
    /\ UNCHANGED <<worldVars, where, stop, indexVars, queueVars, stopVars>>

(* fail_blocked_task or fail_waiting_task on each of the tasks, each        *)
(* refreshed.  No event is left.                                            *)
FailTasks(S) ==
    /\ state' = [m \in Machines |-> IF \E t \in S : top[t] = m THEN "faulted" ELSE state[m]]
    /\ idx' = [t \in Tasks |-> IF t \in S THEN Refreshed(t) ELSE idx[t]]
    /\ listed' = listed \ S
    /\ UNCHANGED <<request, box, paused, top, todo, where, stop, events, queueVars>>

(* fail_waiting: the host has none, and every call under way fails. *)
FailsWaiting ==
    /\ AtRest /\ Stale = {} /\ Indexed("waiting") # {}
    /\ FailTasks(Indexed("waiting"))
    /\ Goto("top")
    /\ UNCHANGED stopVars

(* fail_every_block, and the fault of a root that nothing will ever run. *)
DeclaresDeadlock ==
    /\ AtRest /\ Stale = {} /\ Indexed("waiting") = {}
    /\ IF Indexed("blocked") # {}
         THEN FailTasks(Indexed("blocked")) /\ UNCHANGED stopVars
         ELSE IF task_status(Root) = "terminal"
           THEN root_terminal' = TRUE /\ UNCHANGED <<worldVars, where, stop, indexVars,
                     queueVars, scoped_stops, commit_quiescence>>
           ELSE FailTasks({Root}) /\ UNCHANGED stopVars
    /\ Goto("top")

(* settle_after_root *)
SettleCommits ==
    /\ pc = "settle"
    /\ returned # <<>> /\ Quiet(Oldest)
    /\ commit_parallel_report(Oldest)
    /\ returned' = Tail(returned)
    /\ UNCHANGED <<idx, listed, reports, recalled, stopVars>>

(* discard_parallel_report_after_root *)
SettleDiscards ==
    /\ pc = "settle"
    /\ returned # <<>> /\ ~Quiet(Oldest)
    /\ state' = [state EXCEPT ![Oldest] = "faulted"]
    /\ top' = [top EXCEPT ![Oldest] = Oldest]
    /\ where' = [where EXCEPT ![Oldest] = "none"]
    /\ stop' = [stop EXCEPT ![Oldest] = Fresh]
    /\ returned' = Tail(returned)
    /\ cur' = Oldest /\ back' = "settle" /\ pc' = "finish"
    /\ UNCHANGED <<request, box, paused, todo, indexVars, reports, continuations,
                   recalled, stopVars, mode>>

(* park_retained_continuations *)
SettleParks ==
    /\ pc = "settle"
    /\ returned = <<>> /\ continuations # <<>>
    /\ cur' = Head(continuations)
    /\ where' = [where EXCEPT ![Head(continuations)] = "cur"]
    /\ continuations' = Tail(continuations)
    /\ mode' = "park" /\ back' = "settle" /\ pc' = "advance"
    /\ UNCHANGED <<worldVars, stop, indexVars, reports, returned, recalled, stopVars>>

Settled ==
    /\ pc = "settle"
    /\ returned = <<>> /\ continuations = <<>>
    /\ Goto("returned")
    /\ UNCHANGED <<worldVars, where, stop, indexVars, queueVars, stopVars>>

Returned == pc \in {"returned", "invalid"} /\ UNCHANGED vars

CoordinatorStep ==
    \/ LoopStarts \/ drain_worker_reports
    \/ CommitParks \/ CommitReport \/ CommitsEnd
    \/ AdvanceCompletes \/ AdvanceBlocks \/ AdvanceWaits \/ AdvanceAnswers
    \/ AdvanceEnds \/ AdvanceYields \/ AdvanceExecutes
    \/ InlinePerforms \/ InlineYields \/ finish_slice
    \/ RootStops \/ Quiesces \/ Dispatches \/ Continues \/ DispatchEnds
    \/ \E t \in Tasks : Begins(t) \/ Reindexes(t)
    \/ Parks \/ Unparks \/ reconcile_parallel_states
    \/ WaitsForHost \/ FailsWaiting \/ DeclaresDeadlock
    \/ SettleCommits \/ SettleDiscards \/ SettleParks \/ Settled

Next ==
    \/ CoordinatorStep
    \/ \E t \in Tasks : WorkerReports(t) \/ HostCompletes(t)
    \/ Returned

Spec == Init /\ [][Next]_vars

(* The coordinator thread keeps going.  A worker that is asked to come back *)
(* reports (WorkerPool.tla), and the host completes its calls, unless the   *)
(* coordinator waits for it and is told that there are none.  A machine     *)
(* that nobody recalls may compute for ever.  Reports and completions are   *)
(* taken in at a few places of the loop only, hence strong fairness.        *)
FairSpec ==
    /\ Spec
    /\ WF_vars(CoordinatorStep)
    /\ \A t \in Tasks :
         SF_vars(t \in recalled /\ WorkerReports(t)) /\ SF_vars(HostCompletes(t))

---------------------------------------------------------------------------
(* Properties. *)

(* Every stack is in one place: a report or a retained continuation is      *)
(* queued once, and the task it belongs to is nowhere else.  A second copy  *)
(* would let two workers execute one machine.                               *)
OnePlace ==
    /\ \A t \in Tasks :
         /\ (where[t] = "returned") <=> t \in Range(returned)
         /\ (where[t] = "cont") <=> t \in Range(continuations)
         /\ t \in Range(reports) => where[t] = "out"
    /\ IsInjective(returned) /\ IsInjective(continuations) /\ IsInjective(reports)

(* Proc.Pause takes effect at a safepoint: no worker, report or retained    *)
(* continuation holds a paused proc, so nothing of it commits later.        *)
PausedIsAtRest == \A t \in paused : where[t] = "none"

(* commit_parallel_report never finds the target of its operation away and  *)
(* refuses: "The coordinator recalls a leased destination before it commits *)
(* the transfer" (docs/language-spec.md 3734).                              *)
CommitsAccepted == pc # "invalid"

(* A proc that somebody pauses or resumes asks only for what needs no other *)
(* machine.                                                                 *)
PausesReceivers ==
    \A p \in Programs : \A m \in Machines : \A i \in DOMAIN p[m] :
        p[m][i].op \in {"pause", "resume"} =>
            \A j \in DOMAIN p[p[m][i].to] : p[p[m][i].to][j].op \in {"recv", "host"}

(* No commit is refused in programs that pause and resume only procs that   *)
(* need no other machine.  The report of a proc to be paused commits out of *)
(* turn, and nobody asks whether what it needs itself is at home: without   *)
(* the restriction CommitsAccepted is false.                                *)
NeverRefused == PausesReceivers => CommitsAccepted

(* A request is performed when its report commits, not when the worker made *)
(* it: until then the guest has still to ask for it.                        *)
Uncommitted(m) ==
    {t \in Tasks : top[t] = m /\ where[t] \in {"out", "returned"} /\ Counts(stop[t])}

Undone ==
    [m \in Machines |->
       IF Uncommitted(m) = {} THEN todo[m]
       ELSE <<stop[CHOOSE t \in Uncommitted(m) : TRUE]>> \o todo[m]]

Serial == INSTANCE SerialWorld WITH todo <- Undone

(* Whatever the workers do, the guests see a serial world: each machine's   *)
(* operations take effect once and in program order, a paused task and a    *)
(* machine below another on its stack do nothing, and the coordinator       *)
(* faults machines only with their host calls, when no task can move, or    *)
(* when the root has ended.                                                 *)
ImplementsSerialWorld == Serial!SerialSpec

(* Once the root has ended, run_parallel returns, although other machines   *)
(* would compute for ever: every lease is recalled and every report is      *)
(* settled.                                                                 *)
RootEndReturns == Terminal(Root) ~> pc = "returned"
============================================================================
