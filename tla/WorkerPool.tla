----------------------------- MODULE WorkerPool -----------------------------
(***************************************************************************)
(* The bounded worker pool (lm-proc/src/pool.rs) with the part of the      *)
(* parallel coordinator that talks to it (lm-proc/src/parallel.rs).        *)
(* Several coordinators may share one pool.  A coordinator dispatches      *)
(* leases as jobs, recalls them, and parks until a wake marker arrives.    *)
(* Workers take jobs from one FIFO queue, rotate them, and report.         *)
(*                                                                         *)
(* One action is one critical section of the pool's mutex, one send on a   *)
(* report channel, or one notification.  What a lease computes is left     *)
(* out: a turn ends with Continue, with a report, or with a panic.  A      *)
(* report channel is a set, so events may be received in any order.        *)
(***************************************************************************)
EXTENDS Integers, Sequences, FiniteSets

CONSTANTS
  Workers,       \* worker indices
  Coordinators,  \* the worlds that share the pool
  MaxJobs,       \* bound: jobs dispatched in one behaviour
  NoJob          \* the absence of a job (None)

ASSUME WorkersFinite == IsFiniteSet(Workers)
ASSUME MaxJobsIsNat  == MaxJobs \in Nat
ASSUME NoJobIsOther  == NoJob \notin Nat

VARIABLES
  queue, running, live, recalls, next_job, shutdown,  \* PoolState
  yield,     \* jobs whose ExecutionControl has its yield flag set
  wpc,       \* where each worker thread is
  held,      \* worker_loop's local `job`
  stranded,  \* jobs mark_worker_failed took out of the queue
  cpc,       \* where each coordinator is
  active,    \* ParallelCoordinator::active
  asked,     \* the active jobs with recall_requested set
  drawn,     \* jobs `recall` took out of the queue and has not reported
  terminal,  \* ParallelCoordinator::root_terminal
  inbox,     \* events sent to a coordinator and not received
  marker,    \* the coordinator's wake channel is not empty
  reported,  \* jobs for which an event was sent
  joining    \* PoolInner::drop: "no", "locked", "notified", "joined"

poolVars == <<queue, running, live, recalls, next_job, shutdown, yield>>
workVars == <<wpc, held, stranded>>
coordVars == <<cpc, active, asked, drawn, terminal>>
chanVars == <<inbox, marker, reported>>
vars == <<poolVars, workVars, coordVars, chanVars, joining>>

Jobs == 1..MaxJobs
Issued == 1..(next_job - 1)
Queued == {queue[i] : i \in DOMAIN queue}
(* Mutant: the idle workers' entries are not filtered out. *)
Running_NotFlattened == {running[w] : w \in Workers}

Running == {running[w] : w \in Workers} \ {NoJob}
AnyLive(l) == \E w \in Workers : l[w]

Init ==
  /\ queue = <<>>
  /\ running = [w \in Workers |-> NoJob]
  /\ live = [w \in Workers |-> TRUE]
  /\ recalls = {}
  /\ next_job = 1
  /\ shutdown = FALSE
  /\ yield = {}
  /\ wpc = [w \in Workers |-> "take"]
  /\ held = [w \in Workers |-> NoJob]
  /\ stranded = [w \in Workers |-> {}]
  /\ cpc = [c \in Coordinators |-> "loop"]
  /\ active = [c \in Coordinators |-> {}]
  /\ asked = [c \in Coordinators |-> {}]
  /\ drawn = [c \in Coordinators |-> {}]
  /\ terminal = [c \in Coordinators |-> FALSE]
  /\ inbox = [c \in Coordinators |-> {}]
  /\ marker = [c \in Coordinators |-> FALSE]
  /\ reported = {}
  /\ joining = "no"

(***************************************************************************)
(* Sending.  An event goes to the coordinator that dispatched the job; a   *)
(* coordinator that is gone has dropped its receiver.                      *)
(***************************************************************************)
Event(j, kind) == [job |-> j, kind |-> kind]

Send(S, kind) ==
  /\ inbox' = [c \in Coordinators |->
                 inbox[c] \cup {Event(j, kind) : j \in S \cap active[c]}]
  /\ reported' = reported \cup S

(* wake_all: a registered notifier puts one marker on its channel. *)
WakeAll == marker' = [c \in Coordinators |-> cpc[c] # "gone"]

WorkerAt(w, from, to) ==
  /\ wpc[w] = from
  /\ wpc' = [wpc EXCEPT ![w] = to]

(* Condvar::notify_all *)
AllAwake == [w \in Workers |-> IF wpc[w] = "asleep" THEN "take" ELSE wpc[w]]

(***************************************************************************)
(* take_job, from acquiring the lock to returning or waiting.  The yield   *)
(* flag of the job taken says whether another job is waiting.              *)
(***************************************************************************)
FlagFor(j, rest) == IF rest = <<>> THEN yield \ {j} ELSE yield \cup {j}

TakeJob(w) ==
  /\ WorkerAt(w, "take", "turn")
  /\ ~shutdown
  /\ queue # <<>>
  /\ queue' = Tail(queue)
  /\ yield' = FlagFor(Head(queue), Tail(queue))
  /\ running' = [running EXCEPT ![w] = Head(queue)]
  /\ held' = [held EXCEPT ![w] = Head(queue)]
  /\ UNCHANGED <<live, recalls, next_job, shutdown, stranded, coordVars,
                 chanVars, joining>>

TakeJobShutdown(w) ==
  /\ WorkerAt(w, "take", "exited")
  /\ shutdown
  /\ running' = [running EXCEPT ![w] = NoJob]
  /\ UNCHANGED <<queue, live, recalls, next_job, shutdown, yield, held,
                 stranded, coordVars, chanVars, joining>>

TakeJobWait(w) ==
  /\ WorkerAt(w, "take", "asleep")
  /\ ~shutdown
  /\ queue = <<>>
  /\ running' = [running EXCEPT ![w] = NoJob]
  /\ UNCHANGED <<queue, live, recalls, next_job, shutdown, yield, held,
                 stranded, coordVars, chanVars, joining>>

(* A condition variable may wake a waiter that nobody notified. *)
SpuriousWake(w) ==
  /\ WorkerAt(w, "asleep", "take")
  /\ UNCHANGED <<poolVars, held, stranded, coordVars, chanVars, joining>>

(***************************************************************************)
(* worker_loop: the turn ends with ExecutionTurn::Continue.  A recalled    *)
(* job (or any job once the pool shuts down) goes back; otherwise it       *)
(* changes places with the head of the queue, or simply goes on.           *)
(***************************************************************************)
ContinueRecalled(w) ==
  /\ WorkerAt(w, "turn", "report")
  /\ shutdown \/ held[w] \in recalls
  /\ recalls' = IF shutdown THEN recalls ELSE recalls \ {held[w]}
  /\ running' = [running EXCEPT ![w] = NoJob]
  /\ UNCHANGED <<queue, live, next_job, shutdown, yield, held, stranded,
                 coordVars, chanVars, joining>>

(* Mutant: the worker goes on with its own job although another one waits. *)
ContinueRotate_KeepsOwn(w) ==
  /\ wpc[w] = "turn"
  /\ ~(shutdown \/ held[w] \in recalls)
  /\ queue # <<>>
  /\ yield' = yield \ {held[w]}
  /\ UNCHANGED <<queue, running, live, recalls, next_job, shutdown, workVars,
                 coordVars, chanVars, joining>>

ContinueRotate(w) ==
  /\ wpc[w] = "turn"
  /\ ~(shutdown \/ held[w] \in recalls)
  /\ queue # <<>>
  /\ queue' = Append(Tail(queue), held[w])
  /\ yield' = FlagFor(Head(queue), queue')
  /\ running' = [running EXCEPT ![w] = Head(queue)]
  /\ held' = [held EXCEPT ![w] = Head(queue)]
  /\ UNCHANGED <<live, recalls, next_job, shutdown, wpc, stranded, coordVars,
                 chanVars, joining>>

ContinueLocal(w) ==
  /\ wpc[w] = "turn"
  /\ ~(shutdown \/ held[w] \in recalls)
  /\ queue = <<>>
  /\ yield' = yield \ {held[w]}
  /\ UNCHANGED <<queue, running, live, recalls, next_job, shutdown, workVars,
                 coordVars, chanVars, joining>>

(* worker_loop: the turn ends with ExecutionTurn::Report. *)
TurnReports(w) ==
  /\ WorkerAt(w, "turn", "report")
  /\ recalls' = recalls \ {held[w]}
  /\ running' = [running EXCEPT ![w] = NoJob]
  /\ UNCHANGED <<queue, live, next_job, shutdown, yield, held, stranded,
                 coordVars, chanVars, joining>>

SendReport(w) ==
  /\ WorkerAt(w, "report", "wake")
  /\ Send({held[w]}, "Report")
  /\ held' = [held EXCEPT ![w] = NoJob]
  /\ yield' = yield \ {held[w]}
  /\ UNCHANGED <<queue, running, live, recalls, next_job, shutdown, stranded,
                 coordVars, marker, joining>>

(* Mutant: only the workers are notified, not the coordinators. *)
WakeWaiters_NoMarker(w) ==
  /\ wpc[w] \in {"wake", "lastwake"}
  /\ wpc' = [AllAwake EXCEPT ![w] = IF wpc[w] = "wake" THEN "take" ELSE "exited"]
  /\ UNCHANGED <<poolVars, held, stranded, coordVars, chanVars, joining>>

(* wake_pool_waiters, after a report and as the last act of a failed worker. *)
WakeWaiters(w) ==
  /\ wpc[w] \in {"wake", "lastwake"}
  /\ wpc' = [AllAwake EXCEPT ![w] = IF wpc[w] = "wake" THEN "take" ELSE "exited"]
  /\ WakeAll
  /\ UNCHANGED <<poolVars, held, stranded, coordVars, inbox, reported, joining>>

(***************************************************************************)
(* worker_loop: the turn panics.  The worker reports the failure first,    *)
(* then leaves the pool; the last one takes the whole queue with it.       *)
(***************************************************************************)
(* Mutant: the panic is not reported. *)
TurnPanics_Silent(w) ==
  /\ WorkerAt(w, "turn", "failing")
  /\ held' = [held EXCEPT ![w] = NoJob]
  /\ UNCHANGED <<poolVars, stranded, coordVars, chanVars, joining>>

TurnPanics(w) ==
  /\ WorkerAt(w, "turn", "failing")
  /\ Send({held[w]}, "Failed")
  /\ held' = [held EXCEPT ![w] = NoJob]
  /\ UNCHANGED <<poolVars, stranded, coordVars, marker, joining>>

MarkWorkerFailed(w) ==
  /\ WorkerAt(w, "failing", "strand")
  /\ running' = [running EXCEPT ![w] = NoJob]
  /\ live' = [live EXCEPT ![w] = FALSE]
  /\ yield' = yield \ {running[w]}
  /\ IF AnyLive(live')
       THEN UNCHANGED <<queue, stranded>>
       ELSE /\ queue' = <<>>
            /\ stranded' = [stranded EXCEPT ![w] = Queued]
  /\ UNCHANGED <<recalls, next_job, shutdown, held, coordVars, chanVars,
                 joining>>

SendStranded(w) ==
  /\ WorkerAt(w, "strand", "lastwake")
  /\ Send(stranded[w], "Failed")
  /\ stranded' = [stranded EXCEPT ![w] = {}]
  /\ yield' = yield \ stranded[w]
  /\ UNCHANGED <<queue, running, live, recalls, next_job, shutdown, held,
                 coordVars, marker, joining>>

(* What a worker does besides ending a job: its turns go on for ever. *)
WorkerGoesOn(w) ==
  \/ TakeJob(w) \/ TakeJobShutdown(w) \/ TakeJobWait(w)
  \/ ContinueRecalled(w) \/ ContinueRotate(w) \/ ContinueLocal(w)
  \/ SendReport(w) \/ WakeWaiters(w)
  \/ MarkWorkerFailed(w) \/ SendStranded(w)

WorkerStep(w) == WorkerGoesOn(w) \/ TurnReports(w) \/ TurnPanics(w)

(***************************************************************************)
(* The coordinator.                                                        *)
(***************************************************************************)
CoordAt(c, from, to) ==
  /\ cpc[c] = from
  /\ cpc' = [cpc EXCEPT ![c] = to]

(* Mutant: a full pool is not asked to yield. *)
Dispatch_NoYield(c) ==
  /\ CoordAt(c, "decide", "notify")
  /\ ~terminal[c]
  /\ next_job <= MaxJobs
  /\ ~shutdown /\ AnyLive(live)
  /\ queue' = Append(queue, next_job)
  /\ next_job' = next_job + 1
  /\ active' = [active EXCEPT ![c] = @ \cup {next_job}]
  /\ UNCHANGED <<running, live, recalls, shutdown, yield, workVars, asked,
                 drawn, terminal, chanVars, joining>>

(* SchedulerPool::dispatch up to the unlock; notify_one follows. *)
Dispatch(c) ==
  /\ CoordAt(c, "decide", "notify")
  /\ ~terminal[c]
  /\ next_job <= MaxJobs
  /\ ~shutdown /\ AnyLive(live)
  /\ queue' = Append(queue, next_job)
  /\ yield' = IF \E w \in Workers : live[w] /\ running[w] = NoJob
                THEN yield ELSE yield \cup Running
  /\ next_job' = next_job + 1
  /\ active' = [active EXCEPT ![c] = @ \cup {next_job}]
  /\ UNCHANGED <<running, live, recalls, shutdown, workVars, asked, drawn,
                 terminal, chanVars, joining>>

(* Mutant: nobody is notified of the job. *)
NotifyOne_Nobody(c) ==
  /\ CoordAt(c, "notify", "decide")
  /\ UNCHANGED <<poolVars, workVars, active, asked, drawn, terminal, chanVars,
                 joining>>

NotifyOne(c) ==
  /\ CoordAt(c, "notify", "decide")
  /\ LET asleep == {w \in Workers : wpc[w] = "asleep"}
     IN  IF asleep = {} THEN UNCHANGED wpc
         ELSE \E w \in asleep : wpc' = [wpc EXCEPT ![w] = "take"]
  /\ UNCHANGED <<poolVars, held, stranded, active, asked, drawn, terminal,
                 chanVars, joining>>

(* A dispatch without a live worker fails, and the coordinator aborts. *)
DispatchFails(c) ==
  /\ CoordAt(c, "decide", "abort")
  /\ ~terminal[c]
  /\ shutdown \/ ~AnyLive(live)
  /\ UNCHANGED <<poolVars, workVars, active, asked, drawn, terminal, chanVars,
                 joining>>

(***************************************************************************)
(* SchedulerPool::recall.  The jobs of S that are queued leave the queue   *)
(* and the caller reports them itself after it has released the lock; the  *)
(* running ones are asked to yield and remembered in recalls.              *)
(* Retained(q, S) holds the one sequence of q's other jobs in q's order.   *)
(***************************************************************************)
Retained(q, S) ==
  LET kept == {i \in DOMAIN q : q[i] \notin S}
      At(i) == Cardinality({k \in kept : k <= i})
  IN  {r \in [1..Cardinality(kept) -> {q[i] : i \in kept}] :
         \A i \in kept : r[At(i)] = q[i]}

(* Mutant: the recalled jobs stay in the queue as well. *)
Recall_KeepsQueue(c, S) ==
  /\ S # {}
  /\ drawn' = [drawn EXCEPT ![c] = Queued \cap S]
  /\ yield' = yield \cup (Running \cap S)
  /\ recalls' = recalls \cup (Running \cap S)
  /\ asked' = [asked EXCEPT ![c] = @ \cup S]
  /\ UNCHANGED <<queue, running, live, next_job, shutdown, workVars, active,
                 terminal, chanVars, joining>>

(* Mutant: a running job is asked to yield but not remembered. *)
Recall_YieldOnly(c, S) ==
  /\ S # {}
  /\ queue' \in Retained(queue, S)
  /\ drawn' = [drawn EXCEPT ![c] = Queued \cap S]
  /\ yield' = yield \cup (Running \cap S)
  /\ asked' = [asked EXCEPT ![c] = @ \cup S]
  /\ UNCHANGED <<running, live, recalls, next_job, shutdown, workVars, active,
                 terminal, chanVars, joining>>

Recall(c, S) ==
  /\ S # {}
  /\ queue' \in Retained(queue, S)
  /\ drawn' = [drawn EXCEPT ![c] = Queued \cap S]
  /\ yield' = yield \cup (Running \cap S)
  /\ recalls' = recalls \cup (Running \cap S)
  /\ asked' = [asked EXCEPT ![c] = @ \cup S]
  /\ UNCHANGED <<running, live, next_job, shutdown, workVars, active,
                 terminal, chanVars, joining>>

(* recall_machine, and recall_all_active before a quiescent step. *)
RecallSome(c) ==
  /\ CoordAt(c, "decide", "recalled")
  /\ ~terminal[c]
  /\ \E S \in SUBSET (active[c] \ asked[c]) : Recall(c, S)

(* recall_all_active, once the root is terminal and first in abort. *)
RecallAll(c) ==
  /\ \/ CoordAt(c, "decide", "recalled") /\ terminal[c]
     \/ CoordAt(c, "abort", "aborting")
  /\ Recall(c, active[c] \ asked[c])

ReportDrawn(c) ==
  /\ CoordAt(c, "recalled", "decide") \/ CoordAt(c, "aborting", "abort")
  /\ Send(drawn[c], "Report")
  /\ WakeAll
  /\ drawn' = [drawn EXCEPT ![c] = {}]
  /\ yield' = yield \ drawn[c]
  /\ UNCHANGED <<queue, running, live, recalls, next_job, shutdown, workVars,
                 active, asked, terminal, joining>>

(* The coordinator's loop drains the wake markers before the reports. *)
DrainMarkers(c) ==
  /\ CoordAt(c, "loop", "drain")
  /\ marker' = [marker EXCEPT ![c] = FALSE]
  /\ UNCHANGED <<poolVars, workVars, active, asked, drawn, terminal, inbox,
                 reported, joining>>

Receive(c, e) ==
  /\ inbox' = [inbox EXCEPT ![c] = @ \ {e}]
  /\ active' = [active EXCEPT ![c] = @ \ {e.job}]
  /\ asked' = [asked EXCEPT ![c] = @ \ {e.job}]
  /\ UNCHANGED <<poolVars, workVars, drawn, terminal, marker, reported,
                 joining>>

(* drain_worker_reports: a failure ends the loop with an error. *)
DrainReport(c) ==
  \E e \in inbox[c] :
    /\ CoordAt(c, "drain", IF e.kind = "Failed" THEN "abort" ELSE "drain")
    /\ Receive(c, e)

Drained(c) ==
  /\ CoordAt(c, "drain", "decide")
  /\ inbox[c] = {}
  /\ UNCHANGED <<poolVars, workVars, active, asked, drawn, terminal, chanVars,
                 joining>>

(* The root machine reaches a terminal state. *)
RootTerminal(c) ==
  /\ cpc[c] = "decide"
  /\ ~terminal[c]
  /\ terminal' = [terminal EXCEPT ![c] = TRUE]
  /\ UNCHANGED <<poolVars, workVars, cpc, active, asked, drawn, chanVars,
                 joining>>

(* No job is out: the next iteration runs a serial slice or polls. *)
NoJobsOut(c) ==
  /\ CoordAt(c, "decide", "loop")
  /\ ~terminal[c]
  /\ active[c] = {}
  /\ UNCHANGED <<poolVars, workVars, active, asked, drawn, terminal, chanVars,
                 joining>>

Park(c) ==
  /\ CoordAt(c, "decide", "parked")
  /\ active[c] # {}
  /\ terminal[c] => asked[c] = active[c]
  /\ UNCHANGED <<poolVars, workVars, active, asked, drawn, terminal, chanVars,
                 joining>>

Unpark(c) ==
  /\ CoordAt(c, "parked", "loop")
  /\ marker[c]
  /\ UNCHANGED <<poolVars, workVars, active, asked, drawn, terminal, chanVars,
                 joining>>

(* recv_timeout, when the world has a timer. *)
ParkTimeout(c) ==
  /\ CoordAt(c, "parked", "loop")
  /\ UNCHANGED <<poolVars, workVars, active, asked, drawn, terminal, chanVars,
                 joining>>

(* abort: wait for every job that is still out, then let go of the pool. *)
AbortReceive(c) ==
  /\ cpc[c] = "abort"
  /\ asked[c] = active[c]
  /\ \E e \in inbox[c] : Receive(c, e)
  /\ UNCHANGED cpc

Leave(c) ==
  /\ \/ CoordAt(c, "decide", "gone") /\ terminal[c]
     \/ CoordAt(c, "abort", "gone")
  /\ active[c] = {}
  /\ inbox' = [inbox EXCEPT ![c] = {}]
  /\ UNCHANGED <<poolVars, workVars, active, asked, drawn, terminal, marker,
                 reported, joining>>

(* The coordinator's thread unwinds; its jobs stay with the pool. *)
Unwind(c) ==
  /\ CoordAt(c, "decide", "gone")
  /\ inbox' = [inbox EXCEPT ![c] = {}]
  /\ active' = [active EXCEPT ![c] = {}]
  /\ asked' = [asked EXCEPT ![c] = {}]
  /\ UNCHANGED <<poolVars, workVars, drawn, terminal, marker, reported,
                 joining>>

CoordStep(c) ==
  \/ Dispatch(c) \/ NotifyOne(c) \/ DispatchFails(c)
  \/ RecallSome(c) \/ RecallAll(c) \/ ReportDrawn(c)
  \/ DrainMarkers(c) \/ DrainReport(c) \/ Drained(c)
  \/ NoJobsOut(c) \/ Park(c) \/ Unpark(c) \/ AbortReceive(c) \/ Leave(c)

(***************************************************************************)
(* PoolInner::drop, when the last coordinator has let go of the pool: mark *)
(* the shutdown and fail the queue, notify every worker, join them all.    *)
(***************************************************************************)
DropPool ==
  /\ joining = "no"
  /\ \A c \in Coordinators : cpc[c] = "gone"
  /\ joining' = "locked"
  /\ shutdown' = TRUE
  /\ queue' = <<>>
  /\ Send(Queued, "Failed")
  /\ yield' = (yield \ Queued) \cup Running
  /\ UNCHANGED <<running, live, recalls, next_job, workVars, coordVars, marker>>

(* Mutant: the sleeping workers are not notified of the shutdown. *)
DropNotifies_Nobody ==
  /\ joining = "locked"
  /\ joining' = "notified"
  /\ UNCHANGED <<poolVars, workVars, coordVars, chanVars>>

DropNotifies ==
  /\ joining = "locked"
  /\ joining' = "notified"
  /\ wpc' = AllAwake
  /\ UNCHANGED <<poolVars, held, stranded, coordVars, chanVars>>

DropJoins ==
  /\ joining = "notified"
  /\ \A w \in Workers : wpc[w] = "exited"
  /\ joining' = "joined"
  /\ UNCHANGED <<poolVars, workVars, coordVars, chanVars>>

DropStep == DropPool \/ DropNotifies \/ DropJoins

Next ==
  \/ \E w \in Workers : WorkerStep(w) \/ SpuriousWake(w)
  \/ \E c \in Coordinators :
       CoordStep(c) \/ RootTerminal(c) \/ ParkTimeout(c) \/ Unwind(c)
  \/ DropStep

Spec == Init /\ [][Next]_vars

(***************************************************************************)
(* Worker threads are scheduled by the operating system, and a turn ends   *)
(* after a bounded number of polls (execute_polled_turn), so a worker that *)
(* can step does.  So do a coordinator's thread and the thread that drops  *)
(* the pool.  Nothing promises that a job ever reports or panics: a guest  *)
(* may compute for ever, and each of its turns then ends with Continue.    *)
(* Nor that a root terminates, or that a condition variable or a timer     *)
(* wakes anybody.                                                          *)
(***************************************************************************)
FairSpec ==
  /\ Spec
  /\ \A w \in Workers : WF_vars(WorkerGoesOn(w))
  /\ \A c \in Coordinators : WF_vars(CoordStep(c))
  /\ WF_vars(DropStep)

-----------------------------------------------------------------------------
PoolTypes ==
  /\ queue \in Seq(Jobs)
  /\ running \in [Workers -> Jobs \cup {NoJob}]
  /\ live \in [Workers -> BOOLEAN]
  /\ recalls \subseteq Jobs
  /\ next_job \in 1..(MaxJobs + 1)
  /\ shutdown \in BOOLEAN
  /\ yield \subseteq Jobs

WorkTypes ==
  /\ wpc \in [Workers -> {"take", "asleep", "turn", "report", "wake",
                          "failing", "strand", "lastwake", "exited"}]
  /\ held \in [Workers -> Jobs \cup {NoJob}]
  /\ stranded \in [Workers -> SUBSET Jobs]

CoordTypes ==
  /\ cpc \in [Coordinators -> {"loop", "drain", "decide", "notify", "recalled",
                               "parked", "abort", "aborting", "gone"}]
  /\ active \in [Coordinators -> SUBSET Jobs]
  /\ asked \in [Coordinators -> SUBSET Jobs]
  /\ drawn \in [Coordinators -> SUBSET Jobs]
  /\ terminal \in [Coordinators -> BOOLEAN]

ChanTypes ==
  /\ inbox \in [Coordinators ->
                  SUBSET [job : Jobs, kind : {"Report", "Failed"}]]
  /\ marker \in [Coordinators -> BOOLEAN]
  /\ reported \subseteq Jobs
  /\ joining \in {"no", "locked", "notified", "joined"}

(* The shapes of the pool's state, the threads' locals and the channels. *)
TypeOK == PoolTypes /\ WorkTypes /\ CoordTypes /\ ChanTypes

(* Where the lease of job j is; "reported" once an event for it was sent. *)
Places(j) ==
  {<<"queue", i>> : i \in {i \in DOMAIN queue : queue[i] = j}}
    \cup {<<"worker", w>> : w \in {w \in Workers : held[w] = j}}
    \cup {<<"stranded", w>> : w \in {w \in Workers : j \in stranded[w]}}
    \cup {<<"drawn", c>> : c \in {c \in Coordinators : j \in drawn[c]}}
    \cup {<<"reported", 0>> : k \in {j} \cap reported}

(***************************************************************************)
(* dispatch, take_job, worker_loop, recall, mark_worker_failed and drop    *)
(* move leases between the queue, worker locals and channels.  A lease is  *)
(* never lost and never in two places, and so a job is reported at most    *)
(* once ("One VM never executes concurrently").                            *)
(***************************************************************************)
JobsAccounted == \A j \in Issued : Cardinality(Places(j)) = 1

(***************************************************************************)
(* recall_requested is set once, so one recall must be enough: a job that  *)
(* was recalled is never back in the queue, and while a worker runs it its *)
(* identity is in recalls, where the end of the turn finds it.             *)
(***************************************************************************)
RecallSticks ==
  \A c \in Coordinators : \A j \in asked[c] :
    /\ j \notin Queued
    /\ \A w \in Workers :
         wpc[w] = "turn" /\ held[w] = j => j \in recalls

(***************************************************************************)
(* notify_one follows the unlock in dispatch, and wakes at most one worker *)
(* of several.  No worker sleeps on beside a job that nobody is coming     *)
(* for: every queued job has a worker on its way to take_job, or a         *)
(* notification that is still to be sent.                                  *)
(***************************************************************************)
NoIdleBesideWork ==
  LET coming == {w \in Workers : wpc[w] = "take"}
      owed   == {c \in Coordinators : cpc[c] = "notify"}
      all    == {w \in Workers : wpc[w] \in {"report", "wake"}}
  IN  (\E w \in Workers : wpc[w] = "asleep") /\ all = {}
        => Len(queue) <= Cardinality(coming) + Cardinality(owed)

(***************************************************************************)
(* drain_wake_markers comes before drain_worker_reports, and a report is   *)
(* sent before its wake marker.  A coordinator that parks on its channel   *)
(* never sleeps on beside a report: a marker is there or on its way.       *)
(***************************************************************************)
NoLostMarker ==
  \A c \in Coordinators :
    cpc[c] = "parked" /\ inbox[c] # {} =>
      \/ marker[c]
      \/ \E w \in Workers : wpc[w] \in {"wake", "failing", "strand", "lastwake"}

(***************************************************************************)
(* The spec's "It rotates its lease when another lease waits": while every *)
(* worker is busy and a job waits, at least one running job has been asked *)
(* to yield (dispatch, take_job and the rotation set the flag; a local     *)
(* continuation clears it).  mark_worker_failed does not ask anybody, so   *)
(* this is said of a pool whose workers are all alive.                     *)
(***************************************************************************)
WaitingJobIsNoticed ==
  (\A w \in Workers : live[w] /\ wpc[w] = "turn") /\ queue # <<>>
    => \E w \in Workers : held[w] \in yield

(***************************************************************************)
(* No job stays in the queue for ever: it reaches a worker, is recalled,   *)
(* or fails with the last worker.  That holds also while every live worker *)
(* has a job that never ends, because a worker changes its job for the     *)
(* head of the queue at the end of each turn.                              *)
(***************************************************************************)
QueuedJobMoves == \A j \in Jobs : []<>(j \notin Queued)

(***************************************************************************)
(* abort blocks on the report channel until every job came back; recalls   *)
(* and failures together return all of them, whatever else fails, and the  *)
(* coordinator does not stay in abort.                                     *)
(***************************************************************************)
AbortEnds == \A c \in Coordinators : []<>(cpc[c] \notin {"abort", "aborting"})

(***************************************************************************)
(* A coordinator whose root is terminal recalls its jobs and parks; it     *)
(* gets them all back and leaves, or its thread fails on the way.  (A root *)
(* stays terminal, and a coordinator that is gone stays gone.)             *)
(***************************************************************************)
TerminalRootLeaves == \A c \in Coordinators : []<>(terminal[c] => cpc[c] = "gone")

(* PoolInner::drop joins every worker: none sleeps through the shutdown. *)
JoinReturns == []<>(joining \in {"no", "joined"})
=============================================================================
