# Formal models of the Loom virtual machine

TLA+ modules for the concurrent core of Loom (`src/crates/`): how worlds of
machines ("procs") are scheduled, serially and on worker threads, how they share
fuel, mailboxes, compiled code and standard input, and what the scheduler
promises about them.  TLC checks every module on small instances; TLAPS proves
most of the safety properties, and one refinement, for every value of the
constants.

## 1. The system and its models

| part | source | what it holds and does | model |
|---|---|---|---|
| execution fuel | `lm-vm/src/executor.rs` | two atomics, from which worker leases claim and to which the coordinator charges inline slices | `ExecutionFuel` |
| worker pool | `lm-proc/src/pool.rs` | a queue of leases, worker threads, recalls, failures, shutdown; a condition variable | `WorkerPool` |
| parallel coordinator | `lm-proc/src/parallel.rs`, `lm-vm/src/world/parallel.rs` | takes reports of workers back and commits them, recalls, retains, parks, settles | `Coordinator` over `ProcOps`; `SerialWorld` is what it promises; its side of the pool is in `WorkerPool` |
| deterministic scheduler | `lm-proc/src/lib.rs`, `lm-vm/src/schedule.rs` | ready queue with tickets, task index, wake index, event batch | `Scheduler` over `ProcWorld` |
| procs and mailboxes | `lm-vm/src/world/procs.rs`, `sched.rs` | send, receive, close, done, spawn, pause, resume; the events they leave | `ProcWorld` (with events), `ProcOps` (effects on a world at rest) |
| wait sets | `lm-vm/src/world/waits.rs`, `resource.rs`, `world/resources.rs` | wait tokens, choices, selection of one source and cancellation of the others | `WaitSet` over `InputService` |
| standard input | `lm-host/src/io_service.rs`, parts of `lm-host/src/lib.rs` | reader thread, input worker, prepared reads with commit and cancel | `InputService` |
| compiled-code cache | `lm-vm/src/jit/cache.rs`, `NativeEntryCell` of `lm-jit/src/lib.rs` | slots with a verdict, flag, entry cell and tier; a byte budget; all atomics | `NativeCode` |
| snapshot barrier and cut | `lm-proc/src/barrier.rs`, `lm-vm/src/snapshot/write.rs` | stops tasks, captures, resumes | its events in `ProcWorld` |
| heap and graph copy, snapshot codec, interpreter, code generator, front end, type checker, bytecode and verifier, linker, module compiler, command line, regular expressions, mathematics | `PROJECT.json` | sequential, or pure functions | not modelled |

What is hard here, and so what the properties are about: counters that several
threads update without a lock; leases that change hands between a queue, worker
threads and channels while workers panic and coordinators abort; notifications
that race with going to sleep; reports that commit in another order than they
were made; a task index that mirrors the state of machines and learns of changes
only through a batch of events; blocked machines whose condition comes true
between two steps of that mirror; recall, pause and snapshot of something that is
running; prepared reads that are answered, selected, cancelled and timed out by
different threads.

The repository has about 200,000 lines, most of them a compiler, an interpreter, a
code generator and codecs: sequential programs over large data, where a model
checker reaches nothing a test does not.  The models cover the parts where
several actors meet, a few thousand lines.

## 2. Modules

### ExecutionFuel (`executor.rs` 81-202)

One action per atomic access.  `remaining` and `active_claims` are the two
atomics; `pc`, `current`, `limit` and `claimed` say where the `claim` or `status`
call of a thread stands; `spent` is a history variable.  `BeginClaim`,
`LoadRemaining`, `SwapOk`/`SwapFail`, `WithdrawClaim`, `RetryClaim` and
`Status1..3` are the accesses of `claim` and `status` in program order; `RunTurn`,
`Release` and `FinishClaim` use and return a claim.  `ReadAvailable`, `RunInline`,
`Charge` and `ChargeUnderflow` are an inline slice of the coordinator.  `Portion`
is the rule that a claim takes half of what is left when little is left.

### WorkerPool (`pool.rs`, and the pool side of `parallel.rs`)

One action per critical section of the pool's mutex, per send on a report channel
and per notification, so everything the code does between two locks can be
interleaved.  A job is a number; what its lease computes is left out, and a turn
ends with `Continue` (recalled, rotated or continued locally), with a report, or
with a panic.  The coordinator is a small machine here: drain the wake markers,
drain the reports, decide (dispatch, recall, park, notice that the root ended),
abort, leave.  `Unwind` is a coordinator's thread that disappears with jobs
outstanding.  `DropPool`, `DropNotifies`, `DropJoins` are `PoolInner::drop`.  A
report channel is a set, so the model allows more orders of reception than the
code has.

### ProcWorld (`world/procs.rs`, `world/sched.rs`, `schedule.rs`)

The machines as the deterministic scheduler sees them.  `state`, `request`,
`queued`, `closed`, `paused` and `procs` are the fields of a machine the
scheduler's questions depend on; `removed`, `wakes` and `readied` are the three
lists of a `ScheduleEvents` batch.  `Status` is `task_status`, `BlockReady` and
`BlockWakeKey` are `block_ready` and `block_wake_key`.  There is one action per
proc operation.  A blocked machine keeps its request, and `CompleteBlocked`
performs it anew, as `complete_blocked_machine` does.  `InstallCompletion` and
`InstallFails` are the two ends of `install_host_completion`: a result that is an
error or does not fit faults the machine, with or without an event.  A mailbox is its
length and its closed flag.  Operations are chosen from `Ops`, so that a run can say which
programs it is about.

Left out: machine generations (a slot is used once), gates, routed requests and
the `snapshot_wait` block.  A capture is one action that leaves the events of
stopping, freezing, thawing and resuming any set of machines that holds the
captured one.

### Scheduler (`lib.rs`)

Extends `ProcWorld` with the task index and `run_deterministic_loop`.  `pc` is the
place in the loop: `drain` (consume_events, with finish_terminal's direct wakes
first), `poll`, `pick`, `slice`, `returned`.  `Enqueue`, `Block`, `Wait`,
`DropTask` and `Refresh` are the index operations, including their early returns.
Loops over event lists and over the waiters of a key take one step per element,
in the code's order.  A slice is a sequence of operations that ends with a block,
a host operation, a yield or termination.

### ProcOps, SerialWorld, Coordinator

`ProcOps` has the operations of a machine on other machines as they act on a
world at rest, and the stack of a task that runs a machine it holds.  What a guest
asks for is its program, a sequence of requests (`todo`); `Allowed` says which
requests a guest can make: a handle on a machine never leaves its holder, so only
the holder runs it (`expect_holder_owned` in `world/capture.rs`).

`Coordinator` is `ParallelCoordinator::run`, with what it calls.  `where` says who
has the stack of each task: nobody, a worker, the list of returned reports, the
list of continuations, the coordinator's own hands, or a saved reply chain.  `pc`
walks through the loop: drain the channel (`drain_worker_reports`), commit what
can be committed (`Prepare`, `Candidates`, `CommitReport`, `CommitParks`), decide
(`RootStops`, `Quiesces`, `Dispatches`), dispatch, park, reconcile the index, wait
for the host, declare a deadlock, settle after the root.  `Advance*` are the
branches of `advance_stack`.  `idx`, `listed` and `events` are the task index and
the events it has not consumed.

`SerialWorld` is the promise: machines act one at a time, each operation takes
effect at once and in program order, only the top machine of a task that is not
paused acts, and machines fail from outside only with a host call (the host fails, or
its answer does not fit), in a deadlock or after the root ended.  It knows nothing of leases, reports and queues.  `Coordinator` implements
it with the mapping `todo <- Undone`: a request that a worker has made but that
is not committed is still to be asked for.

Left out of `Coordinator`: guests that spawn procs or close mailboxes (`ProcWorld` has
both), drive and `snapshot_wait` requests, a scarce fuel pool, and a worker that fails
in the middle of a commit.

### InputService, WaitSet

`InputService` is the reader thread, the input worker with its loop of three
parts (commands, data, answers), the channels between them and the caller, and
the shared count of requests.  A byte is its position in the stream.

`WaitSet` is the caller: each machine's table of wait tokens with the trees that
`choose` and `any` build over them, the operations of the guest, the selection
(`service_wait_slice`) that commits one source and cancels the others through
calls to the worker that block for at most a second, and the end of a machine with
waits.  `job` is the operation whose calls are under way, and `slow` that one of its
calls passed its deadline.  Such an operation may fault its machine, and so may a
selection or a reply for which the guest's heap has no room (`JobEnds`, `ReplyFaults`);
`lost` are the bytes such a machine was to get.  `CloseJob` is the cancellation of
what an ended machine had prepared, which a proc's end does not reach: its records are
gone.  Left out: drive waits,
waits on the other host services, and the shutdown of the service.

### NativeCode (`jit/cache.rs`)

A slot is a function of one layout.  `region` is a sequence of labels, one per
atomic access: the look at the verdict, the budget's epoch, the refusal's epoch,
the flag, compilation, `reserve`, `prepare`, the verdict, the count, the tier,
publication.  `release` is two steps, because others look between them.  What the
compiler and `prepare` answer is left open.  A region is named after the thread
that compiled it.

Atomic accesses interleave sequentially consistently; reorderings that the relaxed
accesses would allow are not modelled.  All threads run one revision: a slot has
one code size and one contract.  The compiler's input also holds behaviours,
string counts and relocations of the revision, so for revisions that share a slot
this is an assumption and not something the code states.

## 3. Runs

| run | instance | shows |
|---|---|---|
| `fuel` | 2 workers and the coordinator share fuel 4 | the claim counter is exact; fuel is neither lost nor made |
| `fuel_exhausted` | the same, a violation | `status` may answer Exhausted while a claim holds fuel it will return |
| `fuel_charge` | the same, a violation | an inline slice can charge fuel a worker has claimed |
| `pool` | fair, 2 workers, 1 coordinator, 3 jobs, every failure | a lease is in one place; a recall is never forgotten; no coordinator parks beside a report without a marker; no worker sleeps beside a job nobody comes for; a busy pool is asked to yield; abort, a terminal root and the drop of the pool all finish; a queued job leaves the queue although every worker has a job that never ends |
| `sched` | root and 2 procs; all operations but snapshots and self-sends; host calls that fail or whose results do not fit | types and the mailbox limit; exactly one valid queue entry per queued task; a ready task is queued whenever the scheduler chooses; a blocked task is registered under its key |
| `sched_live` | fair, all operations but self-sends, the same host | FIFO starves nobody; whoever waits for a proc that ended in a slice is answered, and no deadlock fault ends the wait |
| `sched_self` | a violation | a deadlock is declared while a sender could go on |
| `sched_crash` | a violation | a host call that fails can fault the holder of the failed proc |
| `native` | 2 threads, 2 slots that do not fit together | the byte budget and the count of regions are exact; only the retained region is published; one thread compiles a function; a refusal is never stale; late work does not take a tier back |
| `coord` | fair, root, 2 procs and a held machine, 13 programs, host calls that fail | a stack is in one place; a paused proc is at rest; no commit finds its target away where only receivers are paused; the guests see a serial world (`ImplementsSerialWorld`); the run returns once the root has ended |
| `coord_refused` | a violation: a proc that sends is paused | a commit finds its target away and the run ends with an error |
| `waits` | fair, a proc and a held machine, 3 bytes, 19 programs | tables of waits are forests; no byte is doubled, or disappears from under a guest that goes on; bytes come in order; guest, host and service agree on what is prepared; the count of requests is exact; whoever waits for input is answered |

### Bounds

The sizes of the sets, `MaxJobs`, `Budget`, `MaxLimit`, `TicketSpace` and the
programs are the only bounds.

* Fuel 4 with claims of at most 3 has both a claim that is granted in full and one
  that is halved.
* Two workers and three jobs give the races for a job, a recall and a notification,
  and a job that waits while every worker is busy, so that somebody has to rotate.
* Two procs and the root give two waiters for one key, a proc that waits for a
  proc, and a sender and a receiver that race with a closer.  `MailboxLimit` is 1,
  so a mailbox is full after one send.  `Budget` bounds the operations of each
  machine (not its yields), so that the loops of the scheduler are still infinite.
* The code counts tickets in a `u128`, the model modulo `TicketSpace`, which is
  larger than any queue the other bounds allow.
* In `native` a budget of 2 meets regions of 2 and 1, so each slot can fill the
  room of the other; a slot is compiled for good or dropped, so runs end and
  deadlock is not checked.
* The programs of `coord` have messages through full and empty mailboxes, joins,
  host calls, collections, a held machine that asks for another task, and pauses of
  a proc that receives.  `coord_refused` has the pause of a proc that sends.
* In `waits` the buffer holds 3 bytes, a chunk 2 and the channel one chunk, so the
  buffer is full while a chunk waits; 2 requests fill the service; the 19 programs
  have reads that race with messages, with each other, with cancels and with the
  end of their machine, reads prepared beside a direct one, and full tables.

### Fairness

The operating system runs every thread that can run: workers, coordinators, the
thread that drops the pool, the reader and the input worker are weakly fair.  A
turn ends after a bounded number of polls, so a worker comes back to the pool
(`WorkerGoesOn`); that its job is then finished nothing promises, and every turn may
end with `Continue`.  The scheduler's loop is one thread, and a host operation
that was started completes: weak fairness of `LoopStep` and `HostStep`.  The
coordinator takes reports and completions in at a few places of its loop only,
where they stay available: `FairSpec` of `Coordinator` states this as strong
fairness of the report of a recalled lease and of a host completion.  Nothing
makes a root terminate, a job report, a worker panic, a timer fire or a condition variable wake
spuriously, and a machine that nobody recalls may compute for ever: those actions
have no fairness.

## 4. What the violations say, and what else was seen

* `fuel_exhausted`: `status` loads `remaining`, `active_claims` and `remaining`
  again.  Between the second and the third load one claim can end and another can
  take everything, so both zeros are seen though fuel is only reserved.
* `fuel_charge`: `snapshot_wait` runs a machine inline while other leases are
  active; what the slice read as available may be claimed before it is charged.
* `sched_self`: `wake` takes a waiter from its bucket and refreshes it.  If the
  waiter's condition does not hold (the proc received a message and refilled its
  own mailbox in the same slice), `block` sees the unchanged
  `IndexedState::Blocked(wake)` and returns before it inserts the task, so no later
  wake finds it.  A snapshot reaches the same early return: it wakes the senders of
  a mailbox that is still full (add `"snapshot"` to the `Ops` of `sched` and TLC
  shows `BlockedIsIndexed` violated).  The parallel coordinator repairs such
  entries in `reconcile_parallel_states` when no job is out; the deterministic loop
  has no such step.
* `sched_crash`: `fail_waiting` refreshes the faulted tasks but leaves no `Done`
  event, so a holder in `done()` is not told and is faulted as deadlocked.  The
  same holds for a result that faults the proc in `install_host_completion`.
* `coord_refused`: `commit_ready_reports` takes a report whose machine is the one the
  front report needs out of order (`parallel.rs` 522-531) without asking what that
  report itself needs, and `commit_parallel_report` refuses it
  (`world/parallel.rs` 1146-1162).  It takes a pause of a proc that sends:
  `NeverRefused` says that programs which pause and resume only procs that need no
  other machine (`PausesReceivers`) are safe.

Behaviour met while modelling that no run is about:

* With pauses and host calls together a deadlock can be declared while a paused
  proc's completion is outstanding, and a report that needs two machines can be
  overtaken for ever by leases of the two.
* `pause` of a proc whose stack is saved with a nested machine waits for a
  safepoint that does not come.
* A proc that ends leaves its prepared reads at the host (`orphaned`):
  `compact_terminal_proc` drops their records, so nobody cancels them and the bytes
  that answered them stay retained (`Stranded`), although "Cancellation keeps that
  input available to the same logical resource." (`docs/language-spec.md` 4430).
* Cancelling two answered reads left to right restores their bytes in reversed
  order, which is why `OrderKept` speaks of reads that do not overlap.
* A selection whose commit passes its one-second deadline, and a selection or direct
  read whose reply does not fit the guest's heap, lose the bytes (`lost`); the machine
  faults.  `BytesConserved` says that bytes are lost or stranded in no other way.
* `Heap` gives a page it adds its old generations, but
  `generations.resize(page_end, 0)` (`lm-heap/src/lib.rs` 817 and 830) cuts off those
  of the pages behind it, so when two pages were trimmed and come back, the second
  starts at generation 0; the field is called "The latest generation of every slot
  ever allocated" (673).

## 5. Proofs

Every theorem is for arbitrary constants that satisfy the named assumptions; the
proof modules extend the specifications.  The table has the theorems, the lemmas
are in the modules; those of `WaitTokenProofs` are also in `WaitLemmas`, and the
invariants of the wait sets are defined in `WaitInvariant`.

| module | theorem | establishes |
|---|---|---|
| `ExecutionFuelProofs` | `ClaimCountCorrect` | `TypeOK`, `ClaimCountExact` |
| | `FuelIsConserved` | `FuelConserved` |
| `WorkerPoolProofs` | `NoLeaseLost` | `TypeOK`, `JobsAccounted` |
| | `RecallNeverForgotten` | `RecallSticks` |
| | `MarkerNeverLost` | `NoLostMarker` |
| | `NotificationNeverLost` | `NoIdleBesideWork` |
| | `WaitingJobAlwaysNoticed` | `WaitingJobIsNoticed` |
| `NativeCodeProofs` | `PublishedAlwaysRetained`, `OneCompilerAlways`, `RefusalAlwaysFresh`, `FinalStatesAlwaysStay` | the property each is named for |
| | `BudgetAlwaysExact`, `CountAlwaysExact`, `CacheTypesCorrect` | `BudgetExact`, `CompiledCountExact`, `TypeOK` |
| `SchedulerProofs` | `SchedulerTypesCorrect` | `TypeOK` |
| | `TicketsWork` | `OneValidEntry`, while the ready queue is no longer than `TicketSpace` |
| | `BlockedAlwaysIndexed`, `ReadyAlwaysQueued` | `BlockedIsIndexed`, `ReadyIsQueued`, for `PlainOps` |
| `WaitSetProofs` | `WaitTreesCorrect` | `WaitTreeWellFormed` |
| | `WaitTypesCorrect`, `PendingAlwaysExact` | `TypeOK`, `PendingExact` |
| `WaitTokenProofs` | `WaitTokensAgree`, `SelectionsFailLate` | `TokensAgree`, `FailsOnlyLate` |
| `CoordinatorProofs` | `CoordinatorTypesCorrect`, `PausedAlwaysAtRest` | `TypeOK`, `PausedIsAtRest` |
| | `StacksInOnePlace` | `OnePlace`, as long as no commit was refused |
| | `NoCommitRefused` | `NeverRefused` |
| | `StacksAlwaysInOnePlace` | `OnePlace`, for `PausesReceivers` |
| | `SerialWorldImplemented` | `ImplementsSerialWorld`, for `NoPauses` |

### The arguments

*ExecutionFuel.*  The counter is the size of the set of workers between
`add_active_claim` and the matching `fetch_sub`; each step moves one worker into
or out of that set, or leaves it alone.  Conservation counts units of fuel as
pairs of a worker and a number, and needs that a worker outside a claim holds
none (`HoldsWhileClaimed`).

*WorkerPool.*  `JobsAccounted` alone is not inductive: it has to know that queue
entries are distinct, that `running` and `held` agree while a turn runs, that only
a worker in a turn or a report holds a job, that drawn and stranded jobs exist only
at the program points that own them, and that an issued job is below `next_job`.
The three wake-up properties rest on that invariant, each with a strengthening of
its own: `MarkerFollows` (a report in a channel is followed by its marker, also
while the coordinator is not parked yet), `Notified` (each queued job has a
worker or a notification coming, counted), and `WaitingJobIsNoticed` itself, which
is inductive beside the pool's invariant.

*NativeCode.*  The invariant adds that a thread in `region` holds the flag; that
the thread about to publish is the one whose region is retained; that epochs in
hand are not ahead of the budget's, and a refusal about to be stored is as fresh as
a stored one; that a denied tier has a verdict; and that an exchange of productivity
starts from a state that is not final.  For the accounts it also needs who may be in
a slot: its threads while it is alive, one dropper after (`SlotsInUse`).  Bytes are
counted as pairs of an owner and a number.

*Scheduler.*  `WInv` says where every task that could run
has its place (`Covered`): queued, running, about to be installed, readied by the
batch, or blocked under a key whose wake is under way if its condition holds.  It
stays true because a wake under way is for a condition that holds
(`WakesJustified`, `SliceWakes`), so a waiter that `wake` takes from its bucket is
never put back.  A machine that the host or its answer faulted may leave no wake, or
one that is read after the next choice (`FaultWakes`); `ReadyIsQueued` excepts those who
wait for it.  This is proved first for the operations of a slice, then for the
steps of the loop.  The theorem is about programs without self-sends and snapshots (`PlainOps`)
because with either a wake can be for a condition that does not hold, and the
property is false: `sched_self`.  `TicketsWork` assumes `Fits`: tickets modulo
`TicketSpace` tell entries apart only while the queue is not longer; the code's
`u128` gives the same bound with 2^128.  Its invariant is that the tickets of the
entries run on from one to the next.

*WaitSet.*  A table of waits is a forest; the lemmas show that adding an entry over
roots, retiring a whole tree, and replacing fields other than the links keep it one.
The tree below a root is the smallest closed set, so that needs no recursion.
`TInv` adds the input service (`SInv`: the channels are typed, and the
counter is the requests in the channel, in the worker's queue and between an answer
and its release), the room in the tables and the tokens.  Its step lemmas summarise
what a guest's operation, a host call or the end of a job may do to the tables, the
tokens, the mailboxes and the channel (`Effects`, `InputEffect`), and the invariant
follows from the summary.  It needs that a machine whose operation is under way does
not wait for a direct read, that the scopes in a table are tokens the host gave out,
and that a commit or a cancel is sent only for a token the host knows.

`TokensAgree` compares three tables that different threads change: the guests' waits,
the host's `wait_services` and what the input service holds.  `KInv` is `TInv` with
four facts.  `CInv` follows a token through the service: it is asked for once; its
request is in the channel, in the worker's queue, or answered, and never in two of
these; and a commit or cancel in the channel comes after its request, once, and is for
a read the service still holds.  `Asked` says that the call under way is the first the
operation has to make.  `Sound` says that no two waits share a token, and that a wait
with a token is a leaf.  `JobSound` says what the operation under way has still to do:
its calls name the tokens of the waits it will retire, each once, and the host knows
those and the tokens of the waits that stay.  Between two operations nothing is left
to do, and the tables agree.  `SelectionsFailLate` needs `CInv` and `Asked` as well: a
call for a token the service holds is answered with "found".

Which calls an operation makes depends on the leaves of a tree, and those are defined
by recursion (`Leaves`, `Joined`).  `JoinedFacts` and `LeavesFacts` say what the proofs
need of them: the leaves are the waits of the tree without children, each once.  They
are proved without an induction rule: of the numbers where the claim fails, the least
one (`Smallest`) contradicts the definition.

*Coordinator.*  `GInv` says that each of the two lists and the channel holds each
of its tasks once and agrees with `where`, that a machine in the coordinator's
hands is so only while a stack is advanced, and that a paused task is at rest.  It
holds for every program, up to a refused commit: a refused report is in no list any
more.  `RInv` is about programs without pause and resume (`NoPauses`): only the
holder of a machine has it on its stack (`StackShape`); what a report stopped for is
a request its guest may make (`StopShape`); a leased machine is ready
(`Executing`); a task the index has dropped is terminal or in somebody's hands
(`Indexes`); and when the coordinator dispatches or idles, the front report still
waits for a machine that is away (`Stalled`, in `Loop`).  From it follows the
refinement: each step of the coordinator is one step of
`SerialWorld` or leaves it alone.  The cases that are not immediate are the commit
of a report (the request leaves `Undone` and takes effect), the report of a worker
(a request leaves `todo` and enters `Undone`, so nothing changes), the deadlock (no
task can move, because none is queued, leased, retained or returned, and
`reconcile_parallel_states` found no index entry stale), and the settling after the
root.

`NoCommitRefused` has an invariant of its own, `SInv`, for programs that pause and
resume only procs that ask for nothing but messages and the host.  The machines of two
tasks are apart (`Own`), and what a guest has still to ask for, and what a report
stopped for, are requests of such a program (`Fit`, `Stops`).  The coordinator commits
the front report only when the machines it needs are at home.  Another one commits
before its turn when its worker was only recalled, or when it is of the machine the
front report waits for; then that is a proc to be paused or resumed, and it needs no
other machine (`PickedAccepted`).  For
programs that pause and resume, TLC checks the refinement on the ones in
`SafePrograms`.

### Assumptions

Named `ASSUME`s in the modules: finite sets of workers, threads and slots; natural
limits, sizes and budgets (`MaxLimit`, `AutoWork`, `SampleCount` positive); an input
stream that is a sequence of numbers in increasing order;
distinct values for "nobody" and "no job"; and `WorldAssumption` of `ProcOps`: the
root is no proc, held machines are no tasks and have a holder, and programs ask
only for what `Allowed` allows.

### Only model-checked

* Liveness: `QueuedJobMoves`, `AbortEnds`, `TerminalRootLeaves`, `JoinReturns`,
  `QueuedRuns`, `DoneReturns`, `RootEndReturns`, `ReadEnds`.  Fairness and ENABLED
  are outside the prover.
* `BytesConserved` of `WaitSet`: it concatenates the answers of a table in an
  arbitrary order, with the library's fold over functions, whose definition by choice
  the provers do not unfold.
* `OrderKept` of `WaitSet`: it needs, over `KInv`, an invariant on the order of the
  bytes in the reader's channel, the buffer, the retained answer and the selection
  under way.  That is not done.
* The refinement for programs with pause and resume.
* The scheduler's index properties for programs with self-sends and snapshots,
  where they do not hold in general.

## 6. Not modelled

`PROJECT.json` lists every part with its reason.  The nearest next steps: drive and
routed requests, the snapshot cut with a failure half way, revisions of the code
cache that share slots, file and output workers of the host, heap slots and graph
copy as sequential algorithms.
