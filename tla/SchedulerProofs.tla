---------------------------- MODULE SchedulerProofs ----------------------------
(***************************************************************************)
(* For any number of procs, any mailbox limit and any budget: the ready    *)
(* queue, the wake index and the event batches of the deterministic loop   *)
(* never lose a task.  First what keeps a wake from being lost: the        *)
(* invariant of the event batches, what one operation of a slice           *)
(* (proc_exec) may change of it, and that every step of the loop keeps it; *)
(* then the queue and its tickets, and the theorems.                       *)
(***************************************************************************)
EXTENDS Scheduler, FiniteSetTheorems, NaturalsInduction, WellFoundedInduction, TLAPS

------------------------------------------------------------------------------
(* The inductive invariant of the wakes. *)

(* The key's condition holds: whoever waits on it would not block again. *)
KeyReady(w) ==
    CASE w[1] = 0 -> queued[w[2]] > 0 \/ closed[w[2]]
      [] w[1] = 1 -> Terminal(w[2]) \/ closed[w[2]] \/ queued[w[2]] < MailboxLimit
      [] OTHER -> Terminal(w[2])

InDirect(w) == \E i \in DOMAIN direct : direct[i] = w

(* Outside a slice and its batch only a completion that could not be       *)
(* installed leaves events: those of a faulted machine's end.              *)
FaultWakes == \A w \in wakes : w[1] \in {1, 2} /\ state[w[2]] = "faulted"

(* What the loop holds at each place. *)
LoopShape ==
    /\ pc \in {"poll", "pick", "returned"} => removed = {} /\ FaultWakes /\ exit = None
    /\ pc # "drain" => woken = {} /\ direct = <<>>
    /\ pc = "slice" =>
         /\ exit = None
         /\ state[current] \in {"ready", "blocked"}
         /\ current = Root \/ (current \in procs /\ ~paused[current])

(* A blocked machine keeps an operation that blocks. *)
RequestsFit ==
    \A t \in Tasks : state[t] = "blocked" => request[t].op \in {"send", "recv", "done"}

TInv == TypeOK /\ RequestsFit

(* No proc blocks on its own mailbox. *)
NoSelfSend ==
    \A t \in Tasks :
        (state[t] = "blocked" /\ request[t].op = "send") => request[t].to # t

(* The exit still to install tells the state of the task. *)
ExitFits ==
    (pc = "drain" /\ exit # None) =>
        \/ exit = Yielded /\ state[current] = "ready"
        \/ exit = Waiting /\ state[current] = "waiting"
        \/ /\ exit = Blocked(BlockWakeKey(current, request[current]))
           /\ state[current] = "blocked" /\ ~BlockReady(current)

(* A wake that is under way is for a condition that holds. *)
WakesJustified ==
    /\ \A w \in wakes : KeyReady(w)
    /\ \A w \in WakeKeys : InDirect(w) => KeyReady(w)
    /\ \A v \in woken : KeyReady(v.wake)

(* While a slice runs, nobody but its task receives from the task's        *)
(* mailbox, and the task does not refill it.                               *)
SliceWakes ==
    pc = "slice" =>
        /\ Receive(current) \notin wakes
        /\ \A u \in Tasks : Send(u) \in wakes =>
               u = current \/ Terminal(u) \/ closed[u]

(* A removal is final, or the task comes back in the same batch. *)
RemovedFits ==
    \A t \in removed : t \in readied \/ Terminal(t) \/ (t # Root /\ t \notin procs)

(* The wake of key w will find its waiters. *)
UnderWay(t, w) == w \in wakes \/ InDirect(w) \/ [wake |-> w, task |-> t] \in woken

(* Every machine that could run now or after a wake has its place. *)
HasPlace(t) ==
    \/ IsQueued(t)
    \/ t = current /\ pc = "slice"
    \/ t = current /\ pc = "drain" /\ exit # None
    \/ t \in readied /\ pc \in {"slice", "drain"}
    \/ /\ state[t] = "blocked" /\ tasks[t] = Blocked(BlockWakeKey(t, request[t]))
       /\ BlockReady(t) => UnderWay(t, BlockWakeKey(t, request[t]))
    \/ state[t] = "blocked" /\ state[request[t].to] = "faulted"

Covered == \A t \in Tasks : Status(t) \in {"ready", "blocked"} => HasPlace(t)

(* No program uses snapshots or hands a proc its own handle: either may    *)
(* leave a wake for a condition that does not hold when the wake is served.*)
PlainOps == "self" \notin Ops /\ "snapshot" \notin Ops

WInv == PlainOps /\ TInv /\ LoopShape /\ NoSelfSend /\ ExitFits /\ WakesJustified /\ SliceWakes
         /\ RemovedFits /\ BlockedIsIndexed /\ Covered

------------------------------------------------------------------------------
(* Requests, keys and index entries. *)

(* No wake call is left to make. *)
LEMMA NoDirect ==
  /\ direct = <<>> => \A w : ~InDirect(w)
  /\ direct' = <<>> => \A w : ~InDirect(w)'
  BY DEF InDirect

LEMMA TaskFacts == Root \in Tasks /\ Procs \subseteq Tasks /\ Root \notin Procs
  BY ProcsPositive, Zenon DEF Tasks, Root

LEMMA KeyTypes ==
  ASSUME NEW t \in Tasks, NEW r \in Requests \cup {NoRequest}
  PROVE  /\ {Receive(t), Send(t), Done(t), BlockWakeKey(t, r)} \subseteq WakeKeys
         /\ r.to \in Tasks
<1>1. \A u \in Tasks : {Receive(u), Send(u), Done(u)} \subseteq WakeKeys
  BY DEF Receive, Send, Done, WakeKeys
<1>2. r.to \in Tasks
  BY TaskFacts DEF Requests, NoRequest
<1>3. BlockWakeKey(t, r) \in {Receive(t), Send(r.to), Done(r.to)}
  BY Zenon DEF BlockWakeKey
<1> QED BY <1>1, <1>2, <1>3, Zenon

(* The shape of an index entry. *)
LEMMA EntryShapes ==
  ASSUME IndexTypes, NEW t \in Tasks
  PROVE  /\ IsQueued(t) => tasks[t][2] \in Tickets /\ tasks[t] = Queued(tasks[t][2])
         /\ IsBlocked(t) => tasks[t][2] \in WakeKeys /\ tasks[t] = Blocked(tasks[t][2])
  BY DEF IndexTypes, IsQueued, IsBlocked, Queued, Blocked, None, Running, Waiting

LEMMA WithoutTypes ==
  ASSUME IndexTypes, NEW t \in Tasks
  PROVE  /\ BlockedWithout(t) \in [WakeKeys -> SUBSET Tasks]
         /\ WaitingWithout(t) \subseteq Tasks
         /\ \A w \in WakeKeys : BlockedWithout(t)[w] \subseteq blocked[w]
         /\ \A w \in WakeKeys : \A u \in Tasks \ {t} :
                u \in blocked[w] => u \in BlockedWithout(t)[w]
  BY EntryShapes, Zenon DEF IndexTypes, BlockedWithout, WaitingWithout

(* Types of the world, but for the budget. *)
ExecTypes ==
    /\ state \in [Tasks -> {"empty", "ready", "blocked", "waiting", "done", "faulted"}]
    /\ request \in [Tasks -> Requests \cup {NoRequest}]
    /\ queued \in [Tasks -> 0..MailboxLimit]
    /\ closed \in [Tasks -> BOOLEAN]
    /\ paused \in [Tasks -> BOOLEAN]
    /\ procs \subseteq Procs
    /\ completed \subseteq Tasks
    /\ removed \subseteq Tasks /\ wakes \subseteq WakeKeys /\ readied \subseteq Tasks

LEMMA WorldIsExec == WorldTypes <=> ExecTypes /\ budget \in [Tasks -> Nat]
  BY Zenon DEF WorldTypes, ExecTypes

(* A request an operation is performed for. *)
LEMMA ExecRequest ==
  ASSUME NEW t \in Tasks, NEW r \in Requests \cup {NoRequest}, ProcExec(t, r)
  PROVE  r \in Requests /\ r.to \in Tasks
<1>1. r # NoRequest
  BY DEF NoRequest, ProcExec, ProcSend, ProcClose, ProcRecv, ProcDone, ProcSpawn, ProcPause,
         ProcResume, RunHeld, Snapshot, HostStart
<1> QED BY <1>1, Zenon DEF Requests

LEMMA PerformRequest ==
  ASSUME NEW t \in Tasks, NEW op, NEW u \in Targets(t, op)
  PROVE  /\ u \in Tasks
         /\ op \notin {"recv", "host"} => u \in Procs
  BY TaskFacts, Zenon DEF Targets, Handles, Spawned, Tasks

LEMMA KeyForms ==
  /\ \A w \in WakeKeys : \E u \in Tasks : w = Receive(u) \/ w = Send(u) \/ w = Done(u)
  /\ \A u, v : /\ Receive(u) # Send(v) /\ Receive(u) # Done(v) /\ Send(u) # Done(v)
               /\ Receive(u) = Receive(v) => u = v
               /\ Send(u) = Send(v) => u = v
               /\ Done(u) = Done(v) => u = v
<1>1. ASSUME NEW w \in WakeKeys
      PROVE  \E u \in Tasks : w = Receive(u) \/ w = Send(u) \/ w = Done(u)
  <2>1. PICK lane \in 0..2, u \in Tasks : w = <<lane, u>>
    BY DEF WakeKeys
  <2>2. lane = 0 \/ lane = 1 \/ lane = 2
    OBVIOUS
  <2> QED BY <2>1, <2>2, Zenon DEF Receive, Send, Done
<1> QED BY <1>1 DEF Receive, Send, Done

LEMMA KeyConditions ==
  ASSUME NEW u \in Tasks
  PROVE  /\ KeyReady(Receive(u)) <=> (queued[u] > 0 \/ closed[u])
         /\ KeyReady(Send(u)) <=> (Terminal(u) \/ closed[u] \/ queued[u] < MailboxLimit)
         /\ KeyReady(Done(u)) <=> Terminal(u)
  BY DEF KeyReady, Receive, Send, Done

(* A blocked machine would go on exactly when the condition of its key     *)
(* holds.                                                                  *)
LEMMA BlockReadyIsKeyReady ==
  ASSUME WorldTypes, RequestsFit, NEW t \in Tasks, state[t] = "blocked"
  PROVE  BlockReady(t) <=> KeyReady(BlockWakeKey(t, request[t]))
<1>1. request[t].op \in {"send", "recv", "done"}
  BY Zenon DEF RequestsFit
<1>2. request[t].to \in Tasks
  BY KeyTypes, Zenon DEF WorldTypes
<1>3. CASE request[t].op = "recv"
  BY <1>3, KeyConditions, Zenon DEF BlockReady, BlockWakeKey
<1>4. CASE request[t].op = "send"
  <2>1. closed[request[t].to] \in BOOLEAN
    BY <1>2, Zenon DEF WorldTypes
  <2> QED BY <1>2, <1>4, <2>1, KeyConditions, Zenon DEF BlockReady, BlockWakeKey, Accepts
<1>5. CASE request[t].op = "done"
  BY <1>2, <1>5, KeyConditions, Zenon DEF BlockReady, BlockWakeKey
<1> QED BY <1>1, <1>3, <1>4, <1>5, Zenon

(* What the status of a machine says. *)
LEMMA StatusCases ==
  ASSUME NEW t \in Tasks
  PROVE  /\ Status(t) = "blocked" => state[t] = "blocked" /\ ~BlockReady(t)
         /\ Status(t) = "ready" =>
               state[t] \notin {"empty", "done", "faulted", "waiting"}
               /\ (state[t] = "blocked" => BlockReady(t))
         /\ Status(t) \in {"ready", "blocked"} <=>
               /\ ~Terminal(t) /\ state[t] # "empty" /\ state[t] # "waiting"
               /\ t = Root \/ (t \in procs /\ ~paused[t])
  BY Zenon DEF Status, Terminal

------------------------------------------------------------------------------
(* What an operation may change. *)

(***************************************************************************)
(* What an operation of machine c may do to the others, as far as the      *)
(* index is concerned: whoever it makes able to run is named by an event.  *)
(***************************************************************************)

Bystander(u) ==
    /\ request'[u] = request[u]
    /\ \/ state'[u] = state[u]
       \/ state[u] = "empty" /\ state'[u] = "ready" /\ u \in readied'
       \/ paused[u] /\ state[u] = "ready" /\ state'[u] = "done"
    /\ \/ paused'[u] = paused[u] /\ (u \in procs' <=> u \in procs)
       \/ u \in readied'
       \/ u # Root /\ u \notin procs'

Actor(c) ==
    /\ state'[c] \in {"ready", "waiting", "blocked"}
    /\ paused'[c] = paused[c] /\ (c \in procs' <=> c \in procs)
    /\ state'[c] = "blocked" => ~BlockReady(c)'

EventsGrow ==
    /\ wakes \subseteq wakes' /\ readied \subseteq readied' /\ removed \subseteq removed'
    /\ \A u \in removed' \ removed : u # Root /\ u \notin procs'

WakesTold == \A w \in WakeKeys : KeyReady(w)' => KeyReady(w) \/ w \in wakes'

Effects(c) ==
    /\ \A u \in Tasks \ {c} : Bystander(u)
    /\ Actor(c) /\ EventsGrow /\ WakesTold

(* Keys whose condition does not depend on what an operation left alone. *)
LEMMA ToldByParts ==
  ASSUME WorldTypes, ExecTypes',
         \A u \in Tasks : /\ Terminal(u)' => Terminal(u) \/ {Send(u), Done(u)} \subseteq wakes'
                          /\ closed'[u] => closed[u] \/ {Receive(u), Send(u)} \subseteq wakes'
                          /\ queued'[u] > 0 => queued[u] > 0 \/ Receive(u) \in wakes'
                          /\ queued'[u] < MailboxLimit =>
                                queued[u] < MailboxLimit \/ Send(u) \in wakes'
  PROVE  WakesTold
<1> SUFFICES ASSUME NEW w \in WakeKeys, KeyReady(w)', ~KeyReady(w) PROVE w \in wakes'
  BY Zenon DEF WakesTold
<1>1. PICK u \in Tasks : w = Receive(u) \/ w = Send(u) \/ w = Done(u)
  BY KeyForms, Zenon
<1>2. CASE w = Receive(u)
  BY <1>2 DEF KeyReady, Receive
<1>3. CASE w = Send(u)
  BY <1>3 DEF KeyReady, Send
<1>4. CASE w = Done(u)
  BY <1>4 DEF KeyReady, Done
<1> QED BY <1>1, <1>2, <1>3, <1>4, Zenon

(* An operation that answers or blocks its machine and leaves every other  *)
(* machine's state alone.                                                  *)
LEMMA OneMachine ==
  ASSUME ExecTypes, NEW c \in Tasks, NEW r \in Requests, state[c] \in {"ready", "blocked"},
         Answer(c) \/ BlockMachine(c, r)
  PROVE  /\ \A u \in Tasks \ {c} : state'[u] = state[u] /\ request'[u] = request[u]
         /\ state'[c] \in {"ready", "blocked"}
         /\ \A u \in Tasks : Terminal(u)' <=> Terminal(u)
         /\ state'[c] = "blocked" => BlockMachine(c, r) /\ request'[c] = r
  BY DEF ExecTypes, Answer, BlockMachine, Terminal

LEMMA SendEffects ==
  ASSUME WorldTypes, ExecTypes', NEW c \in Tasks, NEW r \in Requests,
         state[c] \in {"ready", "blocked"}, r.to \in Tasks, r.to # c, ProcSend(c, r)
  PROVE  Effects(c)
<1> ExecTypes
  BY WorldIsExec, Zenon
<1>1. Answer(c) \/ BlockMachine(c, r)
  BY Zenon DEF ProcSend
<1>2. \A u \in Tasks \ {c} : Bystander(u)
  BY <1>1, OneMachine DEF ProcSend, Bystander
<1>3. EventsGrow
  BY Zenon DEF ProcSend, EventsGrow, ExecTypes
<1>4. Actor(c)
  <2> SUFFICES ASSUME state'[c] = "blocked" PROVE ~BlockReady(c)'
    BY <1>1, OneMachine, Zenon DEF ProcSend, Actor
  <2>1. request'[c] = r
    BY <1>1, OneMachine, Zenon
  <2>2. ~Terminal(r.to) /\ ~closed[r.to] /\ ~Accepts(r.to) /\ UNCHANGED <<queued, closed>>
    BY Zenon DEF ProcSend, Answer, ExecTypes
  <2>3. ~Terminal(r.to)'
    BY <1>1, <2>2, OneMachine, Zenon
  <2> QED BY <2>1, <2>2, <2>3, Zenon DEF BlockReady, Accepts, ProcSend
<1>5. WakesTold
  <2> SUFFICES ASSUME NEW u \in Tasks
               PROVE  /\ queued'[u] > 0 => queued[u] > 0 \/ Receive(u) \in wakes'
                      /\ queued'[u] < MailboxLimit =>
                                queued[u] < MailboxLimit \/ Send(u) \in wakes'
    BY <1>1, OneMachine, ToldByParts, Zenon DEF ProcSend
  <2> QED BY LimitIsNat DEF ProcSend, ExecTypes
<1> QED BY <1>2, <1>3, <1>4, <1>5, Zenon DEF Effects

LEMMA CloseEffects ==
  ASSUME WorldTypes, ExecTypes', NEW c \in Tasks, NEW r \in Requests,
         state[c] \in {"ready", "blocked"}, r.to \in Tasks, ProcClose(c, r)
  PROVE  Effects(c)
<1> ExecTypes
  BY WorldIsExec, Zenon
<1>1. Answer(c)
  BY Zenon DEF ProcClose
<1>2. \A u \in Tasks \ {c} : Bystander(u)
  BY <1>1, OneMachine, Zenon DEF ProcClose, Bystander
<1>3. EventsGrow
  BY Zenon DEF ProcClose, EventsGrow, ExecTypes
<1>4. Actor(c)
  BY <1>1, Zenon DEF ProcClose, Actor, Answer, ExecTypes
<1>5. WakesTold
  <2> SUFFICES ASSUME NEW u \in Tasks
               PROVE  closed'[u] => closed[u] \/ {Receive(u), Send(u)} \subseteq wakes'
    BY <1>1, OneMachine, ToldByParts, Zenon DEF ProcClose
  <2> QED BY Zenon DEF ProcClose, ExecTypes
<1> QED BY <1>2, <1>3, <1>4, <1>5, Zenon DEF Effects

LEMMA RecvEffects ==
  ASSUME WorldTypes, ExecTypes', NEW c \in Tasks, NEW r \in Requests,
         state[c] \in {"ready", "blocked"}, ProcRecv(c, r)
  PROVE  Effects(c)
<1> ExecTypes
  BY WorldIsExec, Zenon
<1>1. Answer(c) \/ BlockMachine(c, r)
  BY Zenon DEF ProcRecv
<1>2. \A u \in Tasks \ {c} : Bystander(u)
  BY <1>1, OneMachine DEF ProcRecv, Bystander
<1>3. EventsGrow
  BY Zenon DEF ProcRecv, EventsGrow, ExecTypes
<1>4. Actor(c)
  <2> SUFFICES ASSUME state'[c] = "blocked" PROVE ~BlockReady(c)'
    BY <1>1, OneMachine, Zenon DEF ProcRecv, Actor
  <2>1. request'[c] = r
    BY <1>1, OneMachine, Zenon
  <2>2. queued[c] = 0 /\ ~closed[c] /\ UNCHANGED <<queued, closed>>
    BY Zenon DEF ProcRecv, Answer, ExecTypes
  <2> QED BY <2>1, <2>2 DEF BlockReady, ProcRecv
<1>5. WakesTold
  <2> SUFFICES ASSUME NEW u \in Tasks
               PROVE  /\ queued'[u] > 0 => queued[u] > 0 \/ Receive(u) \in wakes'
                      /\ queued'[u] < MailboxLimit =>
                                queued[u] < MailboxLimit \/ Send(u) \in wakes'
    BY <1>1, OneMachine, ToldByParts, Zenon DEF ProcRecv
  <2> QED BY LimitIsNat, Zenon DEF ProcRecv, ExecTypes
<1> QED BY <1>2, <1>3, <1>4, <1>5, Zenon DEF Effects

LEMMA DoneEffects ==
  ASSUME WorldTypes, ExecTypes', NEW c \in Tasks, NEW r \in Requests,
         state[c] \in {"ready", "blocked"}, r.to \in Tasks, ProcDone(c, r)
  PROVE  Effects(c)
<1> ExecTypes
  BY WorldIsExec, Zenon
<1>1. Answer(c) \/ BlockMachine(c, r)
  BY Zenon DEF ProcDone
<1>2. \A u \in Tasks \ {c} : Bystander(u)
  BY <1>1, OneMachine DEF ProcDone, Bystander
<1>3. EventsGrow
  BY Zenon DEF ProcDone, EventsGrow, ExecTypes
<1>4. Actor(c)
  <2> SUFFICES ASSUME state'[c] = "blocked" PROVE ~BlockReady(c)'
    BY <1>1, OneMachine, Zenon DEF ProcDone, Actor
  <2>1. request'[c] = r /\ ~Terminal(r.to)
    BY <1>1, OneMachine DEF ProcDone, Answer, ExecTypes
  <2>2. ~Terminal(r.to)'
    BY <1>1, <2>1, OneMachine, Zenon
  <2> QED BY <2>1, <2>2, Zenon DEF BlockReady, ProcDone
<1>5. WakesTold
  BY <1>1, OneMachine, ToldByParts, Zenon DEF ProcDone
<1> QED BY <1>2, <1>3, <1>4, <1>5, Zenon DEF Effects

LEMMA SpawnEffects ==
  ASSUME WorldTypes, ExecTypes', NEW c \in Tasks, NEW r \in Requests,
         state[c] \in {"ready", "blocked"}, r.to \in Procs, ProcSpawn(c, r)
  PROVE  Effects(c)
<1> r.to \in Tasks /\ r.to # c /\ ExecTypes
  BY WorldIsExec, TaskFacts, Zenon DEF ProcSpawn
<1>1. /\ \A u \in Tasks \ {c, r.to} : state'[u] = state[u]
      /\ state[r.to] = "empty" /\ state'[r.to] = "ready" /\ state'[c] = "ready"
      /\ r.to \in readied'
  BY DEF ProcSpawn, ExecTypes
<1>2. \A u \in Tasks \ {c} : Bystander(u)
  BY <1>1, Zenon DEF ProcSpawn, Bystander
<1>3. EventsGrow
  BY Zenon DEF ProcSpawn, EventsGrow, ExecTypes
<1>4. Actor(c)
  BY <1>1, Zenon DEF ProcSpawn, Actor
<1>5. WakesTold
  <2> \A u \in Tasks : Terminal(u)' => Terminal(u)
    BY <1>1, Zenon DEF Terminal
  <2> QED BY ToldByParts, Zenon DEF ProcSpawn
<1> QED BY <1>2, <1>3, <1>4, <1>5, Zenon DEF Effects

LEMMA PauseEffects ==
  ASSUME WorldTypes, ExecTypes', NEW c \in Tasks, NEW r \in Requests,
         state[c] \in {"ready", "blocked"}, r.to \in Procs, ProcPause(c, r)
  PROVE  Effects(c)
<1> r.to \in Tasks /\ r.to # Root /\ ExecTypes
  BY WorldIsExec, TaskFacts, Zenon DEF ProcPause
<1>1. Answer(c)
  BY Zenon DEF ProcPause
<1>2. \A u \in Tasks \ {c} : Bystander(u)
  BY <1>1, OneMachine DEF ProcPause, Bystander, ExecTypes
<1>3. EventsGrow
  BY Zenon DEF ProcPause, EventsGrow, ExecTypes
<1>4. Actor(c)
  BY <1>1, OneMachine DEF ProcPause, Actor, Answer, ExecTypes
<1>5. WakesTold
  BY <1>1, OneMachine, ToldByParts, Zenon DEF ProcPause
<1> QED BY <1>2, <1>3, <1>4, <1>5, Zenon DEF Effects

LEMMA ResumeEffects ==
  ASSUME WorldTypes, ExecTypes', NEW c \in Tasks, NEW r \in Requests, r.to # c,
         state[c] \in {"ready", "blocked"}, r.to \in Procs, ProcResume(c, r)
  PROVE  Effects(c)
<1> r.to \in Tasks /\ r.to # Root /\ ExecTypes
  BY WorldIsExec, TaskFacts, Zenon DEF ProcResume
<1>1. Answer(c)
  BY Zenon DEF ProcResume
<1>2. \A u \in Tasks \ {c} : Bystander(u)
  BY <1>1, OneMachine DEF ProcResume, Bystander, ExecTypes
<1>3. EventsGrow
  BY Zenon DEF ProcResume, EventsGrow, ExecTypes
<1>4. Actor(c)
  BY <1>1, OneMachine DEF ProcResume, Actor, Answer, ExecTypes
<1>5. WakesTold
  BY <1>1, OneMachine, ToldByParts, Zenon DEF ProcResume
<1> QED BY <1>2, <1>3, <1>4, <1>5, Zenon DEF Effects

LEMMA HeldEffects ==
  ASSUME WorldTypes, ExecTypes', NEW c \in Tasks, NEW r \in Requests, r.to # c,
         state[c] \in {"ready", "blocked"}, r.to \in Tasks, RunHeld(c, r)
  PROVE  Effects(c)
<1> ExecTypes
  BY WorldIsExec, Zenon
<1>1. /\ \A u \in Tasks \ {c, r.to} : state'[u] = state[u]
      /\ state[r.to] = "ready" /\ paused[r.to] /\ state'[r.to] = "done" /\ state'[c] = "ready"
      /\ {Done(r.to), Send(r.to)} \subseteq wakes'
  BY DEF RunHeld, ExecTypes
<1>2. \A u \in Tasks \ {c} : Bystander(u)
  BY <1>1, Zenon DEF RunHeld, Bystander
<1>3. EventsGrow
  BY Zenon DEF RunHeld, EventsGrow, ExecTypes
<1>4. Actor(c)
  BY <1>1, Zenon DEF RunHeld, Actor
<1>5. WakesTold
  <2> \A u \in Tasks : Terminal(u)' => Terminal(u) \/ {Send(u), Done(u)} \subseteq wakes'
    BY <1>1, Zenon DEF Terminal
  <2> QED BY ToldByParts, Zenon DEF RunHeld
<1> QED BY <1>2, <1>3, <1>4, <1>5, Zenon DEF Effects

LEMMA HostEffects ==
  ASSUME WorldTypes, ExecTypes', NEW c \in Tasks, NEW r \in Requests,
         state[c] \in {"ready", "blocked"}, HostStart(c, r)
  PROVE  Effects(c)
<1> ExecTypes
  BY WorldIsExec, Zenon
<1>1. \A u \in Tasks \ {c} : Bystander(u)
  BY Zenon DEF HostStart, Bystander, ExecTypes
<1>2. EventsGrow
  BY Zenon DEF HostStart, EventsGrow, ExecTypes
<1>3. Actor(c)
  BY Zenon DEF HostStart, Actor, ExecTypes
<1>4. WakesTold
  <2> \A u \in Tasks : Terminal(u)' => Terminal(u)
    BY Zenon DEF Terminal, HostStart, ExecTypes
  <2> QED BY ToldByParts, Zenon DEF HostStart
<1> QED BY <1>1, <1>2, <1>3, <1>4, Zenon DEF Effects

(* A request of a plain program names another machine, unless it is for    *)
(* the machine's own mailbox or for the host.                              *)
PlainRequest(c, r) ==
    /\ r \in Requests /\ r.to \in Tasks
    /\ r.op \in {"spawn", "resume", "pause", "held", "close"} => r.to \in Procs
    /\ r.op \notin {"recv", "host", "done"} => r.to # c
    /\ r.op # "snapshot"

LEMMA ExecEffects ==
  ASSUME WorldTypes, ExecTypes', NEW c \in Tasks, NEW r, PlainRequest(c, r),
         state[c] \in {"ready", "blocked"}, ProcExec(c, r)
  PROVE  Effects(c)
<1> r \in Requests /\ r.to \in Tasks /\ r.op # "snapshot"
  BY Zenon DEF PlainRequest
<1>1. CASE ProcSend(c, r)
  BY <1>1, SendEffects, Zenon DEF PlainRequest, ProcSend
<1>2. CASE ProcClose(c, r) \/ ProcRecv(c, r) \/ ProcDone(c, r) \/ HostStart(c, r)
  BY <1>2, CloseEffects, RecvEffects, DoneEffects, HostEffects, Zenon
<1>3. CASE ProcSpawn(c, r)
  BY <1>3, SpawnEffects, Zenon DEF PlainRequest, ProcSpawn
<1>4. CASE ProcPause(c, r)
  BY <1>4, PauseEffects, Zenon DEF PlainRequest, ProcPause
<1>5. CASE ProcResume(c, r)
  BY <1>5, ResumeEffects, Zenon DEF PlainRequest, ProcResume
<1>6. CASE RunHeld(c, r)
  BY <1>6, HeldEffects, Zenon DEF PlainRequest, RunHeld
<1>7. ~Snapshot(c, r)
  BY Zenon DEF Snapshot
<1> QED BY <1>1, <1>2, <1>3, <1>4, <1>5, <1>6, <1>7, Zenon DEF ProcExec

LEMMA PlainOperation ==
  ASSUME PlainOps, WorldTypes, RequestsFit, NoSelfSend, NEW c \in Tasks,
         Perform(c) \/ CompleteBlocked(c)
  PROVE  \E r : PlainRequest(c, r) /\ ProcExec(c, r)
<1>1. CASE Perform(c)
  <2>0. PICK op \in Ops \ {"self"} :
             \E u \in Targets(c, op) : ProcExec(c, [op |-> op, to |-> u])
    BY <1>1, Zenon DEF Perform
  <2>1. PICK u \in Targets(c, op) : ProcExec(c, [op |-> op, to |-> u])
    BY <2>0, Zenon
  <2> DEFINE r == [op |-> op, to |-> u]
  <2>2. r.op = op /\ r.to = u
    BY Zenon
  <2>3. op \in {"send", "close", "done", "spawn", "pause", "resume", "held", "recv", "host"}
    BY <2>1, <2>2, Zenon DEF ProcExec, ProcSend, ProcClose, ProcRecv, ProcDone, ProcSpawn, ProcPause,
         ProcResume, RunHeld, Snapshot, HostStart, PlainOps
  <2>4. u \in Tasks /\ (op \notin {"recv", "host"} => u \in Procs)
    BY PerformRequest, Zenon
  <2>5. op \notin {"recv", "host", "spawn"} => u # c
    BY Zenon DEF Targets, Handles, PlainOps
  <2>6. op = "spawn" => u # c
    BY <1>1, Zenon DEF Targets, Spawned, Perform
  <2>7. r \in Requests
    BY <2>3, <2>4, Zenon DEF Requests
  <2> QED BY <2>1, <2>2, <2>3, <2>4, <2>5, <2>6, <2>7, Zenon DEF PlainRequest
<1>2. CASE CompleteBlocked(c)
  <2>1. ProcExec(c, request[c]) /\ state[c] = "blocked"
    BY <1>2, Zenon DEF CompleteBlocked
  <2>2. request[c] \in Requests /\ request[c].to \in Tasks
    BY <2>1, ExecRequest, Zenon DEF WorldTypes
  <2>3. request[c].op \in {"send", "recv", "done"}
    BY <2>1, Zenon DEF RequestsFit
  <2>4. request[c].op = "send" => request[c].to # c
    BY <2>1, Zenon DEF NoSelfSend
  <2> QED BY <2>1, <2>2, <2>3, <2>4, Zenon DEF PlainRequest
<1> QED BY <1>1, <1>2, Zenon

(* The wakes of the slice of c so far. *)
SliceJustified(c) ==
    /\ \A w \in wakes : KeyReady(w)
    /\ Receive(c) \notin wakes
    /\ \A u \in Tasks : Send(u) \in wakes => u = c \/ Terminal(u) \/ closed[u]

(* The wakes of a slice stay justified when every machine that ended and   *)
(* every mailbox that closed stays so, no other mailbox is emptied and     *)
(* the own one is not filled.                                              *)
LEMMA JustifiedByParts ==
  ASSUME WorldTypes, ExecTypes', NEW c \in Tasks, SliceJustified(c),
         \A u \in Tasks : Terminal(u) => Terminal(u)',
         \A u \in Tasks : closed[u] => closed'[u],
         \A u \in Tasks \ {c} : queued[u] > 0 => queued'[u] > 0,
         queued[c] < MailboxLimit => queued'[c] < MailboxLimit,
         \A w \in wakes' \ wakes : KeyReady(w)',
         Receive(c) \notin wakes',
         \A u \in Tasks : Send(u) \in wakes' \ wakes => u = c \/ Terminal(u)' \/ closed'[u]
  PROVE  SliceJustified(c)'
<1>1. ASSUME NEW w \in wakes, w \in WakeKeys PROVE KeyReady(w)'
  <2>1. KeyReady(w) /\ w # Receive(c)
    BY Zenon DEF SliceJustified
  <2>2. PICK u \in Tasks : w = Receive(u) \/ w = Send(u) \/ w = Done(u)
    BY <1>1, KeyForms, Zenon
  <2>3. CASE w = Receive(u)
    BY <2>1, <2>3 DEF KeyReady, Receive
  <2>4. CASE w = Send(u)
    <3>1. u = c \/ Terminal(u) \/ closed[u]
      BY <2>4, Zenon DEF SliceJustified
    <3> QED BY <2>1, <2>4, <3>1 DEF KeyReady, Send
  <2>5. CASE w = Done(u)
    BY <2>1, <2>5 DEF KeyReady, Done
  <2> QED BY <2>2, <2>3, <2>4, <2>5, Zenon
<1>2. wakes \subseteq WakeKeys
  BY Zenon DEF WorldTypes
<1>3. \A w \in wakes' : KeyReady(w)'
  BY <1>1, <1>2, Zenon
<1>4. \A u \in Tasks : Send(u) \in wakes' => u = c \/ Terminal(u)' \/ closed'[u]
  BY Zenon DEF SliceJustified
<1> QED BY <1>3, <1>4, Zenon DEF SliceJustified

LEMMA ExecJustified ==
  ASSUME WorldTypes, ExecTypes', NEW c \in Tasks, SliceJustified(c), NEW r,
         PlainRequest(c, r), state[c] \in {"ready", "blocked"}, ProcExec(c, r)
  PROVE  SliceJustified(c)'
<1> r \in Requests /\ r.to \in Tasks /\ r.op # "snapshot" /\ ExecTypes
  BY WorldIsExec, Zenon DEF PlainRequest
<1>j. Receive(c) \notin wakes
  BY Zenon DEF SliceJustified
<1>k. \A u : Receive(c) # Send(u) /\ Receive(c) # Done(u) /\ (Receive(c) = Receive(u) => u = c)
  BY KeyForms, Zenon
<1>1. CASE ProcSend(c, r)
  <2>1. Answer(c) \/ BlockMachine(c, r)
    BY <1>1, Zenon DEF ProcSend
  <2>2. r.to # c
    BY <1>1, Zenon DEF ProcSend, PlainRequest
  <2>3. \A u \in Tasks : (queued[u] > 0 => queued'[u] > 0) /\ closed'[u] = closed[u]
    BY <1>1 DEF ProcSend, ExecTypes
  <2>4. queued'[c] = queued[c]
    BY <1>1, <2>2, Zenon DEF ProcSend, ExecTypes
  <2>5. wakes' = wakes \/ (wakes' = wakes \cup {Receive(r.to)} /\ queued'[r.to] > 0)
    BY <1>1 DEF ProcSend, ExecTypes
  <2>6. \A w \in wakes' \ wakes : w = Receive(r.to) /\ queued'[r.to] > 0
    BY <2>5, Zenon
  <2>7. \A w \in wakes' \ wakes : KeyReady(w)'
    BY <2>6 DEF KeyReady, Receive
  <2>8. Receive(c) \notin wakes'
    BY <1>j, <1>k, <2>2, <2>6
  <2>9. \A u \in Tasks : Send(u) \notin wakes' \ wakes
    BY <2>6, KeyForms, Zenon
  <2> QED BY <2>1, <2>3, <2>4, <2>7, <2>8, <2>9, OneMachine, JustifiedByParts, Zenon
<1>2. CASE ProcRecv(c, r)
  <2>1. Answer(c) \/ BlockMachine(c, r)
    BY <1>2, Zenon DEF ProcRecv
  <2>2. \A u \in Tasks : u # c => queued'[u] = queued[u]
    BY <1>2, Zenon DEF ProcRecv, ExecTypes
  <2>3. queued[c] < MailboxLimit => queued'[c] < MailboxLimit
    BY <1>2, LimitIsNat DEF ProcRecv, ExecTypes
  <2>4. wakes' = wakes \/ (wakes' = wakes \cup {Send(c)} /\ queued'[c] < MailboxLimit)
    BY <1>2, LimitIsNat DEF ProcRecv, ExecTypes
  <2>5. \A w \in wakes' \ wakes : w = Send(c) /\ queued'[c] < MailboxLimit
    BY <2>4, Zenon
  <2>6. \A w \in wakes' \ wakes : KeyReady(w)'
    BY <2>5 DEF KeyReady, Send
  <2>7. Receive(c) \notin wakes'
    BY <1>j, <1>k, <2>5, Zenon
  <2>8. \A u \in Tasks : Send(u) \in wakes' \ wakes => u = c
    BY <2>5, KeyForms, Zenon
  <2>9. UNCHANGED closed
    BY <1>2, Zenon DEF ProcRecv
  <2> QED BY <2>1, <2>2, <2>3, <2>6, <2>7, <2>8, <2>9, OneMachine, JustifiedByParts, Zenon
<1>3. CASE ProcClose(c, r)
  <2>1. Answer(c) /\ UNCHANGED queued
    BY <1>3, Zenon DEF ProcClose
  <2>2. \A u \in Tasks : closed[u] => closed'[u]
    BY <1>3, Zenon DEF ProcClose, ExecTypes
  <2>3. r.to # c
    BY <1>3, Zenon DEF ProcClose, PlainRequest
  <2>4. \A w \in wakes' \ wakes : (w = Receive(r.to) \/ w = Send(r.to)) /\ closed'[r.to]
    BY <1>3, Zenon DEF ProcClose, ExecTypes
  <2>5. \A w \in wakes' \ wakes : KeyReady(w)'
    BY <2>4 DEF KeyReady, Send, Receive
  <2>6. Receive(c) \notin wakes'
    BY <1>j, <1>k, <2>3, <2>4
  <2>7. \A u \in Tasks : Send(u) \in wakes' \ wakes => closed'[u]
    BY <2>4, KeyForms, Zenon
  <2> QED BY <2>1, <2>2, <2>5, <2>6, <2>7, OneMachine, JustifiedByParts, Zenon
<1>4. CASE RunHeld(c, r)
  <2>1. \A u \in Tasks : Terminal(u) => Terminal(u)'
    BY <1>4, Zenon DEF RunHeld, ExecTypes, Terminal
  <2>2. Terminal(r.to)' /\ UNCHANGED <<queued, closed>>
    BY <1>4 DEF RunHeld, ExecTypes, Terminal
  <2>3. \A w \in wakes' \ wakes : w = Done(r.to) \/ w = Send(r.to)
    BY <1>4, Zenon DEF RunHeld
  <2>4. \A w \in wakes' \ wakes : KeyReady(w)'
    BY <2>2, <2>3 DEF KeyReady, Send, Done
  <2>5. Receive(c) \notin wakes'
    BY <1>j, <1>k, <2>3, Zenon
  <2>6. \A u \in Tasks : Send(u) \in wakes' \ wakes => Terminal(u)'
    BY <2>2, <2>3, KeyForms, Zenon
  <2> QED BY <2>1, <2>2, <2>4, <2>5, <2>6, JustifiedByParts, Zenon
<1>5. CASE \/ ProcDone(c, r) \/ ProcSpawn(c, r) \/ ProcPause(c, r) \/ ProcResume(c, r)
           \/ HostStart(c, r)
  <2>1. UNCHANGED <<queued, closed, wakes>>
    BY <1>5, Zenon DEF ProcDone, ProcSpawn, ProcPause, ProcResume, HostStart
  <2>2. \A u \in Tasks : Terminal(u) => Terminal(u)'
    BY <1>5 DEF ProcDone, ProcSpawn, ProcPause, ProcResume, HostStart, Answer, BlockMachine,
                ExecTypes, Terminal
  <2> QED BY <1>j, <2>1, <2>2, JustifiedByParts, Zenon
<1>6. ~Snapshot(c, r)
  BY Zenon DEF Snapshot
<1> QED BY <1>1, <1>2, <1>3, <1>4, <1>5, <1>6, Zenon DEF ProcExec

LEMMA ExecNoSelfSend ==
  ASSUME ExecTypes, NoSelfSend, NEW c \in Tasks, NEW r, PlainRequest(c, r), ProcExec(c, r)
  PROVE  NoSelfSend'
<1> r \in Requests /\ r.to \in Tasks /\ r.op # "snapshot"
  BY Zenon DEF PlainRequest
<1>1. Answer(c) => NoSelfSend'
  BY Zenon DEF Answer, NoSelfSend, ExecTypes
<1>2. (BlockMachine(c, r) /\ (r.op = "send" => r.to # c)) => NoSelfSend'
  BY Zenon DEF BlockMachine, NoSelfSend, ExecTypes
<1>3. r.op = "send" => r.to # c
  BY Zenon DEF PlainRequest
<1>4. CASE ProcSend(c, r) \/ ProcRecv(c, r) \/ ProcDone(c, r)
  BY <1>1, <1>2, <1>3, <1>4, Zenon DEF ProcSend, ProcRecv, ProcDone
<1>5. CASE ProcClose(c, r) \/ ProcPause(c, r) \/ ProcResume(c, r) \/ Snapshot(c, r)
  BY <1>5, <1>1, Zenon DEF ProcClose, ProcPause, ProcResume, Snapshot
<1>6. CASE ProcSpawn(c, r) \/ RunHeld(c, r) \/ HostStart(c, r)
  BY <1>6 DEF ProcSpawn, RunHeld, HostStart, NoSelfSend, ExecTypes
<1> QED BY <1>4, <1>5, <1>6, Zenon DEF ProcExec

LEMMA BlockReadyIsKeyReadyNext ==
  ASSUME WorldTypes', RequestsFit', NEW t \in Tasks, state'[t] = "blocked",
         NEW key, key = BlockWakeKey(t, request[t])'
  PROVE  BlockReady(t)' <=> KeyReady(key)'
<1>1. request'[t].op \in {"send", "recv", "done"}
  BY Zenon DEF RequestsFit
<1>2. request'[t].to \in Tasks
  BY TaskFacts DEF WorldTypes, Requests, NoRequest
<1>3. CASE request'[t].op = "recv"
  BY <1>3 DEF BlockReady, BlockWakeKey, KeyReady, Receive
<1>4. CASE request'[t].op = "send"
  <2>1. closed'[request'[t].to] \in BOOLEAN
    BY <1>2, Zenon DEF WorldTypes
  <2> QED BY <1>2, <1>4, <2>1 DEF BlockReady, BlockWakeKey, Accepts, KeyReady, Send
<1>5. CASE request'[t].op = "done"
  BY <1>2, <1>5 DEF BlockReady, BlockWakeKey, KeyReady, Done
<1> QED BY <1>1, <1>3, <1>4, <1>5, Zenon

(* The operation of the current task leaves everyone it affects covered. *)
LEMMA OperationCovers ==
  ASSUME WInv, TInv', NEW c \in Tasks, c = current, pc = "slice",
         state[c] \in {"ready", "blocked"}, Effects(c),
         UNCHANGED <<indexVars, drainVars, current>>,
         \/ pc' = "slice"
         \/ pc' = "drain" /\ exit' # None
  PROVE  Covered'
<1> SUFFICES ASSUME NEW t \in Tasks, Status(t)' \in {"ready", "blocked"} PROVE HasPlace(t)'
  BY Zenon DEF Covered
<1> WorldTypes /\ RequestsFit /\ WorldTypes' /\ RequestsFit'
  BY Zenon DEF WInv, TInv, TypeOK
<1>1. CASE t = c
  BY <1>1, Zenon DEF HasPlace
<1>2. CASE t # c
  <2>1. Bystander(t) /\ EventsGrow /\ WakesTold
    BY <1>2, Zenon DEF Effects
  <2>2. /\ ~Terminal(t)' /\ state'[t] # "empty" /\ state'[t] # "waiting"
        /\ t = Root \/ (t \in procs' /\ ~paused'[t])
    BY Zenon DEF Status, Terminal
  <2>3. CASE t \in readied'
    BY <2>3, Zenon DEF HasPlace
  <2>4. CASE t \notin readied'
    <3>1. state'[t] = state[t] /\ request'[t] = request[t]
      BY <2>1, <2>2, <2>4, Zenon DEF Bystander, Terminal
    <3>2. t = Root \/ (t \in procs /\ ~paused[t])
      BY <2>1, <2>2, <2>4, Zenon DEF Bystander
    <3>3. Status(t) \in {"ready", "blocked"}
      BY <2>2, <3>1, <3>2, Zenon DEF Status, Terminal
    <3>4. HasPlace(t) /\ t \notin readied
      BY <3>3, <2>1, <2>4, Zenon DEF WInv, Covered, EventsGrow
    <3>5. CASE IsQueued(t)
      BY <3>5, Zenon DEF HasPlace, IsQueued, indexVars
    <3>6. CASE /\ state[t] = "blocked" /\ tasks[t] = Blocked(BlockWakeKey(t, request[t]))
               /\ BlockReady(t) => UnderWay(t, BlockWakeKey(t, request[t]))
      <4>1. PICK key \in WakeKeys : key = BlockWakeKey(t, request[t])
        BY KeyTypes, Zenon DEF WorldTypes
      <4>2. BlockWakeKey(t, request[t])' = key
        BY <3>1, <4>1, Zenon DEF BlockWakeKey
      <4>3. BlockReady(t) <=> KeyReady(key)
        BY <3>6, <4>1, BlockReadyIsKeyReady, Zenon
      <4>4. BlockReady(t)' <=> KeyReady(key)'
        BY <3>1, <3>6, <4>2, BlockReadyIsKeyReadyNext, Zenon
      <4>5. UnderWay(t, key) => UnderWay(t, key)'
        BY <2>1, Zenon DEF UnderWay, EventsGrow, InDirect, drainVars
      <4>6. BlockReady(t)' => UnderWay(t, key)'
        BY <2>1, <3>6, <4>1, <4>3, <4>4, <4>5, Zenon DEF WakesTold, UnderWay
      <4> QED BY <3>1, <3>6, <4>1, <4>2, <4>6, Zenon DEF HasPlace, indexVars
    <3>7. CASE state[t] = "blocked" /\ state[request[t].to] = "faulted"
      <4>1. request[t].to \in Tasks
        BY KeyTypes, Zenon DEF WorldTypes
      <4>2. state'[request[t].to] = "faulted"
        BY <3>7, <4>1, Zenon DEF Effects, Bystander
      <4> QED BY <3>1, <3>7, <4>2, Zenon DEF HasPlace
    <3> QED BY <1>2, <3>4, <3>5, <3>6, <3>7, Zenon DEF HasPlace
  <2> QED BY <2>3, <2>4, Zenon
<1> QED BY <1>1, <1>2, Zenon

LEMMA SliceOperationKeeps ==
  ASSUME WInv, TInv', SliceOperation
  PROVE  WInv'
<1> DEFINE c == current
<1> USE DEF WInv
<1>1. /\ pc = "slice" /\ c \in Tasks /\ exit = None /\ woken = {} /\ direct = <<>>
      /\ state[c] \in {"ready", "blocked"}
      /\ c = Root \/ (c \in procs /\ ~paused[c])
  BY Zenon DEF SliceOperation, LoopShape, TInv, TypeOK, LoopTypes
<1>2. WorldTypes /\ RequestsFit /\ ExecTypes /\ ExecTypes'
  BY WorldIsExec, Zenon DEF TInv, TypeOK, WorldTypes, ExecTypes
<1>3. PICK r : PlainRequest(c, r) /\ ProcExec(c, r)
  BY <1>1, <1>2, PlainOperation, Zenon DEF SliceOperation
<1>4. Effects(c)
  BY <1>1, <1>2, <1>3, ExecEffects, Zenon
<1>5. SliceJustified(c)'
  <2>1. SliceJustified(c)
    BY <1>1, Zenon DEF WakesJustified, SliceWakes, SliceJustified
  <2>2. PICK d \in Tasks : d = c
    BY <1>1, Zenon
  <2>3. SliceJustified(d)'
    BY <1>1, <1>2, <1>3, <2>1, <2>2, ExecJustified, Zenon
  <2> QED BY <2>2, <2>3, Zenon DEF SliceOperation
<1>6. NoSelfSend'
  BY <1>1, <1>2, <1>3, ExecNoSelfSend, Zenon
<1>7. /\ UNCHANGED <<indexVars, drainVars, current>>
      /\ state'[c] = "ready" => UNCHANGED <<pc, exit>>
      /\ state'[c] # "ready" =>
           /\ pc' = "drain"
           /\ exit' = IF state'[c] = "waiting" THEN Waiting
                      ELSE Blocked(BlockWakeKey(c, request'[c]))
  BY Zenon DEF SliceOperation, SliceGoesOn
<1>8. PICK d \in Tasks : d = c /\ Actor(d)
  BY <1>1, <1>4, Zenon DEF Effects
<1>9. LoopShape'
  BY <1>1, <1>7, <1>8, Zenon DEF LoopShape, Actor, drainVars
<1>10. ExitFits'
  BY <1>1, <1>7, <1>8, Zenon DEF ExitFits, Actor, BlockWakeKey
<1>11. WakesJustified' /\ SliceWakes'
  <2>1. \A w : ~InDirect(w)'
    BY <1>1, <1>7 DEF InDirect, drainVars
  <2> QED BY <1>1, <1>5, <1>7, <2>1, Zenon DEF WakesJustified, SliceWakes, SliceJustified, drainVars
<1>12. RemovedFits'
  <2> SUFFICES ASSUME NEW t \in removed'
               PROVE  t \in readied' \/ Terminal(t)' \/ (t # Root /\ t \notin procs')
    BY Zenon DEF RemovedFits
  <2>1. CASE t \notin removed
    BY <1>4, <2>1, Zenon DEF Effects, EventsGrow
  <2>2. CASE t \in removed
    <3>1. t \in Tasks
      BY <1>2, <2>2, Zenon DEF ExecTypes
    <3>2. t \in readied \/ Terminal(t) \/ (t # Root /\ t \notin procs)
      BY <2>2, Zenon DEF RemovedFits
    <3>3. CASE t = c
      BY <1>1, <1>4, <3>2, <3>3, Zenon DEF Terminal, Effects, EventsGrow
    <3>4. CASE t # c
      BY <1>4, <3>1, <3>2, <3>4, Zenon DEF Terminal, Effects, EventsGrow, Bystander
    <3> QED BY <3>3, <3>4, Zenon
  <2> QED BY <2>1, <2>2, Zenon
<1>13. BlockedIsIndexed'
  BY <1>7, Zenon DEF BlockedIsIndexed, IsBlocked, indexVars, drainVars
<1>14. Covered'
  <2>1. pc' = "slice" \/ (pc' = "drain" /\ exit' # None)
    BY <1>1, <1>7 DEF Waiting, Blocked, None
  <2> QED BY <1>1, <1>4, <1>7, <2>1, OperationCovers, Zenon
<1> QED BY <1>6, <1>9, <1>10, <1>11, <1>12, <1>13, <1>14, Zenon DEF PlainOps

------------------------------------------------------------------------------
(* The index operations. *)

coreVars == <<state, request, queued, closed, paused, procs>>

LEMMA CoreSame ==
  ASSUME UNCHANGED coreVars
  PROVE  /\ \A t \in Tasks : /\ Status(t)' = Status(t)
                             /\ Terminal(t)' <=> Terminal(t)
                             /\ BlockReady(t)' <=> BlockReady(t)
                             /\ BlockWakeKey(t, request[t])' = BlockWakeKey(t, request[t])
         /\ \A w : KeyReady(w)' <=> KeyReady(w)
         /\ NoSelfSend => NoSelfSend'
<1> USE DEF coreVars
<1>1. \A t : Terminal(t)' <=> Terminal(t)
  BY Zenon DEF Terminal
<1>2. \A t \in Tasks : BlockReady(t)' <=> BlockReady(t)
  BY Zenon DEF BlockReady, Accepts, Terminal
<1>3. \A t \in Tasks : Status(t)' = Status(t)
  BY <1>1, <1>2, Zenon DEF Status
<1>4. \A t \in Tasks : BlockWakeKey(t, request[t])' = BlockWakeKey(t, request[t])
  BY Zenon DEF BlockWakeKey
<1>5. \A w : KeyReady(w)' <=> KeyReady(w)
  BY <1>1, Zenon DEF KeyReady
<1>6. NoSelfSend => NoSelfSend'
  BY Zenon DEF NoSelfSend
<1> QED BY <1>1, <1>2, <1>3, <1>4, <1>5, <1>6, Zenon

(* An index operation on t leaves the entries of the others alone. *)
OthersStay(t) ==
    \A u \in Tasks \ {t} : /\ tasks'[u] = tasks[u]
                           /\ \A w \in WakeKeys : u \in blocked[w] => u \in blocked'[w]

LEMMA IndexOperations ==
  ASSUME IndexTypes, NEW t \in Tasks
  PROVE  /\ Enqueue(t) => OthersStay(t) /\ tasks'[t][1] = "queued"
         /\ \A w \in WakeKeys : Block(t, w) =>
               /\ OthersStay(t) /\ tasks'[t] = Blocked(w)
               /\ tasks[t] = Blocked(w) => blocked' = blocked
               /\ tasks[t] # Blocked(w) => t \in blocked'[w]
         /\ Wait(t) => OthersStay(t) /\ tasks'[t] = Waiting
         /\ DropTask(t) => OthersStay(t) /\ tasks'[t] = None
<1>t. tasks \in [Tasks -> {None, Running, Waiting} \cup {Queued(k) : k \in Tickets}
                             \cup {Blocked(w) : w \in WakeKeys}]
  BY Zenon DEF IndexTypes
<1>1. Enqueue(t) => OthersStay(t) /\ tasks'[t][1] = "queued"
  BY <1>t, WithoutTypes DEF Enqueue, OthersStay, indexVars, Queued, IsQueued
<1>2. ASSUME NEW w \in WakeKeys, Block(t, w)
      PROVE  /\ OthersStay(t) /\ tasks'[t] = Blocked(w)
             /\ tasks[t] = Blocked(w) => blocked' = blocked
             /\ tasks[t] # Blocked(w) => t \in blocked'[w]
  <2>1. CASE tasks[t] = Blocked(w)
    BY <1>2, <2>1, Zenon DEF Block, OthersStay, indexVars
  <2>2. CASE tasks[t] # Blocked(w)
    BY <1>t, <1>2, <2>2, WithoutTypes DEF Block, OthersStay
  <2> QED BY <2>1, <2>2, Zenon
<1>3. Wait(t) => OthersStay(t) /\ tasks'[t] = Waiting
  BY <1>t, WithoutTypes, Zenon DEF Wait, OthersStay, indexVars
<1>4. DropTask(t) => OthersStay(t) /\ tasks'[t] = None
  BY <1>t, WithoutTypes, Zenon DEF DropTask, OthersStay
<1> QED BY <1>1, <1>2, <1>3, <1>4, Zenon

(* refresh gives a task that can run or is blocked the entry of its status.*)
LEMMA RefreshPlaces ==
  ASSUME IndexTypes, WorldTypes, NEW t \in Tasks, Refresh(t)
  PROVE  /\ OthersStay(t)
         /\ Status(t) = "ready" => tasks'[t][1] = "queued"
         /\ Status(t) = "blocked" =>
              LET key == BlockWakeKey(t, request[t])
              IN /\ tasks'[t] = Blocked(key)
                 /\ tasks[t] = Blocked(key) => blocked' = blocked
                 /\ tasks[t] # Blocked(key) => t \in blocked'[key]
         /\ tasks'[t][1] = "blocked" => Status(t) = "blocked"
<1>1. BlockWakeKey(t, request[t]) \in WakeKeys
  BY KeyTypes, Zenon DEF WorldTypes
<1>2. CASE Status(t) = "ready"
  BY <1>2, IndexOperations, Zenon DEF Refresh
<1>3. CASE Status(t) = "blocked"
  BY <1>1, <1>3, IndexOperations, Zenon DEF Refresh
<1>4. CASE Status(t) = "waiting"
  <2>1. OthersStay(t) /\ tasks'[t] = Waiting
    BY <1>4, IndexOperations, Zenon DEF Refresh
  <2> QED BY <1>4, <2>1 DEF Waiting
<1>5. CASE Status(t) \in {"terminal", "dormant"}
  <2>1. OthersStay(t) /\ tasks'[t] = None
    BY <1>5, IndexOperations, Zenon DEF Refresh
  <2> QED BY <1>5, <2>1 DEF None
<1> QED BY <1>2, <1>3, <1>4, <1>5, Zenon DEF Refresh

------------------------------------------------------------------------------
(* The drain loop. *)

(* The parts of the invariant that a step of the drain loop does not touch.*)
LEMMA DrainFrame ==
  ASSUME WInv, TInv', UNCHANGED coreVars, UNCHANGED loopVars, pc = "drain",
         wakes' \subseteq wakes, \A w : InDirect(w)' => InDirect(w),
         \A v \in woken' : v \in woken \/ KeyReady(v.wake),
         removed' \subseteq removed, removed # {} => readied \subseteq readied'
  PROVE  /\ PlainOps' /\ LoopShape' /\ NoSelfSend' /\ ExitFits' /\ WakesJustified'
         /\ SliceWakes' /\ RemovedFits'
<1> USE DEF WInv, loopVars
<1>1. PlainOps' /\ LoopShape' /\ SliceWakes'
  BY Zenon DEF PlainOps, LoopShape, SliceWakes
<1>2. NoSelfSend'
  BY CoreSame, Zenon
<1>3. ExitFits'
  <2> current \in Tasks
    BY Zenon DEF TInv, TypeOK, LoopTypes
  <2> QED BY CoreSame, Zenon DEF ExitFits, coreVars
<1>4. WakesJustified'
  BY CoreSame, Zenon DEF WakesJustified
<1>5. RemovedFits'
  <2> removed \subseteq Tasks
    BY Zenon DEF TInv, TypeOK, WorldTypes
  <2> QED BY CoreSame, Zenon DEF RemovedFits, coreVars
<1> QED BY <1>1, <1>2, <1>3, <1>4, <1>5, Zenon

LEMMA WakeOneKeeps ==
  ASSUME WInv, TInv', WakeOne
  PROVE  WInv'
<1> USE DEF WInv
<1>1. PICK v \in woken :
         /\ woken' = woken \ {v}
         /\ IF tasks[v.task] = Blocked(v.wake) THEN Refresh(v.task) ELSE UNCHANGED indexVars
  BY Zenon DEF WakeOne
<1>2. /\ WorldTypes /\ IndexTypes /\ LoopTypes /\ RequestsFit
      /\ UNCHANGED worldVars /\ UNCHANGED loopVars /\ UNCHANGED direct /\ pc = "drain"
  BY Zenon DEF WakeOne, TInv, TypeOK
<1>3. UNCHANGED coreVars /\ UNCHANGED <<wakes, readied, removed>>
  BY <1>2, Zenon DEF worldVars, coreVars
<1>4. v \in [wake: WakeKeys, task: Tasks] /\ KeyReady(v.wake)
  BY <1>2, Zenon DEF LoopTypes, WakesJustified
<1>5. /\ PlainOps' /\ LoopShape' /\ NoSelfSend' /\ ExitFits' /\ WakesJustified'
      /\ SliceWakes' /\ RemovedFits'
  BY <1>1, <1>2, <1>3, DrainFrame, Zenon DEF InDirect
<1> DEFINE t == v.task
<1>6. PICK k : k = t /\ k \in Tasks
  BY <1>4, Zenon
<1>7. OthersStay(k)
  <2>1. CASE tasks[k] = Blocked(v.wake)
    BY <1>1, <1>2, <1>6, <2>1, RefreshPlaces, Zenon
  <2>2. CASE tasks[k] # Blocked(v.wake)
    BY <1>1, <1>6, <2>2, Zenon DEF OthersStay, indexVars
  <2> QED BY <2>1, <2>2, Zenon
<1>8. \A u \in Tasks : \A w :
         u # k \/ w # v.wake =>
             ([wake |-> w, task |-> u] \in woken => [wake |-> w, task |-> u] \in woken')
  <2> TAKE u \in Tasks
  <2> TAKE w
  <2>1. [wake |-> w, task |-> u] = v => w = v.wake /\ u = v.task
    OBVIOUS
  <2> QED BY <1>1, <1>6, <2>1, Zenon
<1>9. BlockedIsIndexed'
  <2> SUFFICES ASSUME NEW u \in Tasks, tasks'[u][1] = "blocked"
               PROVE  u \in blocked'[tasks'[u][2]] \/ [wake |-> tasks'[u][2], task |-> u] \in woken'
    BY Zenon DEF BlockedIsIndexed, IsBlocked
  <2>1. CASE u # k
    <3>1. tasks'[u] = tasks[u] /\ IsBlocked(u)
      BY <1>7, <2>1, Zenon DEF OthersStay, IsBlocked
    <3>2. tasks[u][2] \in WakeKeys
      BY <1>2, <3>1, EntryShapes, Zenon
    <3>3. u \in blocked[tasks[u][2]] \/ [wake |-> tasks[u][2], task |-> u] \in woken
      BY <3>1, Zenon DEF BlockedIsIndexed
    <3> QED BY <1>7, <1>8, <2>1, <3>1, <3>2, <3>3, Zenon DEF OthersStay
  <2>2. CASE u = k /\ tasks[k] = Blocked(v.wake)
    <3>1. Status(k) = "blocked"
      BY <1>1, <1>2, <1>6, <2>2, RefreshPlaces, Zenon
    <3>2. state[k] = "blocked" /\ ~BlockReady(k)
      BY <1>6, <3>1, StatusCases, Zenon
    <3>3. ~KeyReady(BlockWakeKey(k, request[k]))
      BY <1>2, <1>6, <3>2, BlockReadyIsKeyReady, Zenon
    <3>4. tasks[k] # Blocked(BlockWakeKey(k, request[k]))
      BY <1>4, <2>2, <3>3, SMTT(30) DEF Blocked
    <3>5. tasks'[k] = Blocked(BlockWakeKey(k, request[k])) /\ k \in blocked'[BlockWakeKey(k, request[k])]
      BY <1>1, <1>2, <1>6, <2>2, <3>1, <3>4, RefreshPlaces, Zenon
    <3> QED BY <2>2, <3>5 DEF Blocked
  <2>3. CASE u = k /\ tasks[k] # Blocked(v.wake)
    <3>1. UNCHANGED indexVars
      BY <1>1, <1>6, <2>3, Zenon
    <3>2. IsBlocked(k) /\ tasks[k] = Blocked(tasks[k][2])
      BY <1>2, <1>6, <2>3, <3>1, EntryShapes, Zenon DEF IsBlocked, indexVars
    <3>3. tasks[k][2] # v.wake
      BY <2>3, <3>2, Zenon
    <3>4. k \in blocked[tasks[k][2]] \/ [wake |-> tasks[k][2], task |-> k] \in woken
      BY <1>6, <3>2, Zenon DEF BlockedIsIndexed
    <3> QED BY <1>6, <1>8, <2>3, <3>1, <3>3, <3>4, Zenon DEF indexVars
  <2> QED BY <2>1, <2>2, <2>3, Zenon
<1>10. Covered'
  <2> SUFFICES ASSUME NEW u \in Tasks, Status(u) \in {"ready", "blocked"} PROVE HasPlace(u)'
    BY <1>3, CoreSame, Zenon DEF Covered
  <2>p. HasPlace(u)
    BY Zenon DEF Covered
  <2>s. /\ BlockReady(u)' <=> BlockReady(u)
        /\ BlockWakeKey(u, request[u])' = BlockWakeKey(u, request[u])
        /\ UNCHANGED <<state, request, wakes, readied, current, pc, exit, direct>>
    BY <1>2, <1>3, CoreSame, Zenon DEF coreVars, loopVars
  <2>1. CASE u = k /\ tasks[k] = Blocked(v.wake)
    <3>1. Refresh(k)
      BY <1>1, <1>6, <2>1, Zenon
    <3>2. CASE Status(k) = "ready"
      BY <1>2, <1>6, <2>1, <3>1, <3>2, RefreshPlaces, Zenon DEF HasPlace, IsQueued
    <3>3. CASE Status(k) = "blocked"
      <4>1. tasks'[k] = Blocked(BlockWakeKey(k, request[k])) /\ state[k] = "blocked" /\ ~BlockReady(k)
        BY <1>2, <1>6, <3>1, <3>3, RefreshPlaces, StatusCases, Zenon
      <4> QED BY <2>1, <2>s, <4>1, Zenon DEF HasPlace
    <3> QED BY <2>1, <3>2, <3>3, Zenon
  <2>2. CASE u # k \/ tasks[k] # Blocked(v.wake)
    <3>1. tasks'[u] = tasks[u]
      BY <1>1, <1>6, <1>7, <2>2, Zenon DEF OthersStay, indexVars
    <3>2. tasks[u] = Blocked(BlockWakeKey(u, request[u])) => u # k \/ BlockWakeKey(u, request[u]) # v.wake
      BY <2>2, Zenon
    <3>3. (tasks[u] = Blocked(BlockWakeKey(u, request[u])) /\ UnderWay(u, BlockWakeKey(u, request[u])))
              => UnderWay(u, BlockWakeKey(u, request[u]))'
      BY <1>8, <2>s, <3>2, Zenon DEF UnderWay, InDirect
    <3> QED BY <2>p, <2>s, <3>1, <3>3, Zenon DEF HasPlace, IsQueued
  <2> QED BY <2>1, <2>2, Zenon
<1> QED BY <1>5, <1>9, <1>10, Zenon

(* wake(): the waiters of a key are in hand before the key is forgotten. *)
LEMMA TakeKeeps ==
  ASSUME WInv, TInv', NEW k \in WakeKeys, KeyReady(k), pc = "drain", woken = {}, TakeWaiters(k),
         UNCHANGED coreVars, UNCHANGED loopVars, UNCHANGED <<readied, removed>>,
         wakes' \subseteq wakes, \A w : InDirect(w)' => InDirect(w),
         \A w : w # k => (w \in wakes => w \in wakes') /\ (InDirect(w) => InDirect(w)')
  PROVE  WInv'
<1> USE DEF WInv
<1>1. /\ WorldTypes /\ IndexTypes /\ LoopTypes
      /\ woken' = {[wake |-> k, task |-> t] : t \in blocked[k]}
      /\ blocked' = [blocked EXCEPT ![k] = {}] /\ UNCHANGED tasks
      /\ blocked \in [WakeKeys -> SUBSET Tasks]
  BY Zenon DEF TInv, TypeOK, TakeWaiters, IndexTypes
<1>2. /\ PlainOps' /\ LoopShape' /\ NoSelfSend' /\ ExitFits' /\ WakesJustified'
      /\ SliceWakes' /\ RemovedFits'
  BY <1>1, DrainFrame
<1>3. \A u \in Tasks, w \in WakeKeys : u \in blocked[w] =>
          (w = k /\ [wake |-> k, task |-> u] \in woken') \/ (w # k /\ u \in blocked'[w])
  BY <1>1, Zenon
<1>4. \A u \in Tasks : IsBlocked(u) => tasks[u][2] \in WakeKeys /\ u \in blocked[tasks[u][2]]
  BY <1>1, EntryShapes, Zenon DEF BlockedIsIndexed
<1>5. BlockedIsIndexed'
  BY <1>1, <1>3, <1>4, Zenon DEF BlockedIsIndexed, IsBlocked
<1>6. Covered'
  <2> SUFFICES ASSUME NEW u \in Tasks, Status(u) \in {"ready", "blocked"} PROVE HasPlace(u)'
    BY CoreSame, Zenon DEF Covered
  <2>p. HasPlace(u)
    BY Zenon DEF Covered
  <2>s. /\ BlockReady(u)' <=> BlockReady(u)
        /\ BlockWakeKey(u, request[u])' = BlockWakeKey(u, request[u])
        /\ UNCHANGED <<state, request, readied, current, pc, exit, tasks>>
    BY <1>1, CoreSame, Zenon DEF coreVars, loopVars
  <2>1. (tasks[u] = Blocked(BlockWakeKey(u, request[u])) /\ UnderWay(u, BlockWakeKey(u, request[u])))
              => UnderWay(u, BlockWakeKey(u, request[u]))'
    <3> SUFFICES ASSUME NEW w, w = BlockWakeKey(u, request[u]), tasks[u] = Blocked(w), UnderWay(u, w)
                 PROVE  UnderWay(u, w)'
      BY <2>s, Zenon
    <3>1. CASE w = k
      <4>1. u \in blocked[k]
        BY <1>4, <3>1 DEF IsBlocked, Blocked
      <4> QED BY <1>3, <3>1, <4>1, Zenon DEF UnderWay
    <3>2. CASE w # k
      BY <3>2, Zenon DEF UnderWay
    <3> QED BY <3>1, <3>2, Zenon
  <2> QED BY <2>p, <2>s, <2>1, Zenon DEF HasPlace, IsQueued
<1> QED BY <1>2, <1>5, <1>6, Zenon

LEMMA DirectWakeKeeps ==
  ASSUME WInv, TInv', DirectWake
  PROVE  WInv'
<1>1. /\ direct \in Seq(WakeKeys) /\ direct # <<>> /\ direct' = Tail(direct)
      /\ wakes \subseteq WakeKeys
      /\ pc = "drain" /\ woken = {} /\ TakeWaiters(Head(direct))
      /\ UNCHANGED coreVars /\ UNCHANGED loopVars /\ UNCHANGED <<readied, removed, wakes>>
  BY Zenon DEF DirectWake, WInv, TInv, TypeOK, LoopTypes, WorldTypes, worldVars, coreVars, machineVars, mailboxVars, eventVars
<1>2. Head(direct) \in WakeKeys /\ InDirect(Head(direct))
  BY <1>1 DEF InDirect
<1>3. KeyReady(Head(direct))
  BY <1>2, Zenon DEF WInv, WakesJustified
<1>4. \A i \in DOMAIN direct' : i + 1 \in DOMAIN direct /\ direct'[i] = direct[i + 1]
  BY <1>1
<1>5. \A i \in DOMAIN direct : i = 1 \/ (i - 1 \in DOMAIN direct' /\ direct'[i - 1] = direct[i])
  BY <1>1
<1>6. direct[1] = Head(direct)
  BY <1>1
<1>7. \A w : (InDirect(w)' => InDirect(w)) /\ (w # Head(direct) => (InDirect(w) => InDirect(w)'))
  BY <1>4, <1>5, <1>6, Zenon DEF InDirect
<1> QED BY <1>1, <1>2, <1>3, <1>7, TakeKeeps, Zenon

LEMMA PopWakeKeeps ==
  ASSUME WInv, TInv', PopWake, LeastKey(wakes) \in wakes
  PROVE  WInv'
<1>1. /\ pc = "drain" /\ woken = {} /\ TakeWaiters(LeastKey(wakes)) /\ wakes \in SUBSET WakeKeys
      /\ wakes # {} /\ wakes' = wakes \ {LeastKey(wakes)}
      /\ UNCHANGED coreVars /\ UNCHANGED loopVars /\ UNCHANGED <<readied, removed, direct>>
  BY Zenon DEF PopWake, WInv, TInv, TypeOK, LoopTypes, WorldTypes, coreVars, machineVars, mailboxVars
<1>3. PICK k : k = LeastKey(wakes)
  BY Zenon
<1>4. KeyReady(k) /\ k \in WakeKeys
  BY <1>1, <1>3, Zenon DEF WInv, WakesJustified
<1>5. \A w : /\ InDirect(w)' <=> InDirect(w)
             /\ w # k => (w \in wakes => w \in wakes')
  BY <1>1, <1>3, Zenon DEF InDirect
<1> QED BY <1>1, <1>3, <1>4, <1>5, TakeKeeps, Zenon

(* A removed task is gone for good or comes back in the same batch. *)
LEMMA PopRemovedKeeps ==
  ASSUME WInv, TInv', PopRemoved, Least(removed) \in removed
  PROVE  WInv'
<1> USE DEF WInv
<1>1. /\ WorldTypes /\ IndexTypes /\ LoopTypes /\ removed \in SUBSET Tasks
      /\ pc = "drain" /\ woken = {} /\ DropTask(Least(removed)) /\ removed # {}
      /\ removed' = removed \ {Least(removed)}
      /\ UNCHANGED coreVars /\ UNCHANGED loopVars /\ UNCHANGED <<readied, wakes, direct, woken>>
  BY Zenon DEF PopRemoved, TInv, TypeOK, LoopTypes, WorldTypes, coreVars, machineVars, mailboxVars, drainVars
<1>2. PICK k : k = Least(removed) /\ k \in removed /\ k \in Tasks
  BY <1>1, Zenon
<1>3. /\ PlainOps' /\ LoopShape' /\ NoSelfSend' /\ ExitFits' /\ WakesJustified'
      /\ SliceWakes' /\ RemovedFits'
  BY <1>1, DrainFrame, Zenon DEF InDirect
<1>4. OthersStay(k) /\ tasks'[k] = None
  BY <1>1, <1>2, IndexOperations, Zenon
<1>5. BlockedIsIndexed'
  <2> SUFFICES ASSUME NEW u \in Tasks, tasks'[u][1] = "blocked"
               PROVE  u \in blocked'[tasks'[u][2]] \/ [wake |-> tasks'[u][2], task |-> u] \in woken'
    BY Zenon DEF BlockedIsIndexed, IsBlocked
  <2>1. u # k /\ tasks'[u] = tasks[u] /\ IsBlocked(u)
    BY <1>4 DEF None, OthersStay, IsBlocked
  <2>2. tasks[u][2] \in WakeKeys
    BY <1>1, <2>1, EntryShapes, Zenon
  <2> QED BY <1>1, <1>4, <2>1, <2>2, Zenon DEF BlockedIsIndexed, OthersStay
<1>6. Covered'
  <2> SUFFICES ASSUME NEW u \in Tasks, Status(u) \in {"ready", "blocked"} PROVE HasPlace(u)'
    BY <1>1, CoreSame, Zenon DEF Covered
  <2>p. HasPlace(u)
    BY Zenon DEF Covered
  <2>s. /\ BlockReady(u)' <=> BlockReady(u)
        /\ BlockWakeKey(u, request[u])' = BlockWakeKey(u, request[u])
        /\ UNCHANGED <<state, request, readied, current, pc, exit, wakes, woken, direct>>
    BY <1>1, CoreSame, Zenon DEF coreVars, loopVars
  <2>1. CASE u = k
    <3>1. ~Terminal(k) /\ (k = Root \/ k \in procs)
      BY <1>2, <2>1, StatusCases, Zenon
    <3>2. k \in readied
      BY <1>2, <3>1, Zenon DEF RemovedFits
    <3> QED BY <1>1, <2>1, <2>s, <3>2, Zenon DEF HasPlace
  <2>2. CASE u # k
    <3>1. tasks'[u] = tasks[u]
      BY <1>4, <2>2, Zenon DEF OthersStay
    <3> QED BY <2>p, <2>s, <3>1, Zenon DEF HasPlace, IsQueued, UnderWay, InDirect
  <2> QED BY <2>1, <2>2, Zenon
<1> QED BY <1>3, <1>5, <1>6, Zenon

(* refresh puts a readied task where its status says. *)
LEMMA PopReadyKeeps ==
  ASSUME WInv, TInv', PopReady, Least(readied) \in readied
  PROVE  WInv'
<1> USE DEF WInv
<1>1. /\ WorldTypes /\ IndexTypes /\ LoopTypes /\ readied \in SUBSET Tasks
      /\ pc = "drain" /\ woken = {} /\ removed = {} /\ Refresh(Least(readied)) /\ readied # {}
      /\ readied' = readied \ {Least(readied)}
      /\ UNCHANGED coreVars /\ UNCHANGED loopVars /\ UNCHANGED <<removed, wakes, direct, woken>>
  BY Zenon DEF PopReady, TInv, TypeOK, LoopTypes, WorldTypes, coreVars, machineVars, mailboxVars, drainVars
<1>2. PICK k : k = Least(readied) /\ k \in Tasks
  BY <1>1, Zenon
<1>3. /\ PlainOps' /\ LoopShape' /\ NoSelfSend' /\ ExitFits' /\ WakesJustified'
      /\ SliceWakes' /\ RemovedFits'
  BY <1>1, DrainFrame, Zenon DEF InDirect
<1>k. PICK key : key = BlockWakeKey(k, request[k])
  BY Zenon
<1>4. /\ OthersStay(k)
      /\ Status(k) = "ready" => tasks'[k][1] = "queued"
      /\ Status(k) = "blocked" =>
           /\ tasks'[k] = Blocked(key)
           /\ tasks[k] = Blocked(key) => blocked' = blocked
           /\ tasks[k] # Blocked(key) => k \in blocked'[key]
      /\ tasks'[k][1] = "blocked" => Status(k) = "blocked"
  BY <1>1, <1>2, <1>k, RefreshPlaces, Zenon
<1>5. BlockedIsIndexed'
  <2> SUFFICES ASSUME NEW u \in Tasks, tasks'[u][1] = "blocked"
               PROVE  u \in blocked'[tasks'[u][2]] \/ [wake |-> tasks'[u][2], task |-> u] \in woken'
    BY Zenon DEF BlockedIsIndexed, IsBlocked
  <2>1. CASE u # k
    <3>1. tasks'[u] = tasks[u] /\ IsBlocked(u)
      BY <1>4, <2>1, Zenon DEF OthersStay, IsBlocked
    <3>2. tasks[u][2] \in WakeKeys
      BY <1>1, <3>1, EntryShapes, Zenon
    <3> QED BY <1>1, <1>4, <2>1, <3>1, <3>2, Zenon DEF BlockedIsIndexed, OthersStay
  <2>2. CASE u = k
    <3>1. tasks'[k] = Blocked(key)
      BY <1>4, <2>2, Zenon
    <3>2. CASE tasks[k] = Blocked(key)
      <4>1. IsBlocked(k) /\ tasks[k][2] = key /\ blocked' = blocked
        BY <1>4, <2>2, <3>2, SMTT(30) DEF IsBlocked, Blocked
      <4> QED BY <1>1, <1>2, <2>2, <3>1, <3>2, <4>1, Zenon DEF BlockedIsIndexed
    <3>3. CASE tasks[k] # Blocked(key)
      BY <1>4, <2>2, <3>1, <3>3, SMTT(30) DEF Blocked
    <3> QED BY <3>2, <3>3, Zenon
  <2> QED BY <2>1, <2>2, Zenon
<1>6. Covered'
  <2> SUFFICES ASSUME NEW u \in Tasks, Status(u) \in {"ready", "blocked"} PROVE HasPlace(u)'
    BY <1>1, CoreSame, Zenon DEF Covered
  <2>p. HasPlace(u)
    BY Zenon DEF Covered
  <2>s. /\ BlockReady(u)' <=> BlockReady(u)
        /\ BlockWakeKey(u, request[u])' = BlockWakeKey(u, request[u])
        /\ UNCHANGED <<state, request, current, pc, exit, wakes, woken, direct>>
    BY <1>1, CoreSame, Zenon DEF coreVars, loopVars
  <2>1. CASE u = k
    <3>1. CASE Status(k) = "ready"
      BY <1>4, <2>1, <3>1, Zenon DEF HasPlace, IsQueued
    <3>2. CASE Status(k) = "blocked"
      <4>1. state[k] = "blocked" /\ ~BlockReady(k)
        BY <1>2, <3>2, StatusCases, Zenon
      <4> QED BY <1>4, <1>k, <2>1, <2>s, <3>2, <4>1, Zenon DEF HasPlace
    <3> QED BY <2>1, <3>1, <3>2, Zenon
  <2>2. CASE u # k
    <3>1. tasks'[u] = tasks[u]
      BY <1>4, <2>2, Zenon DEF OthersStay
    <3> QED BY <1>1, <1>2, <2>p, <2>s, <2>2, <3>1, Zenon DEF HasPlace, IsQueued, UnderWay, InDirect
  <2> QED BY <2>1, <2>2, Zenon
<1> QED BY <1>3, <1>5, <1>6, Zenon

(* With no other event left to serve, most of the invariant is empty. *)
LEMMA QuietFrame ==
  ASSUME WInv, pc' \in {"poll", "pick", "drain", "returned"}, exit' = None, woken' = {},
         direct' = <<>>, removed' = {}, FaultWakes'
  PROVE  /\ PlainOps' /\ LoopShape' /\ ExitFits' /\ WakesJustified'
         /\ SliceWakes' /\ RemovedFits'
<1>1. PlainOps'
  BY Zenon DEF WInv, PlainOps
<1>2. LoopShape' /\ SliceWakes' /\ RemovedFits' /\ ExitFits'
  BY Zenon DEF LoopShape, SliceWakes, RemovedFits, ExitFits
<1>3. WakesJustified'
  <2>1. \A w \in wakes' : KeyReady(w)'
    BY SMT DEF FaultWakes, KeyReady, Terminal
  <2> QED BY <2>1, NoDirect, Zenon DEF WakesJustified
<1> QED BY <1>1, <1>2, <1>3, Zenon

(* A place outside the batch. *)
Settled(t) ==
    \/ IsQueued(t)
    \/ state[t] = "blocked" /\ tasks[t] = Blocked(BlockWakeKey(t, request[t])) /\ ~BlockReady(t)
    \/ state[t] = "blocked" /\ state[request[t].to] = "faulted"

(* Between batches every task has one. *)
LEMMA AtRest ==
  ASSUME WInv, pc \in {"poll", "pick", "returned"}, NEW t \in Tasks,
         Status(t) \in {"ready", "blocked"}
  PROVE  Settled(t)
<1>1. HasPlace(t) /\ FaultWakes /\ woken = {} /\ direct = <<>>
  BY Zenon DEF WInv, LoopShape, Covered
<1>2. BlockWakeKey(t, request[t]) \in wakes => state[request[t].to] = "faulted"
  BY <1>1, SMT DEF FaultWakes, BlockWakeKey, Receive, Send, Done
<1> QED BY <1>1, <1>2, NoDirect, Zenon DEF HasPlace, UnderWay, Settled

LEMMA SettledPlace ==
  ASSUME NEW t \in Tasks, Settled(t)'
  PROVE  HasPlace(t)'
  BY Zenon DEF HasPlace, Settled, IsQueued

(* A step that changes neither world nor index. *)
LEMMA SameKeeps ==
  ASSUME WInv, TInv', UNCHANGED coreVars, UNCHANGED <<removed, wakes, readied>>,
         UNCHANGED indexVars, UNCHANGED drainVars, UNCHANGED loopVars
  PROVE  WInv'
<1> USE DEF WInv
<1>s. UNCHANGED <<state, request, queued, closed, paused, procs, ready, ready_ticket, tasks, blocked,
                   waiting, direct, woken, pc, current, exit, removed, wakes, readied>>
  BY Zenon DEF coreVars, indexVars, drainVars, loopVars
<1>1. PlainOps' /\ LoopShape' /\ BlockedIsIndexed'
  BY <1>s, Zenon DEF PlainOps, LoopShape, FaultWakes, BlockedIsIndexed, IsBlocked
<1>2. NoSelfSend' /\ WakesJustified'
  BY <1>s, CoreSame, Zenon DEF WakesJustified, InDirect
<1>3. ExitFits' /\ SliceWakes' /\ RemovedFits'
  <2> current \in Tasks /\ removed \subseteq Tasks
    BY Zenon DEF TInv, TypeOK, LoopTypes, WorldTypes
  <2> QED BY <1>s, CoreSame, Zenon DEF ExitFits, SliceWakes, RemovedFits
<1>4. Covered'
  <2> SUFFICES ASSUME NEW u \in Tasks, Status(u) \in {"ready", "blocked"} PROVE HasPlace(u)'
    BY CoreSame, Zenon DEF Covered
  <2>p. HasPlace(u)
    BY Zenon DEF Covered
  <2>s. /\ BlockReady(u)' <=> BlockReady(u)
        /\ BlockWakeKey(u, request[u])' = BlockWakeKey(u, request[u])
    BY CoreSame, Zenon
  <2> QED BY <1>s, <2>p, <2>s, Zenon DEF HasPlace, IsQueued, UnderWay, InDirect
<1> QED BY <1>1, <1>2, <1>3, <1>4, Zenon

------------------------------------------------------------------------------
(* The rest of the loop. *)

LEMMA FinishSliceKeeps ==
  ASSUME WInv, TInv', FinishSlice
  PROVE  WInv'
<1> USE DEF WInv
<1>1. /\ WorldTypes /\ IndexTypes /\ LoopTypes /\ current \in Tasks
      /\ pc = "drain" /\ woken = {} /\ direct = <<>> /\ removed = {} /\ wakes = {} /\ readied = {}
      /\ pc' = "poll" /\ exit' = None
      /\ UNCHANGED coreVars /\ UNCHANGED <<removed, wakes, readied, direct, woken>>
  BY Zenon DEF FinishSlice, Drained, TInv, TypeOK, LoopTypes, WorldTypes, worldVars, coreVars, drainVars
<1>2. PlainOps' /\ LoopShape' /\ ExitFits' /\ WakesJustified' /\ SliceWakes' /\ RemovedFits'
  <2> FaultWakes'
    BY <1>1, Zenon DEF FaultWakes
  <2> QED BY <1>1, QuietFrame, Zenon
<1>3. NoSelfSend'
  BY <1>1, CoreSame, Zenon
<1>k. PICK c : c = current /\ c \in Tasks
  BY <1>1, Zenon
<1>key. PICK key \in WakeKeys : key = BlockWakeKey(c, request[c])
  BY <1>1, <1>k, KeyTypes, Zenon DEF WorldTypes
<1>4. \/ exit = Yielded /\ Enqueue(c) /\ state[c] = "ready"
      \/ exit = Waiting /\ Wait(c) /\ state[c] = "waiting"
      \/ exit = Blocked(key) /\ Block(c, key) /\ state[c] = "blocked" /\ ~BlockReady(c)
      \/ exit = None /\ UNCHANGED indexVars
  <2>1. exit # None =>
        \/ exit = Yielded /\ state[c] = "ready"
        \/ exit = Waiting /\ state[c] = "waiting"
        \/ exit = Blocked(key) /\ state[c] = "blocked" /\ ~BlockReady(c)
    BY <1>1, <1>k, <1>key, Zenon DEF ExitFits
  <2> QED BY <1>k, <2>1 DEF FinishSlice, Yielded, Waiting, Blocked, None
<1>5. /\ OthersStay(c)
      /\ exit = Yielded => tasks'[c][1] = "queued"
      /\ exit = Blocked(key) => /\ tasks'[c] = Blocked(key)
                                /\ tasks[c] = Blocked(key) => blocked' = blocked
                                /\ tasks[c] # Blocked(key) => c \in blocked'[key]
      /\ exit = Waiting => tasks'[c] = Waiting
      /\ exit = None => UNCHANGED indexVars
  <2>1. CASE exit = Yielded /\ Enqueue(c)
    BY <1>1, <1>k, <2>1, IndexOperations, Zenon DEF Yielded, Waiting, Blocked, None
  <2>2. CASE exit = Waiting /\ Wait(c)
    BY <1>1, <1>k, <2>2, IndexOperations, Zenon DEF Yielded, Waiting, Blocked, None
  <2>3. CASE exit = Blocked(key) /\ Block(c, key)
    BY <1>1, <1>k, <2>3, IndexOperations, Zenon DEF Yielded, Waiting, Blocked, None
  <2>4. CASE exit = None /\ UNCHANGED indexVars
    BY <2>4, Zenon DEF Yielded, Waiting, Blocked, None, OthersStay, indexVars
  <2> QED BY <1>4, <2>1, <2>2, <2>3, <2>4, Zenon
<1>6. BlockedIsIndexed'
  <2> SUFFICES ASSUME NEW u \in Tasks, tasks'[u][1] = "blocked"
               PROVE  u \in blocked'[tasks'[u][2]]
    BY Zenon DEF BlockedIsIndexed, IsBlocked
  <2>0. \A v \in Tasks : IsBlocked(v) => tasks[v][2] \in WakeKeys /\ v \in blocked[tasks[v][2]]
    BY <1>1, EntryShapes, Zenon DEF BlockedIsIndexed
  <2>1. CASE u # c \/ exit = None
    <3>1. tasks'[u] = tasks[u] /\ IsBlocked(u)
      BY <1>5, <2>1, Zenon DEF OthersStay, IsBlocked, indexVars
    <3> QED BY <1>5, <2>0, <2>1, <3>1, Zenon DEF OthersStay, indexVars
  <2>2. CASE u = c /\ exit # None
    <3>1. exit = Blocked(key)
      BY <1>4, <1>5, <2>2, SMTT(30) DEF Waiting
    <3>2. CASE tasks[c] = Blocked(key)
      <4>1. IsBlocked(c) /\ tasks[c][2] = key /\ tasks'[c][2] = key
        BY <1>5, <3>1, <3>2, SMTT(30) DEF IsBlocked, Blocked
      <4> QED BY <1>k, <1>5, <2>0, <2>2, <3>1, <3>2, <4>1, Zenon
    <3>3. CASE tasks[c] # Blocked(key)
      BY <1>5, <2>2, <3>1, <3>3, SMTT(30) DEF Blocked
    <3> QED BY <3>2, <3>3, Zenon
  <2> QED BY <2>1, <2>2, Zenon
<1>7. Covered'
  <2> SUFFICES ASSUME NEW u \in Tasks, Status(u) \in {"ready", "blocked"} PROVE Settled(u)'
    BY <1>1, CoreSame, SettledPlace, Zenon DEF Covered
  <2>p. HasPlace(u)
    BY Zenon DEF Covered
  <2>s. /\ BlockReady(u)' <=> BlockReady(u)
        /\ BlockWakeKey(u, request[u])' = BlockWakeKey(u, request[u])
        /\ UNCHANGED <<state, request>>
    BY <1>1, CoreSame, Zenon DEF coreVars
  <2>1. CASE u # c \/ exit = None
    <3>1. tasks'[u] = tasks[u]
      BY <1>5, <2>1, Zenon DEF OthersStay, indexVars
    <3>2. Settled(u)
      BY <1>1, <1>k, <2>1, <2>p, NoDirect, Zenon DEF HasPlace, Settled, UnderWay
    <3> QED BY <2>s, <3>1, <3>2, Zenon DEF Settled, IsQueued
  <2>2. CASE u = c /\ exit # None
    <3>1. CASE exit = Yielded
      BY <1>5, <2>2, <3>1, Zenon DEF Settled, IsQueued
    <3>2. CASE exit = Waiting
      BY <1>4, <2>2, <3>2, StatusCases, Zenon DEF Yielded, Waiting, Blocked, None
    <3>3. CASE exit = Blocked(key)
      <4>1. state[c] = "blocked" /\ ~BlockReady(c)
        BY <1>4, <3>3, Zenon DEF Yielded, Waiting, Blocked, None
      <4> QED BY <1>5, <1>key, <2>2, <2>s, <3>3, <4>1, Zenon DEF Settled
    <3> QED BY <1>4, <2>2, <3>1, <3>2, <3>3, Zenon
  <2> QED BY <2>1, <2>2, Zenon
<1> QED BY <1>2, <1>3, <1>6, <1>7, Zenon

LEMMA InstalledKeeps ==
  ASSUME WInv, TInv', pc \in {"poll", "pick"}, pc' \in {"poll", "drain"}, NEW k \in Tasks,
         CompleteCompletion(k), InstallCompletion(k), UNCHANGED <<direct, woken, current, exit>>
  PROVE  WInv'
<1> USE DEF WInv
<1>1. /\ WorldTypes /\ IndexTypes /\ LoopTypes
      /\ woken = {} /\ direct = <<>> /\ removed = {} /\ FaultWakes /\ exit = None
      /\ state[k] = "waiting" /\ state' = [state EXCEPT ![k] = "ready"]
      /\ tasks' = [tasks EXCEPT ![k] = Queued(ready_ticket)]
      /\ UNCHANGED <<request, queued, closed, paused, procs, removed, wakes, blocked>>
  <2> state[k] = "waiting" /\ state' = [state EXCEPT ![k] = "ready"] /\ state'[k] = "ready"
    BY Zenon DEF InstallCompletion, TInv, TypeOK, WorldTypes
  <2> ~InstallFails(k)
    BY Zenon DEF InstallFails, TInv, TypeOK, WorldTypes
  <2> QED BY Zenon DEF CompleteCompletion, InstallCompletion, TInv, TypeOK, LoopShape
<1>2. state \in [Tasks -> {"empty", "ready", "blocked", "waiting", "done", "faulted"}]
      /\ request \in [Tasks -> Requests \cup {NoRequest}]
      /\ tasks \in [Tasks -> {None, Running, Waiting} \cup {Queued(t) : t \in Tickets}
                             \cup {Blocked(w) : w \in WakeKeys}]
  BY <1>1, Zenon DEF WorldTypes, IndexTypes
<1>f. FaultWakes'
  <2>1. wakes \subseteq WakeKeys
    BY <1>1, Zenon DEF WorldTypes
  <2> QED BY <1>1, <1>2, <2>1, SMT DEF FaultWakes, WakeKeys
<1>3. PlainOps' /\ LoopShape' /\ ExitFits' /\ WakesJustified' /\ SliceWakes' /\ RemovedFits'
  BY <1>1, <1>f, QuietFrame, Zenon
<1>4. NoSelfSend'
  BY <1>1, <1>2, Zenon DEF NoSelfSend
<1>5. BlockedIsIndexed'
  BY <1>1, <1>2, Zenon DEF BlockedIsIndexed, IsBlocked, Queued
<1>6. \A u \in Tasks : Terminal(u)' <=> Terminal(u)
  BY <1>1, <1>2, Zenon DEF Terminal
<1>7. Covered'
  <2> SUFFICES ASSUME NEW u \in Tasks, Status(u)' \in {"ready", "blocked"} PROVE Settled(u)'
    BY SettledPlace, Zenon DEF Covered
  <2>1. CASE u = k
    BY <1>1, <1>2, <2>1, Zenon DEF Settled, IsQueued, Queued
  <2>2. CASE u # k
    <3>0. request[u].to \in Tasks
      BY <1>2 DEF Requests, NoRequest, Tasks
    <3>1. state'[u] = state[u] /\ tasks'[u] = tasks[u]
      BY <1>1, <1>2, <2>2, Zenon
    <3>2. BlockReady(u)' <=> BlockReady(u)
      BY <1>1, <1>6, <3>0, Zenon DEF BlockReady, Accepts
    <3>3. Status(u) \in {"ready", "blocked"}
      BY <1>1, <1>6, <3>1, <3>2, Zenon DEF Status
    <3>4. Settled(u)
      BY <3>3, AtRest, Zenon
    <3>5. BlockWakeKey(u, request[u])' = BlockWakeKey(u, request[u])
      BY <1>1, Zenon DEF BlockWakeKey
    <3>6. state[request[u].to] = "faulted" => state'[request[u].to] = "faulted"
      BY <1>1, <1>2, <3>0, Zenon
    <3> QED BY <1>1, <3>1, <3>2, <3>4, <3>5, <3>6, Zenon DEF Settled, IsQueued
  <2> QED BY <2>1, <2>2, Zenon
<1> QED BY <1>3, <1>4, <1>5, <1>7, Zenon

(* A completion that cannot be installed faults its machine: its end is in *)
(* the batch of the next slice, or in none.                                *)
LEMMA InstallFailsKeeps ==
  ASSUME WInv, TInv', pc \in {"poll", "pick"}, pc' \in {"poll", "drain"}, NEW k \in Tasks,
         InstallFails(k), tasks' = [tasks EXCEPT ![k] = None],
         UNCHANGED <<direct, woken, current, exit, blocked>>
  PROVE  WInv'
<1> USE DEF WInv
<1>1. /\ WorldTypes /\ IndexTypes
      /\ woken = {} /\ direct = <<>> /\ removed = {} /\ FaultWakes /\ exit = None
      /\ state[k] = "waiting" /\ state' = [state EXCEPT ![k] = "faulted"]
      /\ wakes' \subseteq wakes \cup {Done(k), Send(k)}
      /\ UNCHANGED <<request, queued, closed, paused, procs, removed>>
  BY Zenon DEF InstallFails, TInv, TypeOK, LoopShape
<1>2. state \in [Tasks -> {"empty", "ready", "blocked", "waiting", "done", "faulted"}]
      /\ request \in [Tasks -> Requests \cup {NoRequest}]
      /\ tasks \in [Tasks -> {None, Running, Waiting} \cup {Queued(t) : t \in Tickets}
                             \cup {Blocked(w) : w \in WakeKeys}]
      /\ wakes \subseteq WakeKeys
  BY <1>1, Zenon DEF WorldTypes, IndexTypes
<1>f. FaultWakes'
  <2>1. \A u \in Tasks : state[u] = "faulted" \/ u = k => state'[u] = "faulted"
    BY <1>1, <1>2, Zenon
  <2>2. \A w \in wakes : w[2] \in Tasks
    BY <1>2, SMT DEF WakeKeys
  <2> QED BY <1>1, <2>1, <2>2, SMT DEF FaultWakes, Done, Send
<1>3. PlainOps' /\ LoopShape' /\ ExitFits' /\ WakesJustified' /\ SliceWakes' /\ RemovedFits'
  BY <1>1, <1>f, QuietFrame, Zenon
<1>4. NoSelfSend'
  BY <1>1, <1>2, Zenon DEF NoSelfSend
<1>5. BlockedIsIndexed'
  BY <1>1, <1>2, Zenon DEF BlockedIsIndexed, IsBlocked, None
<1>6. \A u \in Tasks : Terminal(u)' <=> Terminal(u) \/ u = k
  BY <1>1, <1>2, Zenon DEF Terminal
<1>7. Covered'
  <2> SUFFICES ASSUME NEW u \in Tasks, Status(u)' \in {"ready", "blocked"} PROVE Settled(u)'
    BY SettledPlace, Zenon DEF Covered
  <2>0. request[u].to \in Tasks
    BY <1>2 DEF Requests, NoRequest, Tasks
  <2>1. u # k /\ ~Terminal(u) /\ state'[u] = state[u] /\ tasks'[u] = tasks[u]
    <3>1. ~Terminal(u)'
      BY Zenon DEF Status
    <3> QED BY <1>1, <1>2, <1>6, <3>1, Zenon
  <2>2. Status(u) \in {"ready", "blocked"}
    BY <1>1, <2>1, Zenon DEF Status
  <2>3. Settled(u)
    BY <2>2, AtRest, ZenonT(30)
  <2>4. BlockWakeKey(u, request[u])' = BlockWakeKey(u, request[u])
    BY <1>1, Zenon DEF BlockWakeKey
  <2>5. BlockReady(u)' => BlockReady(u) \/ state'[request[u].to] = "faulted"
    BY <1>1, <1>2, <1>6, <2>0, Zenon DEF BlockReady, Accepts
  <2>6. state[request[u].to] = "faulted" => state'[request[u].to] = "faulted"
    BY <1>1, <1>2, <2>0, Zenon
  <2> QED BY <1>1, <2>1, <2>3, <2>4, <2>5, <2>6, Zenon DEF Settled, IsQueued
<1> QED BY <1>3, <1>4, <1>5, <1>7, Zenon

LEMMA CompletionKeeps ==
  ASSUME WInv, TInv', pc \in {"poll", "pick"}, pc' \in {"poll", "drain"}, NEW k \in Tasks,
         CompleteCompletion(k), UNCHANGED <<direct, woken, current, exit>>
  PROVE  WInv'
<1>1. CASE InstallCompletion(k)
  BY <1>1, InstalledKeeps, Zenon
<1>2. CASE InstallFails(k) /\ tasks' = [tasks EXCEPT ![k] = None]
  BY <1>2, InstallFailsKeeps, Zenon DEF CompleteCompletion
<1> QED BY <1>1, <1>2, Zenon DEF CompleteCompletion

LEMMA PollNothingKeeps ==
  ASSUME WInv, TInv', PollNothing
  PROVE  WInv'
<1> USE DEF WInv
<1>1. /\ pc = "poll" /\ pc' \in {"pick", "returned"}
      /\ woken = {} /\ direct = <<>> /\ removed = {} /\ FaultWakes /\ exit = None
      /\ UNCHANGED <<state, request, woken, direct, removed, wakes, exit, tasks, blocked>>
      /\ UNCHANGED coreVars
  BY Zenon DEF PollNothing, LoopShape, worldVars, indexVars, drainVars, coreVars
<1>f. FaultWakes'
  BY <1>1, Zenon DEF FaultWakes
<1>2. PlainOps' /\ LoopShape' /\ ExitFits' /\ WakesJustified' /\ SliceWakes' /\ RemovedFits'
  BY <1>1, <1>f, QuietFrame, Zenon
<1>3. NoSelfSend' /\ BlockedIsIndexed'
  BY <1>1, CoreSame, Zenon DEF BlockedIsIndexed, IsBlocked
<1>4. Covered'
  <2> SUFFICES ASSUME NEW u \in Tasks, Status(u) \in {"ready", "blocked"} PROVE Settled(u)'
    BY <1>1, CoreSame, SettledPlace, Zenon DEF Covered
  <2>1. Settled(u)
    BY <1>1, AtRest, Zenon
  <2>2. /\ BlockReady(u)' <=> BlockReady(u)
        /\ BlockWakeKey(u, request[u])' = BlockWakeKey(u, request[u])
    BY <1>1, CoreSame, Zenon
  <2> QED BY <1>1, <2>1, <2>2, Zenon DEF Settled, IsQueued
<1> QED BY <1>2, <1>3, <1>4, Zenon

LEMMA NextReadyPlaces ==
  ASSUME WInv, TInv', NextReady
  PROVE  WInv'
<1> USE DEF WInv
<1>1. /\ WorldTypes /\ IndexTypes /\ LoopTypes
      /\ pc = "pick" /\ ready # <<>> /\ ready \in Seq(Tasks \X Tickets)
      /\ woken = {} /\ direct = <<>> /\ removed = {} /\ FaultWakes /\ exit = None
      /\ UNCHANGED coreVars /\ UNCHANGED <<woken, direct, removed, wakes, exit, state, request, procs, paused>>
  BY Zenon DEF NextReady, LoopShape, worldVars, drainVars, coreVars, TInv, TypeOK, IndexTypes
<1>f. FaultWakes'
  BY <1>1, Zenon DEF FaultWakes
<1>2. PICK k \in Tasks : k = Head(ready)[1]
  <2> Head(ready) \in Tasks \X Tickets
    BY <1>1
  <2> QED BY Zenon
<1>3. PICK key \in WakeKeys : key = BlockWakeKey(k, request[k])
  BY <1>1, KeyTypes, Zenon DEF WorldTypes
<1>4. tasks \in [Tasks -> {None, Running, Waiting} \cup {Queued(t) : t \in Tickets}
                             \cup {Blocked(w) : w \in WakeKeys}]
      /\ blocked \in [WakeKeys -> SUBSET Tasks]
  BY <1>1, Zenon DEF IndexTypes
<1>5. NoSelfSend'
  BY <1>1, CoreSame, Zenon
<1>6. \/ UNCHANGED <<tasks, blocked, waiting, pc, current>>
      \/ /\ Status(k) = "ready" /\ tasks' = [tasks EXCEPT ![k] = Running]
         /\ current' = k /\ pc' = "slice" /\ UNCHANGED blocked
      \/ /\ Status(k) # "ready" /\ UNCHANGED <<pc, current>>
         /\ tasks' = [tasks EXCEPT ![k] = CASE Status(k) = "blocked" -> Blocked(key)
                                            [] Status(k) = "waiting" -> Waiting
                                            [] OTHER -> None]
         /\ blocked' = IF Status(k) = "blocked"
                       THEN [blocked EXCEPT ![key] = @ \cup {k}] ELSE blocked
  BY <1>2, <1>3, Zenon DEF NextReady
<1>7. ASSUME NEW u \in Tasks, Status(u) \in {"ready", "blocked"}, tasks'[u] = tasks[u]
      PROVE  HasPlace(u)'
  <2>1. Settled(u)
    BY <1>1, <1>7, AtRest, Zenon
  <2>2. /\ BlockReady(u)' <=> BlockReady(u)
        /\ BlockWakeKey(u, request[u])' = BlockWakeKey(u, request[u])
    BY <1>1, CoreSame, Zenon
  <2>3. Settled(u)'
    BY <1>1, <1>7, <2>1, <2>2, Zenon DEF Settled, IsQueued
  <2> QED BY <2>3, SettledPlace, Zenon
<1>8. \A u \in Tasks : IsBlocked(u) => tasks[u][2] \in WakeKeys /\ u \in blocked[tasks[u][2]]
  BY <1>1, EntryShapes, Zenon DEF BlockedIsIndexed
<1>9. CASE UNCHANGED <<tasks, blocked, waiting, pc, current>>
  <2>1. PlainOps' /\ LoopShape' /\ ExitFits' /\ WakesJustified' /\ SliceWakes' /\ RemovedFits'
    BY <1>1, <1>f, <1>9, QuietFrame, Zenon
  <2>2. BlockedIsIndexed'
    BY <1>1, <1>9, Zenon DEF BlockedIsIndexed, IsBlocked
  <2>3. Covered'
    BY <1>1, <1>7, <1>9, CoreSame, Zenon DEF Covered
  <2> QED BY <1>5, <2>1, <2>2, <2>3, Zenon
<1>10. CASE /\ Status(k) = "ready" /\ tasks' = [tasks EXCEPT ![k] = Running]
            /\ current' = k /\ pc' = "slice" /\ UNCHANGED blocked
  <2>1. PlainOps' /\ ExitFits' /\ RemovedFits'
    BY <1>1, <1>10, Zenon DEF PlainOps, ExitFits, RemovedFits
  <2>s. SliceWakes'
    <3>1. Receive(k) \notin wakes' /\ \A u \in Tasks : Send(u) \in wakes' => Terminal(u)'
      BY <1>f, SMT DEF FaultWakes, Receive, Send, Terminal
    <3> QED BY <1>10, <3>1, Zenon DEF SliceWakes
  <2>2. WakesJustified'
    <3>1. \A w \in wakes' : KeyReady(w)'
      BY <1>f, SMT DEF FaultWakes, KeyReady, Terminal
    <3> QED BY <1>1, <3>1, NoDirect, Zenon DEF WakesJustified
  <2>3. LoopShape'
    <3>1. state[k] \in {"ready", "blocked"}
      BY <1>1, <1>10, StatusCases, Zenon DEF WorldTypes
    <3>2. k = Root \/ (k \in procs /\ ~paused[k])
      BY <1>10, StatusCases, Zenon
    <3> QED BY <1>1, <1>10, <3>1, <3>2, Zenon DEF LoopShape
  <2>4. BlockedIsIndexed'
    BY <1>1, <1>4, <1>8, <1>10, Zenon DEF BlockedIsIndexed, IsBlocked, Running
  <2>5. Covered'
    <3> SUFFICES ASSUME NEW u \in Tasks, Status(u) \in {"ready", "blocked"} PROVE HasPlace(u)'
      BY <1>1, CoreSame, Zenon DEF Covered
    <3>1. CASE u = k
      BY <1>10, <3>1, Zenon DEF HasPlace
    <3>2. CASE u # k
      BY <1>4, <1>7, <1>10, <3>2, Zenon
    <3> QED BY <3>1, <3>2, Zenon
  <2> QED BY <1>5, <2>1, <2>s, <2>2, <2>3, <2>4, <2>5, Zenon
<1>11. CASE /\ Status(k) # "ready" /\ UNCHANGED <<pc, current>>
            /\ tasks' = [tasks EXCEPT ![k] = CASE Status(k) = "blocked" -> Blocked(key)
                                               [] Status(k) = "waiting" -> Waiting
                                               [] OTHER -> None]
            /\ blocked' = IF Status(k) = "blocked"
                          THEN [blocked EXCEPT ![key] = @ \cup {k}] ELSE blocked
  <2>1. PlainOps' /\ LoopShape' /\ ExitFits' /\ WakesJustified' /\ SliceWakes' /\ RemovedFits'
    BY <1>1, <1>f, <1>11, QuietFrame, Zenon
  <2>2. BlockedIsIndexed'
    <3> SUFFICES ASSUME NEW u \in Tasks, tasks'[u][1] = "blocked" PROVE u \in blocked'[tasks'[u][2]]
      BY Zenon DEF BlockedIsIndexed, IsBlocked
    <3>1. CASE u # k
      <4>1. tasks'[u] = tasks[u] /\ IsBlocked(u)
        BY <1>4, <1>11, <3>1, Zenon DEF IsBlocked
      <4>2. \A w \in WakeKeys : u \in blocked[w] => u \in blocked'[w]
        BY <1>3, <1>4, <1>11, Zenon
      <4> QED BY <1>8, <4>1, <4>2, Zenon
    <3>2. CASE u = k
      <4>1. Status(k) = "blocked" /\ tasks'[k] = Blocked(key)
        BY <1>4, <1>11, <3>2, Zenon DEF Waiting, None
      <4>2. k \in blocked'[key]
        BY <1>3, <1>4, <1>11, <4>1, Zenon
      <4> QED BY <3>2, <4>1, <4>2, SMTT(30) DEF Blocked
    <3> QED BY <3>1, <3>2, Zenon
  <2>3. Covered'
    <3> SUFFICES ASSUME NEW u \in Tasks, Status(u) \in {"ready", "blocked"} PROVE HasPlace(u)'
      BY <1>1, CoreSame, Zenon DEF Covered
    <3>1. CASE u = k
      <4>1. state[k] = "blocked" /\ ~BlockReady(k) /\ Status(k) = "blocked"
        BY <1>11, <3>1, StatusCases, Zenon
      <4>2. tasks'[k] = Blocked(key)
        BY <1>4, <1>11, <4>1, Zenon
      <4>3. /\ BlockReady(k)' <=> BlockReady(k)
            /\ BlockWakeKey(k, request[k])' = BlockWakeKey(k, request[k])
        BY <1>1, CoreSame, Zenon
      <4>4. Settled(k)'
        BY <1>1, <1>3, <4>1, <4>2, <4>3, Zenon DEF Settled
      <4> QED BY <3>1, <4>4, SettledPlace, Zenon
    <3>2. CASE u # k
      BY <1>4, <1>7, <1>11, <3>2, Zenon
    <3> QED BY <3>1, <3>2, Zenon
  <2> QED BY <1>5, <2>1, <2>2, <2>3, Zenon
<1> QED BY <1>6, <1>9, <1>10, <1>11, Zenon

LEMMA SliceYieldsKeeps ==
  ASSUME WInv, TInv', SliceYields
  PROVE  WInv'
<1> USE DEF WInv
<1>1. /\ pc = "slice" /\ pc' = "drain" /\ exit' = Yielded /\ state[current] = "ready" /\ exit = None
      /\ woken = {} /\ direct = <<>>
      /\ UNCHANGED coreVars
      /\ UNCHANGED <<state, request, tasks, blocked, woken, direct, removed, wakes, readied, current, procs>>
      /\ removed \subseteq Tasks
  BY Zenon DEF SliceYields, LoopShape, worldVars, drainVars, indexVars, coreVars, TInv, TypeOK, WorldTypes
<1>2. PlainOps' /\ LoopShape' /\ SliceWakes' /\ BlockedIsIndexed'
  BY <1>1, Zenon DEF PlainOps, LoopShape, SliceWakes, BlockedIsIndexed, IsBlocked
<1>3. ExitFits'
  BY <1>1, Zenon DEF ExitFits
<1>4. NoSelfSend' /\ WakesJustified' /\ RemovedFits'
  BY <1>1, CoreSame, Zenon DEF WakesJustified, InDirect, RemovedFits
<1>5. Covered'
  <2> SUFFICES ASSUME NEW u \in Tasks, Status(u) \in {"ready", "blocked"} PROVE HasPlace(u)'
    BY <1>1, CoreSame, Zenon DEF Covered
  <2>1. HasPlace(u)
    BY Zenon DEF Covered
  <2>2. /\ BlockReady(u)' <=> BlockReady(u)
        /\ BlockWakeKey(u, request[u])' = BlockWakeKey(u, request[u])
    BY <1>1, CoreSame, Zenon
  <2>3. exit' # None
    BY <1>1, Zenon DEF Yielded, None
  <2> QED BY <1>1, <2>1, <2>2, <2>3, Zenon DEF HasPlace, IsQueued, UnderWay, InDirect
<1> QED BY <1>2, <1>3, <1>4, <1>5, Zenon

(* A task that ends: whoever waits for it has its key in the batch. *)
LEMMA SliceEndsKeeps ==
  ASSUME WInv, TInv', SliceEnds
  PROVE  WInv'
<1> USE DEF WInv
<1>1. PICK c \in Tasks : c = current
  BY Zenon DEF TInv, TypeOK, LoopTypes
<1>2. /\ WorldTypes /\ IndexTypes /\ LoopTypes
      /\ pc = "slice" /\ pc' = "drain" /\ exit' = None /\ woken = {} /\ direct = <<>> /\ woken' = {}
      /\ direct' = <<Send(c), Done(c)>>
      /\ state[c] = "ready" /\ state' = [state EXCEPT ![c] = "done"]
      /\ wakes' = wakes \cup {Done(c), Send(c)}
      /\ procs' = procs \ {c}
      /\ removed' \subseteq removed \cup {c}
      /\ UNCHANGED <<request, queued, closed, paused, readied>>
      /\ DropTask(c)
  BY <1>1, Zenon DEF SliceEnds, Retire, LoopShape, TInv, TypeOK
<1>3. /\ state \in [Tasks -> {"empty", "ready", "blocked", "waiting", "done", "faulted"}]
      /\ request \in [Tasks -> Requests \cup {NoRequest}]
      /\ wakes \subseteq WakeKeys /\ removed \subseteq Tasks
  BY <1>2, Zenon DEF WorldTypes
<1>4. \A u \in Tasks : Terminal(u)' <=> Terminal(u) \/ u = c
  BY <1>2, <1>3, Zenon DEF Terminal
<1>5. \A w \in WakeKeys : KeyReady(w) => KeyReady(w)'
  BY <1>2, <1>4 DEF KeyReady, WakeKeys
<1>6. KeyReady(Send(c))' /\ KeyReady(Done(c))'
  <2>1. Terminal(c)'
    BY <1>4, Zenon
  <2> QED BY <2>1 DEF KeyReady, Send, Done
<1>7. PlainOps' /\ LoopShape' /\ SliceWakes' /\ ExitFits'
  BY <1>2, Zenon DEF PlainOps, LoopShape, SliceWakes, ExitFits
<1>8. NoSelfSend'
  BY <1>2, <1>3, Zenon DEF NoSelfSend
<1>9. WakesJustified'
  <2>1. \A w : InDirect(w)' => w \in {Send(c), Done(c)}
    <3>1. \A i \in DOMAIN direct' : direct'[i] \in {Send(c), Done(c)}
      BY <1>2
    <3> QED BY <3>1, Zenon DEF InDirect
  <2>2. \A w \in wakes' : KeyReady(w)'
    BY <1>2, <1>3, <1>5, <1>6, Zenon DEF WakesJustified
  <2>3. \A w \in WakeKeys : InDirect(w)' => KeyReady(w)'
    BY <1>6, <2>1, Zenon
  <2> QED BY <1>2, <2>2, <2>3, Zenon DEF WakesJustified
<1>10. RemovedFits'
  BY <1>2, <1>3, <1>4, Zenon DEF RemovedFits
<1>11. OthersStay(c) /\ tasks'[c] = None
  BY <1>2, IndexOperations, Zenon
<1>12. BlockedIsIndexed'
  <2> SUFFICES ASSUME NEW u \in Tasks, tasks'[u][1] = "blocked" PROVE u \in blocked'[tasks'[u][2]]
    BY Zenon DEF BlockedIsIndexed, IsBlocked
  <2>1. u # c /\ tasks'[u] = tasks[u] /\ IsBlocked(u)
    BY <1>11 DEF None, OthersStay, IsBlocked
  <2>2. tasks[u][2] \in WakeKeys
    BY <1>2, <2>1, EntryShapes, Zenon
  <2> QED BY <1>2, <1>11, <2>1, <2>2, Zenon DEF BlockedIsIndexed, OthersStay
<1>13. Covered'
  <2> SUFFICES ASSUME NEW u \in Tasks, Status(u)' \in {"ready", "blocked"} PROVE HasPlace(u)'
    BY Zenon DEF Covered
  <2>1. u # c /\ state'[u] = state[u] /\ tasks'[u] = tasks[u]
    <3>1. ~Terminal(u)'
      BY Zenon DEF Status
    <3> QED BY <1>2, <1>3, <1>4, <1>11, <3>1, Zenon DEF OthersStay
  <2>2. Status(u) \in {"ready", "blocked"}
    BY <1>2, <1>4, <2>1, Zenon DEF Status
  <2>3. HasPlace(u)
    BY <2>2, Zenon DEF Covered
  <2>4. request[u].to \in Tasks
    BY <1>3 DEF Requests, NoRequest, Tasks
  <2>5. PICK w : w = BlockWakeKey(u, request[u]) /\ w = BlockWakeKey(u, request[u])'
    BY <1>2, Zenon DEF BlockWakeKey
  <2>6. BlockReady(u)' => BlockReady(u) \/ w \in {Send(c), Done(c)}
    BY <1>2, <1>4, <2>4, <2>5, Zenon DEF BlockReady, Accepts, BlockWakeKey
  <2>7. (BlockReady(u) => UnderWay(u, w)) => (BlockReady(u)' => UnderWay(u, w)')
    BY <1>2, <2>6 DEF UnderWay, InDirect
  <2>8. state[request[u].to] = "faulted" => state'[request[u].to] = "faulted"
    BY <1>2, <1>3, <2>4, Zenon
  <2> QED BY <1>1, <1>2, <2>1, <2>3, <2>5, <2>7, <2>8, Zenon DEF HasPlace, IsQueued
<1> QED BY <1>7, <1>8, <1>9, <1>10, <1>12, <1>13, Zenon

(* fail_waiting and fail_every_block: whoever waits for a faulted machine  *)
(* is told by no event.                                                    *)
LEMMA FailKeeps ==
  ASSUME WInv, TInv', pc = "pick", pc' = "drain", NEW S \in SUBSET Tasks, FailTasks(S),
         tasks' = [t \in Tasks |-> IF t \in S THEN None ELSE tasks[t]],
         \A t \in Tasks \ S : \A w \in WakeKeys : t \in blocked[w] => t \in blocked'[w],
         UNCHANGED <<direct, woken, current, exit>>
  PROVE  WInv'
<1> USE DEF WInv
<1>1. /\ WorldTypes /\ IndexTypes
      /\ woken = {} /\ direct = <<>> /\ removed = {} /\ FaultWakes /\ exit = None
      /\ state' = [t \in Tasks |-> IF t \in S THEN "faulted" ELSE state[t]]
      /\ request' = [t \in Tasks |-> IF t \in S THEN NoRequest ELSE request[t]]
      /\ UNCHANGED <<queued, closed, paused, procs, removed, wakes>>
  BY Zenon DEF FailTasks, TInv, TypeOK, LoopShape
<1>2. request \in [Tasks -> Requests \cup {NoRequest}]
  BY <1>1, Zenon DEF WorldTypes
<1>f. FaultWakes'
  <2>1. wakes \subseteq WakeKeys
    BY <1>1, Zenon DEF WorldTypes
  <2> QED BY <1>1, <2>1, SMT DEF FaultWakes, WakeKeys
<1>3. PlainOps' /\ LoopShape' /\ ExitFits' /\ WakesJustified' /\ SliceWakes' /\ RemovedFits'
  BY <1>1, <1>f, QuietFrame, Zenon
<1>4. NoSelfSend'
  BY <1>1, Zenon DEF NoSelfSend
<1>5. BlockedIsIndexed'
  <2> SUFFICES ASSUME NEW u \in Tasks, tasks'[u][1] = "blocked" PROVE u \in blocked'[tasks'[u][2]]
    BY Zenon DEF BlockedIsIndexed, IsBlocked
  <2>1. u \notin S /\ tasks'[u] = tasks[u] /\ IsBlocked(u)
    BY Zenon DEF None, IsBlocked
  <2>2. tasks[u][2] \in WakeKeys
    BY <1>1, <2>1, EntryShapes, Zenon
  <2> QED BY <1>1, <2>1, <2>2, Zenon DEF BlockedIsIndexed
<1>6. \A u \in Tasks : Terminal(u)' <=> Terminal(u) \/ state'[u] = "faulted"
  BY <1>1, Zenon DEF Terminal
<1>7. Covered'
  <2> SUFFICES ASSUME NEW u \in Tasks, Status(u)' \in {"ready", "blocked"} PROVE Settled(u)'
    BY SettledPlace, Zenon DEF Covered
  <2>1. u \notin S /\ state'[u] = state[u] /\ tasks'[u] = tasks[u] /\ request'[u] = request[u]
    <3>1. ~Terminal(u)'
      BY Zenon DEF Status
    <3> QED BY <1>1, <1>6, <3>1, Zenon
  <2>2. ~Terminal(u)
    BY <1>6, Zenon DEF Status
  <2>3. Status(u) \in {"ready", "blocked"}
    BY <1>1, <2>1, <2>2, Zenon DEF Status
  <2>4. Settled(u)
    BY <2>3, AtRest, ZenonT(30)
  <2>5. request[u].to \in Tasks
    BY <1>2 DEF Requests, NoRequest, Tasks
  <2>6. BlockWakeKey(u, request[u])' = BlockWakeKey(u, request[u])
    BY <1>1, <2>1, Zenon DEF BlockWakeKey
  <2>7. BlockReady(u)' => BlockReady(u) \/ state'[request[u].to] = "faulted"
    BY <1>1, <1>6, <2>1, <2>5, Zenon DEF BlockReady, Accepts
  <2>8. state[request[u].to] = "faulted" => state'[request[u].to] = "faulted"
    BY <1>1, <2>5, Zenon
  <2> QED BY <2>1, <2>4, <2>6, <2>7, <2>8, Zenon DEF Settled, IsQueued
<1> QED BY <1>3, <1>4, <1>5, <1>7, Zenon

(* At the pick nothing is under way, so every ready task is queued. *)
LEMMA WInvReady ==
  ASSUME WInv
  PROVE  ReadyIsQueued
<1> SUFFICES ASSUME pc = "pick", NEW t \in Tasks, Status(t) = "ready"
             PROVE  IsQueued(t) \/ (state[t] = "blocked" /\ state[request[t].to] = "faulted")
  BY Zenon DEF ReadyIsQueued
<1>1. Settled(t)
  BY AtRest, Zenon
<1>2. state[t] = "blocked" => BlockReady(t)
  BY StatusCases, Zenon
<1> QED BY <1>1, <1>2, Zenon DEF Settled

------------------------------------------------------------------------------
(* The inductive invariants. *)

(* A queued task has an entry, and the tickets of the entries run on from  *)
(* one to the next up to ready_ticket, modulo TicketSpace.                 *)
HasEntry ==
    \A t \in Tasks : IsQueued(t) => \E i \in DOMAIN ready : ready[i] = <<t, tasks[t][2]>>

Fits == Len(ready) <= TicketSpace

Wrap(k) == IF k < TicketSpace THEN k ELSE k - TicketSpace

TicketsRun ==
    \A i \in DOMAIN ready : ready_ticket = Wrap(ready[i][2] + Len(ready) + 1 - i)


(* The ticket after the one that is k steps from the start. *)
LEMMA WrapNext ==
  ASSUME NEW k \in 0..(2 * TicketSpace - 2)
  PROVE  Wrap(k + 1) = IF Wrap(k) + 1 < TicketSpace THEN Wrap(k) + 1 ELSE 0
BY TicketSpacePositive DEF Wrap

------------------------------------------------------------------------------
(* Least elements. *)

LEMMA TasksAreNats == Tasks \subseteq Nat
  BY ProcsPositive DEF Tasks, Root

LEMMA NatMinimum ==
  ASSUME NEW S \in SUBSET Nat, S # {}
  PROVE  \E m \in S : \A n \in S : m <= n
<1>1. PICK m \in S : \A n \in S : <<n, m>> \notin OpToRel(<, Nat)
  BY NatLessThanWellFounded, WFMin, Zenon
<1>2. \A n \in S : ~(n < m)
  BY <1>1, Zenon DEF OpToRel
<1> QED BY <1>2

(* The least machine of a batch of events is one of the batch. *)
LEMMA LeastIn ==
  ASSUME NEW S \in SUBSET Tasks, S # {}
  PROVE  Least(S) \in S
<1>1. \E m \in S : \A n \in S : m <= n
  BY TasksAreNats, NatMinimum, Zenon
<1> QED BY <1>1, Zenon DEF Least

(* The least key of a batch of wakes is one of the batch. *)
LEMMA LeastKeyIn ==
  ASSUME NEW S \in SUBSET WakeKeys, S # {}
  PROVE  LeastKey(S) \in S
<1> DEFINE Lanes == {w[1] : w \in S}
<1>1. \A w \in S : w[1] \in Nat /\ w[2] \in Nat
  <2> TAKE w \in S
  <2>1. w[1] \in 0..2 /\ w[2] \in Tasks
    BY Zenon DEF WakeKeys
  <2>2. w[1] \in Nat
    BY <2>1
  <2>3. w[2] \in Nat
    BY <2>1, TasksAreNats, Zenon
  <2> QED BY <2>2, <2>3, Zenon
<1>2. PICK lane \in Lanes : \A n \in Lanes : lane <= n
  <2> Lanes \in SUBSET Nat /\ Lanes # {}
    BY <1>1, Zenon
  <2> QED BY NatMinimum, Zenon
<1> DEFINE Second == {w[2] : w \in {v \in S : v[1] = lane}}
<1>3. PICK least \in Second : \A n \in Second : least <= n
  <2> Second \in SUBSET Nat /\ Second # {}
    BY <1>1, <1>2, Zenon
  <2> QED BY NatMinimum, Zenon
<1>4. PICK w \in S : w[1] = lane /\ w[2] = least
  BY <1>3, Zenon
<1>5. \A v \in S : w[1] < v[1] \/ (w[1] = v[1] /\ w[2] <= v[2])
  BY <1>1, <1>2, <1>3, <1>4, SMTT(30)
<1> QED BY <1>5, Zenon DEF LeastKey

------------------------------------------------------------------------------
(* Types. *)

LEMMA TicketTypes ==
  ASSUME ready_ticket \in Tickets
  PROVE  /\ (ready_ticket + 1) % TicketSpace \in Tickets
         /\ (ready_ticket + 1) % TicketSpace =
                IF ready_ticket + 1 < TicketSpace THEN ready_ticket + 1 ELSE 0
  BY TicketSpacePositive DEF Tickets

LEMMA EnqueueTypes ==
  ASSUME IndexTypes, NEW t \in Tasks, Enqueue(t)
  PROVE  IndexTypes'
<1>1. CASE IsQueued(t)
  BY <1>1, Zenon DEF Enqueue, indexVars, IndexTypes
<1>2. CASE ~IsQueued(t)
  <2>1. tasks' = [tasks EXCEPT ![t] = Queued(ready_ticket)]
        /\ ready' = Append(ready, <<t, ready_ticket>>)
        /\ ready_ticket' = (ready_ticket + 1) % TicketSpace
        /\ blocked' = BlockedWithout(t) /\ waiting' = WaitingWithout(t)
    BY <1>2, Zenon DEF Enqueue
  <2>2. ready' \in Seq(Tasks \X Tickets) /\ ready_ticket' \in Tickets
    BY <2>1, TicketTypes DEF IndexTypes
  <2>3. Queued(ready_ticket) \in {Queued(k) : k \in Tickets}
    BY Zenon DEF IndexTypes
  <2> QED BY <2>1, <2>2, <2>3, WithoutTypes, Zenon DEF IndexTypes
<1> QED BY <1>1, <1>2, Zenon

LEMMA BlockTypes ==
  ASSUME IndexTypes, NEW t \in Tasks, NEW w \in WakeKeys, Block(t, w)
  PROVE  IndexTypes'
<1>1. CASE tasks[t] = Blocked(w)
  BY <1>1, Zenon DEF Block, indexVars, IndexTypes
<1>2. CASE tasks[t] # Blocked(w)
  <2>1. tasks' = [tasks EXCEPT ![t] = Blocked(w)]
        /\ blocked' = [BlockedWithout(t) EXCEPT ![w] = @ \cup {t}]
        /\ waiting' = WaitingWithout(t)
        /\ UNCHANGED <<ready, ready_ticket>>
    BY <1>2, Zenon DEF Block
  <2>2. blocked' \in [WakeKeys -> SUBSET Tasks]
    BY <2>1, WithoutTypes, Zenon
  <2>3. Blocked(w) \in {Blocked(v) : v \in WakeKeys}
    BY Zenon
  <2> QED BY <2>1, <2>2, <2>3, WithoutTypes, Zenon DEF IndexTypes
<1> QED BY <1>1, <1>2, Zenon

LEMMA WaitTypes ==
  ASSUME IndexTypes, NEW t \in Tasks, Wait(t)
  PROVE  IndexTypes'
  BY WithoutTypes, Zenon DEF Wait, indexVars, IndexTypes

LEMMA DropTypes ==
  ASSUME IndexTypes, NEW t \in Tasks, DropTask(t)
  PROVE  IndexTypes'
  BY WithoutTypes, Zenon DEF DropTask, IndexTypes

LEMMA RefreshTypes ==
  ASSUME IndexTypes, WorldTypes, NEW t \in Tasks, Refresh(t)
  PROVE  IndexTypes'
<1>1. BlockWakeKey(t, request[t]) \in WakeKeys
  BY KeyTypes, Zenon DEF WorldTypes
<1> QED BY <1>1, EnqueueTypes, BlockTypes, WaitTypes, DropTypes, Zenon DEF Refresh

LEMMA AnswerTypes ==
  ASSUME ExecTypes, NEW t \in Tasks, Answer(t)
  PROVE  /\ state' \in [Tasks -> {"empty", "ready", "blocked", "waiting", "done", "faulted"}]
         /\ request' \in [Tasks -> Requests \cup {NoRequest}]
  BY Zenon DEF ExecTypes, Answer

LEMMA BlockMachineTypes ==
  ASSUME ExecTypes, NEW t \in Tasks, NEW r \in Requests, BlockMachine(t, r)
  PROVE  /\ state' \in [Tasks -> {"empty", "ready", "blocked", "waiting", "done", "faulted"}]
         /\ request' \in [Tasks -> Requests \cup {NoRequest}]
  BY Zenon DEF ExecTypes, BlockMachine

LEMMA ProcExecTypes ==
  ASSUME ExecTypes, NEW t \in Tasks, NEW r \in Requests, r.to \in Tasks,
         r.op = "spawn" \/ r.op = "resume" => r.to \in Procs,
         ProcExec(t, r)
  PROVE  ExecTypes'
<1> DEFINE keys == {Receive(r.to), Send(r.to), Done(r.to), Send(t)}
<1>k. keys \subseteq WakeKeys
  BY DEF Receive, Send, Done, WakeKeys
<1>1. CASE ProcSend(t, r)
  <2>1. queued' \in [Tasks -> 0..MailboxLimit]
    BY <1>1, LimitIsNat DEF ProcSend, ExecTypes, Accepts
  <2>2. wakes' \subseteq WakeKeys
    BY <1>1, <1>k, Zenon DEF ProcSend, ExecTypes
  <2>3. Answer(t) \/ BlockMachine(t, r)
    BY <1>1, Zenon DEF ProcSend
  <2> QED BY <1>1, <2>1, <2>2, <2>3, AnswerTypes, BlockMachineTypes, Zenon DEF ProcSend, ExecTypes
<1>2. CASE ProcClose(t, r)
  BY <1>2, <1>k, AnswerTypes, Zenon DEF ProcClose, ExecTypes
<1>3. CASE ProcRecv(t, r)
  <2>1. queued' \in [Tasks -> 0..MailboxLimit]
    BY <1>3, LimitIsNat DEF ProcRecv, ExecTypes
  <2>2. wakes' \subseteq WakeKeys
    BY <1>3, <1>k, Zenon DEF ProcRecv, ExecTypes
  <2>3. Answer(t) \/ BlockMachine(t, r)
    BY <1>3, Zenon DEF ProcRecv
  <2> QED BY <1>3, <2>1, <2>2, <2>3, AnswerTypes, BlockMachineTypes, Zenon DEF ProcRecv, ExecTypes
<1>4. CASE ProcDone(t, r)
  BY <1>4, AnswerTypes, BlockMachineTypes, Zenon DEF ProcDone, ExecTypes
<1>5. CASE ProcSpawn(t, r)
  BY <1>5, Zenon DEF ProcSpawn, ExecTypes
<1>6. CASE ProcPause(t, r)
  BY <1>6, AnswerTypes, Zenon DEF ProcPause, ExecTypes
<1>7. CASE ProcResume(t, r)
  BY <1>7, AnswerTypes, ZenonT(30) DEF ProcResume, ExecTypes
<1>8. CASE RunHeld(t, r)
  BY <1>8, <1>k, Zenon DEF RunHeld, ExecTypes
<1>9. CASE Snapshot(t, r)
  <2>1. PICK set \in SUBSET Spawned :
             /\ removed' = removed \cup (set \cap (procs \cup {Root}))
             /\ wakes' = wakes \cup {Send(u) : u \in set}
             /\ readied' = readied \cup (set \cap (procs \cup {Root}))
    BY <1>9, Zenon DEF Snapshot
  <2>2. set \subseteq Tasks
    BY Zenon DEF Spawned
  <2>3. {Send(u) : u \in set} \subseteq WakeKeys
    BY <2>2 DEF Send, WakeKeys
  <2> QED BY <1>9, <2>1, <2>2, <2>3, AnswerTypes, Zenon DEF Snapshot, ExecTypes
<1>10. CASE HostStart(t, r)
  BY <1>10, Zenon DEF HostStart, ExecTypes
<1> QED BY <1>1, <1>2, <1>3, <1>4, <1>5, <1>6, <1>7, <1>8, <1>9, <1>10, Zenon DEF ProcExec

LEMMA ExecRequestsFit ==
  ASSUME ExecTypes, RequestsFit, NEW t \in Tasks, NEW r \in Requests, r.to \in Tasks,
         ProcExec(t, r)
  PROVE  RequestsFit'
<1>1. (Answer(t) \/ (BlockMachine(t, r) /\ r.op \in {"send", "recv", "done"}))
        => RequestsFit'
  BY Zenon DEF Answer, BlockMachine, RequestsFit, ExecTypes
<1>2. CASE ProcSend(t, r) \/ ProcRecv(t, r) \/ ProcDone(t, r)
  BY <1>2, <1>1, Zenon DEF ProcSend, ProcRecv, ProcDone
<1>3. CASE ProcClose(t, r) \/ ProcPause(t, r) \/ ProcResume(t, r) \/ Snapshot(t, r)
  BY <1>3, <1>1, Zenon DEF ProcClose, ProcPause, ProcResume, Snapshot
<1>4. CASE ProcSpawn(t, r) \/ RunHeld(t, r) \/ HostStart(t, r)
  BY <1>4, Zenon DEF ProcSpawn, RunHeld, HostStart, RequestsFit, ExecTypes
<1> QED BY <1>2, <1>3, <1>4, Zenon DEF ProcExec

(* What the current task does in its slice is one operation of proc_exec. *)
LEMMA OperationExec ==
  ASSUME WorldTypes, RequestsFit, NEW t \in Tasks, Perform(t) \/ CompleteBlocked(t)
  PROVE  /\ \E r \in Requests :
                /\ r.to \in Tasks
                /\ r.op = "spawn" \/ r.op = "resume" => r.to \in Procs
                /\ ProcExec(t, r)
         /\ budget' \in [Tasks -> Nat]
<1>1. CASE Perform(t)
  <2>0. PICK op \in Ops \ {"self"} :
             \E u \in Targets(t, op) : ProcExec(t, [op |-> op, to |-> u])
    BY <1>1, Zenon DEF Perform
  <2>1. PICK u \in Targets(t, op) : ProcExec(t, [op |-> op, to |-> u])
    BY <2>0, Zenon
  <2> DEFINE r == [op |-> op, to |-> u]
  <2>2. r.op = op /\ r.to = u
    BY Zenon
  <2>3. op \in {"send", "close", "done", "spawn", "pause", "resume", "held",
                "snapshot", "recv", "host"}
    BY <2>1, <2>2, ZenonT(30) DEF ProcExec, ProcSend, ProcClose, ProcRecv, ProcDone, ProcSpawn, ProcPause,
         ProcResume, RunHeld, Snapshot, HostStart
  <2>4. u \in Tasks /\ (op \notin {"recv", "host"} => u \in Procs)
    BY PerformRequest, Zenon
  <2>5. r \in Requests
    BY <2>3, <2>4, Zenon DEF Requests
  <2>6. budget' \in [Tasks -> Nat]
    BY <1>1 DEF Perform, WorldTypes
  <2> QED BY <2>1, <2>2, <2>4, <2>5, <2>6, Zenon
<1>2. CASE CompleteBlocked(t)
  <2>1. ProcExec(t, request[t]) /\ state[t] = "blocked" /\ UNCHANGED budget
    BY <1>2, Zenon DEF CompleteBlocked
  <2>2. request[t] \in Requests /\ request[t].to \in Tasks
    BY <2>1, ExecRequest, Zenon DEF WorldTypes
  <2>3. request[t].op \in {"send", "recv", "done"}
    BY <2>1, Zenon DEF RequestsFit
  <2> QED BY <2>1, <2>2, <2>3, Zenon DEF WorldTypes
<1> QED BY <1>1, <1>2, Zenon

LEMMA TakeTypes ==
  ASSUME IndexTypes, NEW w \in WakeKeys, TakeWaiters(w)
  PROVE  IndexTypes' /\ woken' \subseteq [wake: WakeKeys, task: Tasks]
  BY DEF TakeWaiters, IndexTypes

LEMMA CompletionTypes ==
  ASSUME WorldTypes, IndexTypes, NEW t \in Tasks, CompleteCompletion(t)
  PROVE  WorldTypes' /\ IndexTypes'
<1>1. WorldTypes'
  <2>1. {Done(t), Send(t)} \subseteq WakeKeys
    BY DEF Done, Send, WakeKeys
  <2>2. CASE InstallCompletion(t)
    BY <2>2, Zenon DEF InstallCompletion, WorldTypes
  <2>3. CASE InstallFails(t)
    BY <2>1, <2>3, Zenon DEF InstallFails, WorldTypes
  <2> QED BY <2>2, <2>3, Zenon DEF CompleteCompletion
<1>2. ready' \in Seq(Tasks \X Tickets) /\ ready_ticket' \in Tickets
  <2>1. \/ UNCHANGED <<ready, ready_ticket>>
        \/ ready' = Append(ready, <<t, ready_ticket>>)
           /\ ready_ticket' = (ready_ticket + 1) % TicketSpace
    BY Zenon DEF CompleteCompletion
  <2>2. ready \in Seq(Tasks \X Tickets) /\ ready_ticket \in Tickets
    BY Zenon DEF IndexTypes
  <2>3. (ready_ticket + 1) % TicketSpace \in Tickets
    BY <2>2, TicketTypes, Zenon
  <2>4. CASE UNCHANGED <<ready, ready_ticket>>
    BY <2>2, <2>4, Zenon
  <2>5. CASE /\ ready' = Append(ready, <<t, ready_ticket>>)
             /\ ready_ticket' = (ready_ticket + 1) % TicketSpace
    BY <2>2, <2>3, <2>5, SMT
  <2> QED BY <2>1, <2>4, <2>5, Zenon
<1>3. Queued(ready_ticket) \in {Queued(k) : k \in Tickets}
  BY Zenon DEF IndexTypes
<1> QED BY <1>1, <1>2, <1>3, Zenon DEF CompleteCompletion, IndexTypes

LEMMA CompletionRequests ==
  ASSUME WorldTypes, RequestsFit, NEW t \in Tasks, CompleteCompletion(t)
  PROVE  RequestsFit'
  BY Zenon DEF CompleteCompletion, InstallCompletion, InstallFails, RequestsFit, WorldTypes

LEMMA FailTypes ==
  ASSUME WorldTypes, RequestsFit, NEW set, FailTasks(set)
  PROVE  WorldTypes' /\ RequestsFit'
<1>1. NoRequest \in Requests \cup {NoRequest}
  BY Zenon
<1> QED BY <1>1, Zenon DEF FailTasks, RequestsFit, WorldTypes

LEMMA TInvInit == Init => TInv
<1> SUFFICES ASSUME Init PROVE TInv
  BY Zenon
<1>1. WorldTypes
  BY TaskFacts, LimitIsNat, BudgetIsNat, SMTT(30) DEF Init, WorldInit, WorldTypes
<1>2. IndexTypes
  <2>1. 0 \in Tickets /\ 1 % TicketSpace \in Tickets
    BY TicketSpacePositive DEF Tickets
  <2>2. ready \in Seq(Tasks \X Tickets)
    BY <2>1, TaskFacts DEF Init
  <2>3. Queued(0) \in {Queued(k) : k \in Tickets}
    BY <2>1, Zenon
  <2> QED BY <2>1, <2>2, <2>3, Zenon DEF Init, IndexTypes
<1>3. LoopTypes
  BY TaskFacts DEF Init, LoopTypes
<1>4. RequestsFit
  BY Zenon DEF Init, WorldInit, RequestsFit
<1>5. suspended \subseteq Tasks
  BY Zenon DEF Init, WorldInit
<1> QED BY <1>1, <1>2, <1>3, <1>4, <1>5, Zenon DEF TInv, TypeOK

LEMMA TInvNext == TInv /\ [Next]_vars => TInv'
<1> SUFFICES ASSUME TInv, [Next]_vars PROVE TInv'
  BY Zenon
<1> USE DEF TInv, TypeOK
<1>w. ASSUME UNCHANGED worldVars PROVE WorldTypes' /\ RequestsFit'
  BY <1>w, Zenon DEF worldVars, WorldTypes, RequestsFit
<1>i. ASSUME UNCHANGED indexVars PROVE IndexTypes'
  BY <1>i, Zenon DEF indexVars, IndexTypes
<1>l. ASSUME UNCHANGED loopVars, UNCHANGED drainVars PROVE LoopTypes'
  BY <1>l, Zenon DEF loopVars, drainVars, LoopTypes
<1>s. suspended' \subseteq Tasks
  <2>1. current \in Tasks
    BY Zenon DEF LoopTypes
  <2>2. suspended' \subseteq suspended \cup {current}
    BY Zenon DEF Next, LoopStep, Returned, HostStep, WakeOne, DirectWake, PopRemoved, PopWake,
                 PopReady, FinishSlice, PollCompletion, PollNothing, NextReady, SliceOperation,
                 SliceYields, SliceEnds, HostWait, FailWaiting, FailEveryBlock, vars
  <2> QED BY <2>1, <2>2, Zenon
<1> SUFFICES WorldTypes' /\ IndexTypes' /\ LoopTypes' /\ RequestsFit'
  BY <1>s, Zenon
<1>1. CASE WakeOne
  <2>1. PICK v \in woken :
           /\ woken' = woken \ {v}
           /\ IF tasks[v.task] = Blocked(v.wake) THEN Refresh(v.task) ELSE UNCHANGED indexVars
    BY <1>1, Zenon DEF WakeOne
  <2>2. v.task \in Tasks
    BY Zenon DEF LoopTypes
  <2>3. IndexTypes'
    BY <2>1, <2>2, <1>i, RefreshTypes, Zenon
  <2>4. LoopTypes'
    BY <1>1, <2>1, Zenon DEF WakeOne, LoopTypes, loopVars
  <2> QED BY <1>1, <2>3, <2>4, <1>w, Zenon DEF WakeOne
<1>2. CASE DirectWake
  <2>1. Head(direct) \in WakeKeys /\ direct' \in Seq(WakeKeys)
    BY <1>2 DEF DirectWake, LoopTypes
  <2>2. IndexTypes' /\ woken' \subseteq [wake: WakeKeys, task: Tasks]
    BY <1>2, <2>1, TakeTypes, Zenon DEF DirectWake
  <2>3. LoopTypes'
    BY <1>2, <2>1, <2>2, Zenon DEF DirectWake, LoopTypes, loopVars
  <2> QED BY <1>2, <2>2, <2>3, <1>w, Zenon DEF DirectWake
<1>3. CASE PopRemoved
  <2>1. Least(removed) \in Tasks
    BY <1>3, LeastIn, Zenon DEF PopRemoved, WorldTypes
  <2>2. IndexTypes'
    BY <1>3, <2>1, DropTypes, Zenon DEF PopRemoved
  <2>3. WorldTypes' /\ RequestsFit'
    BY <1>3, Zenon DEF PopRemoved, WorldTypes, RequestsFit, machineVars, mailboxVars
  <2> QED BY <1>3, <2>2, <2>3, <1>l, Zenon DEF PopRemoved
<1>4. CASE PopWake
  <2>1. LeastKey(wakes) \in WakeKeys
    BY <1>4, LeastKeyIn, Zenon DEF PopWake, WorldTypes
  <2>2. IndexTypes' /\ woken' \subseteq [wake: WakeKeys, task: Tasks]
    BY <1>4, <2>1, TakeTypes, Zenon DEF PopWake
  <2>3. WorldTypes' /\ RequestsFit'
    BY <1>4, Zenon DEF PopWake, WorldTypes, RequestsFit, machineVars, mailboxVars
  <2>4. LoopTypes'
    BY <1>4, <2>2, Zenon DEF PopWake, LoopTypes, loopVars
  <2> QED BY <2>2, <2>3, <2>4, Zenon
<1>5. CASE PopReady
  <2>1. Least(readied) \in Tasks
    BY <1>5, LeastIn, Zenon DEF PopReady, WorldTypes
  <2>2. IndexTypes'
    BY <1>5, <2>1, RefreshTypes, Zenon DEF PopReady
  <2>3. WorldTypes' /\ RequestsFit'
    BY <1>5, Zenon DEF PopReady, WorldTypes, RequestsFit, machineVars, mailboxVars
  <2> QED BY <1>5, <2>2, <2>3, <1>l, Zenon DEF PopReady
<1>6. CASE FinishSlice
  <2>1. exit[1] = "blocked" => exit[2] \in WakeKeys
    BY DEF LoopTypes, None, Yielded, Waiting, Blocked
  <2>2. IndexTypes'
    <3> current \in Tasks
      BY Zenon DEF LoopTypes
    <3> QED BY <1>6, <2>1, <1>i, EnqueueTypes, WaitTypes, BlockTypes, Zenon DEF FinishSlice
  <2>3. LoopTypes'
    BY <1>6, TaskFacts, Zenon DEF FinishSlice, LoopTypes, drainVars
  <2> QED BY <1>6, <2>2, <2>3, <1>w, Zenon DEF FinishSlice
<1>7. CASE PollCompletion \/ HostWait
  <2>1. PICK t \in Tasks : CompleteCompletion(t)
    BY <1>7, Zenon DEF PollCompletion, HostWait
  <2>2. WorldTypes' /\ IndexTypes' /\ RequestsFit'
    BY <2>1, CompletionTypes, CompletionRequests, Zenon
  <2>3. LoopTypes'
    BY <1>7, Zenon DEF PollCompletion, HostWait, LoopTypes, loopVars, drainVars
  <2> QED BY <2>2, <2>3, Zenon
<1>8. CASE PollNothing
  BY <1>8, <1>w, <1>i, Zenon DEF PollNothing, LoopTypes, drainVars
<1>9. CASE NextReady
  <2> DEFINE t == Head(ready)[1]
             key == BlockWakeKey(t, request[t])
  <2>1. ready # <<>> /\ ready' = Tail(ready) /\ t \in Tasks
    BY <1>9 DEF NextReady, IndexTypes
  <2>2. key \in WakeKeys
    BY <2>1, KeyTypes, Zenon DEF WorldTypes
  <2>3. ready' \in Seq(Tasks \X Tickets)
    BY <2>1 DEF IndexTypes
  <2>4. IndexTypes' /\ pc' \in {"slice", pc} /\ current' \in {t, current}
    <3>1. Blocked(key) \in {Blocked(w) : w \in WakeKeys}
      BY <2>2, Zenon
    <3>2. CASE tasks[t] # Queued(Head(ready)[2])
      BY <1>9, <2>3, <3>2, Zenon DEF NextReady, IndexTypes
    <3>3. CASE tasks[t] = Queued(Head(ready)[2]) /\ Status(t) = "ready"
      BY <1>9, <2>1, <2>3, <3>3, Zenon DEF NextReady, IndexTypes
    <3>4. CASE tasks[t] = Queued(Head(ready)[2]) /\ Status(t) # "ready"
      <4> HIDE DEF key, t
      <4>1. /\ tasks' = [tasks EXCEPT ![t] =
                           CASE Status(t) = "blocked" -> Blocked(key)
                             [] Status(t) = "waiting" -> Waiting
                             [] OTHER -> None]
            /\ blocked' = IF Status(t) = "blocked"
                           THEN [blocked EXCEPT ![key] = @ \cup {t}] ELSE blocked
            /\ waiting' = IF Status(t) = "waiting" THEN waiting \cup {t} ELSE waiting
            /\ UNCHANGED <<pc, current, ready_ticket>>
        BY <1>9, <3>4, Zenon DEF NextReady, key, t
      <4> QED BY <2>1, <2>2, <2>3, <3>1, <4>1, Zenon DEF IndexTypes
    <3> QED BY <3>2, <3>3, <3>4, Zenon
  <2>5. LoopTypes'
    BY <1>9, <2>1, <2>4, Zenon DEF NextReady, LoopTypes, drainVars
  <2> QED BY <1>9, <2>4, <2>5, <1>w, ZenonT(30) DEF NextReady
<1>10. CASE SliceOperation
  <2>1. current \in Tasks
    BY Zenon DEF LoopTypes
  <2>2. PICK r \in Requests :
           /\ r.to \in Tasks
           /\ r.op = "spawn" \/ r.op = "resume" => r.to \in Procs
           /\ ProcExec(current, r)
    BY <1>10, <2>1, OperationExec, Zenon DEF SliceOperation
  <2>3. budget' \in [Tasks -> Nat]
    BY <1>10, <2>1, OperationExec, Zenon DEF SliceOperation
  <2>4. ExecTypes' /\ RequestsFit'
    BY <2>1, <2>2, ProcExecTypes, ExecRequestsFit, WorldIsExec, Zenon
  <2>5. WorldTypes'
    BY <2>3, <2>4, Zenon DEF WorldTypes, ExecTypes
  <2>6. BlockWakeKey(current, request'[current]) \in WakeKeys
    BY <2>1, <2>5, KeyTypes, Zenon DEF WorldTypes
  <2>7. LoopTypes'
    BY <1>10, <2>6, Zenon DEF SliceOperation, SliceGoesOn, LoopTypes, drainVars
  <2> QED BY <1>10, <2>4, <2>5, <2>7, <1>i, Zenon DEF SliceOperation
<1>11. CASE SliceYields
  BY <1>11, <1>w, <1>i, Zenon DEF SliceYields, LoopTypes, drainVars
<1>12. CASE SliceEnds
  <2>1. current \in Tasks /\ {Send(current), Done(current)} \subseteq WakeKeys
    BY DEF LoopTypes, Send, Done, WakeKeys
  <2>2. IndexTypes'
    BY <1>12, <2>1, DropTypes, Zenon DEF SliceEnds
  <2>3. WorldTypes' /\ RequestsFit'
    BY <1>12, <2>1, Zenon DEF SliceEnds, Retire, WorldTypes, RequestsFit
  <2>4. LoopTypes'
    BY <1>12, <2>1, TaskFacts, SMTT(30) DEF SliceEnds, LoopTypes
  <2> QED BY <2>2, <2>3, <2>4, Zenon
<1>13. CASE FailWaiting
  <2>1. WorldTypes' /\ RequestsFit'
    BY <1>13, FailTypes, Zenon DEF FailWaiting
  <2>2. IndexTypes'
    BY <1>13, Zenon DEF FailWaiting, IndexTypes
  <2> QED BY <1>13, <2>1, <2>2, Zenon DEF FailWaiting, LoopTypes, drainVars
<1>14. CASE FailEveryBlock
  <2>1. WorldTypes' /\ RequestsFit'
    BY <1>14, FailTypes, Zenon DEF FailEveryBlock
  <2>2. IndexTypes'
    BY <1>14, Zenon DEF FailEveryBlock, IndexTypes
  <2> QED BY <1>14, <2>1, <2>2, Zenon DEF FailEveryBlock, LoopTypes, drainVars
<1>15. CASE HostStep
  <2>1. WorldTypes' /\ RequestsFit'
    BY <1>15, Zenon DEF HostStep, HostCompletes, WorldTypes, RequestsFit
  <2> QED BY <1>15, <2>1, <1>i, <1>l, Zenon DEF HostStep
<1>16. CASE UNCHANGED vars
  BY <1>16, <1>w, <1>i, <1>l, Zenon DEF vars
<1> QED BY <1>1, <1>2, <1>3, <1>4, <1>5, <1>6, <1>7, <1>8, <1>9, <1>10, <1>11, <1>12, <1>13,
           <1>14, <1>15, <1>16, Zenon DEF Next, LoopStep, Returned

(* Type correctness of the world, the task index and the loop, for any     *)
(* programs: in particular proc_send and proc_recv keep every mailbox      *)
(* between empty and its limit, whoever refills it and however a blocked   *)
(* send is retried.                                                        *)
THEOREM SchedulerTypesCorrect == Spec => []TypeOK
<1>1. TInv => TypeOK
  BY Zenon DEF TInv
<1> QED BY <1>1, TInvInit, TInvNext, PTL DEF Spec

------------------------------------------------------------------------------
(* The ready queue: its entries and their tickets. *)

EInv == HasEntry /\ TicketsRun

(* An index operation either gives a task a new entry or only takes tasks  *)
(* out of the queued state.                                                *)
Appends(t) ==
    /\ tasks' = [tasks EXCEPT ![t] = Queued(ready_ticket)]
    /\ ready' = Append(ready, <<t, ready_ticket>>)
    /\ ready_ticket' = (ready_ticket + 1) % TicketSpace

NoneQueued ==
    /\ UNCHANGED <<ready, ready_ticket>>
    /\ \A u \in Tasks : tasks'[u] = tasks[u] \/ tasks'[u][1] # "queued"

LEMMA IndexMoves ==
  ASSUME IndexTypes, NEW t \in Tasks, NEW w
  PROVE  /\ Enqueue(t) => NoneQueued \/ Appends(t)
         /\ Block(t, w) => NoneQueued
         /\ Wait(t) => NoneQueued
         /\ DropTask(t) => NoneQueued
         /\ Refresh(t) => NoneQueued \/ Appends(t)
<1>1. Enqueue(t) => NoneQueued \/ Appends(t)
  BY Zenon DEF Enqueue, NoneQueued, Appends, indexVars
<1>2. ASSUME NEW v, Block(t, v) PROVE NoneQueued
  BY <1>2, SMTT(30) DEF Block, NoneQueued, indexVars, Blocked, IndexTypes
<1>3. Wait(t) => NoneQueued
  BY DEF Wait, NoneQueued, indexVars, Waiting, IndexTypes
<1>4. DropTask(t) => NoneQueued
  BY DEF DropTask, NoneQueued, None, IndexTypes
<1> QED BY <1>1, <1>2, <1>3, <1>4, Zenon DEF Refresh

LEMMA NoneQueuedKeeps ==
  ASSUME TInv, EInv, NoneQueued
  PROVE  EInv'
<1>1. TicketsRun'
  BY Zenon DEF NoneQueued, EInv, TicketsRun, Wrap
<1>2. HasEntry'
  BY Zenon DEF NoneQueued, EInv, HasEntry, IsQueued
<1> QED BY <1>1, <1>2, Zenon DEF EInv

(* The distance of an entry to the end of the queue grows with the queue.  *)
LEMMA NextPlace ==
  ASSUME NEW x \in Int, NEW n \in Int, NEW i \in Int
  PROVE  x + (n + 1) + 1 - i = (x + n + 1 - i) + 1
OBVIOUS

LEMMA AppendsKeeps ==
  ASSUME TInv, EInv, Fits', NEW t \in Tasks, Appends(t)
  PROVE  EInv'
<1> DEFINE e == <<t, ready_ticket>>
<1>1. /\ ready \in Seq(Tasks \X Tickets) /\ ready_ticket \in Tickets
      /\ tasks \in [Tasks -> {None, Running, Waiting} \cup {Queued(k) : k \in Tickets}
                             \cup {Blocked(w) : w \in WakeKeys}]
      /\ e \in Tasks \X Tickets
  BY Zenon DEF TInv, TypeOK, IndexTypes
<1>2. /\ Len(ready') = Len(ready) + 1 /\ DOMAIN ready' = 1..(Len(ready) + 1)
      /\ \A i \in DOMAIN ready : i \in 1..Len(ready) /\ ready'[i] = ready[i]
      /\ ready'[Len(ready) + 1] = e
      /\ DOMAIN ready = 1..Len(ready) /\ Len(ready) \in Nat
  BY <1>1 DEF Appends
<1>3. HasEntry'
  <2> SUFFICES ASSUME NEW u \in Tasks, tasks'[u][1] = "queued"
               PROVE  \E i \in DOMAIN ready' : ready'[i] = <<u, tasks'[u][2]>>
    BY Zenon DEF HasEntry, IsQueued
  <2>1. CASE u = t
    <3>1. tasks'[u][2] = ready_ticket
      BY <1>1, <2>1, Zenon DEF Appends, Queued
    <3> QED BY <1>2, <2>1, <3>1, SMTT(30)
  <2>2. CASE u # t
    <3>1. tasks'[u] = tasks[u]
      BY <1>1, <2>2, Zenon DEF Appends
    <3>2. PICK i \in DOMAIN ready : ready[i] = <<u, tasks[u][2]>>
      BY <3>1, Zenon DEF EInv, HasEntry, IsQueued
    <3> QED BY <1>2, <3>1, <3>2, SMTT(30)
  <2> QED BY <2>1, <2>2, Zenon
<1>4. TicketsRun'
  <2>1. ready_ticket' = IF ready_ticket + 1 < TicketSpace THEN ready_ticket + 1 ELSE 0
    BY <1>1, TicketTypes, Zenon DEF Appends
  <2>2. ready_ticket \in 0..(TicketSpace - 1) /\ TicketSpace \in Nat /\ TicketSpace > 0
    BY <1>1, TicketSpacePositive, SMTT(30) DEF Tickets
  <2>3. Len(ready) + 1 <= TicketSpace
    BY <1>2, Zenon DEF Fits
  <2> SUFFICES ASSUME NEW i \in DOMAIN ready'
               PROVE  ready_ticket' = Wrap(ready'[i][2] + Len(ready') + 1 - i)
    BY Zenon DEF TicketsRun
  <2>4. CASE i = Len(ready) + 1
    <3>1. ready'[i][2] = ready_ticket
      BY <1>2, <2>4, SMTT(30)
    <3> QED BY <1>2, <2>1, <2>2, <2>4, <3>1, SMTT(30) DEF Wrap
  <2>5. CASE i # Len(ready) + 1
    <3>1. i \in DOMAIN ready /\ i \in 1..Len(ready) /\ ready'[i] = ready[i]
      BY <1>2, <2>5, SMTT(30)
    <3>2. ready[i][2] \in 0..(TicketSpace - 1)
      BY <1>1, <3>1, SMTT(30) DEF Tickets
    <3> DEFINE x == ready[i][2]
               k == x + Len(ready) + 1 - i
    <3>3. ready_ticket = Wrap(k)
      BY <3>1, Zenon DEF EInv, TicketsRun
    <3>4. ready'[i][2] = x
      BY <3>1, Zenon
    <3>5. ready_ticket' = Wrap(k + 1)
      <4>1. k \in 0..(2 * TicketSpace - 2)
        BY <1>2, <2>2, <2>3, <3>1, <3>2, SMTT(30)
      <4> HIDE DEF k
      <4> QED BY <2>1, <3>3, <4>1, WrapNext, SMTT(30)
    <3>6. ready'[i][2] + Len(ready') + 1 - i = k + 1
      <4>1. x \in Int /\ i \in Int /\ Len(ready) \in Int
        BY <1>2, <3>1, <3>2, SMTT(30)
      <4>2. x + (Len(ready) + 1) + 1 - i = k + 1
        BY <4>1, NextPlace, Zenon
      <4>3. Len(ready') = Len(ready) + 1
        BY <1>2, Zenon
      <4> QED BY <3>4, <4>2, <4>3, Zenon
    <3> QED BY <3>5, <3>6, Zenon
  <2> QED BY <2>4, <2>5, Zenon
<1> QED BY <1>3, <1>4, Zenon DEF EInv

(* next_ready takes the head of the queue; a task whose valid entry that   *)
(* was is not queued any more.                                             *)
LEMMA NextReadyKeeps ==
  ASSUME TInv, EInv, NextReady
  PROVE  EInv'
<1> DEFINE t == Head(ready)[1]
<1>1. /\ ready \in Seq(Tasks \X Tickets) /\ ready # <<>> /\ ready' = Tail(ready)
      /\ UNCHANGED ready_ticket /\ t \in Tasks
      /\ tasks \in [Tasks -> {None, Running, Waiting} \cup {Queued(k) : k \in Tickets}
                             \cup {Blocked(w) : w \in WakeKeys}]
  BY DEF NextReady, TInv, TypeOK, IndexTypes
<1>2. /\ Len(ready) \in Nat /\ Len(ready') = Len(ready) - 1
      /\ DOMAIN ready = 1..Len(ready) /\ DOMAIN ready' = 1..(Len(ready) - 1)
      /\ \A i \in DOMAIN ready' : i + 1 \in DOMAIN ready /\ ready'[i] = ready[i + 1]
      /\ Head(ready) = ready[1]
  BY <1>1
<1>3. TicketsRun'
  <2> SUFFICES ASSUME NEW i \in DOMAIN ready'
               PROVE  ready_ticket' = Wrap(ready'[i][2] + Len(ready') + 1 - i)
    BY Zenon DEF TicketsRun, Wrap
  <2>1. i + 1 \in DOMAIN ready /\ ready'[i] = ready[i + 1] /\ i \in Nat
    BY <1>2
  <2>2. ready_ticket = Wrap(ready[i + 1][2] + Len(ready) + 1 - (i + 1))
    BY <2>1, Zenon DEF EInv, TicketsRun
  <2>3. ready[i + 1][2] \in Nat
    BY <1>1, <2>1, TicketSpacePositive, SMTT(30) DEF Tickets
  <2>4. ready'[i][2] + Len(ready') + 1 - i = ready[i + 1][2] + Len(ready) + 1 - (i + 1)
    <3>1. Len(ready) \in Nat /\ Len(ready') = Len(ready) - 1
      BY <1>2, Zenon
    <3>2. ready'[i][2] = ready[i + 1][2]
      BY <2>1, Zenon
    <3> DEFINE x == ready[i + 1][2]
               n == Len(ready)
    <3>3. x + (n - 1) + 1 - i = x + n + 1 - (i + 1)
      <4> x \in Nat /\ n \in Nat /\ i \in Nat
        BY <2>1, <2>3, <3>1, ZenonT(30)
      <4> HIDE DEF x, n
      <4> QED OBVIOUS
    <3> QED BY <3>1, <3>2, <3>3, Zenon
  <2> QED BY <1>1, <2>2, <2>4, Zenon
<1>4. \A u \in Tasks : tasks'[u][1] = "queued" => tasks'[u] = tasks[u]
  BY <1>1, SMTT(30) DEF NextReady, Running, Blocked, Waiting, None
<1>5. tasks[t] = Queued(Head(ready)[2]) => tasks'[t][1] # "queued"
  BY <1>1 DEF NextReady, Running, Blocked, Waiting, None
<1>6. HasEntry'
  <2> SUFFICES ASSUME NEW u \in Tasks, tasks'[u][1] = "queued"
               PROVE  \E i \in DOMAIN ready' : ready'[i] = <<u, tasks'[u][2]>>
    BY Zenon DEF HasEntry, IsQueued
  <2>1. tasks'[u] = tasks[u]
    BY <1>4, Zenon
  <2>2. PICK i \in DOMAIN ready : ready[i] = <<u, tasks[u][2]>>
    BY <2>1, Zenon DEF EInv, HasEntry, IsQueued
  <2>3. tasks[u] = Queued(tasks[u][2])
    BY <2>1, EntryShapes, Zenon DEF IsQueued, TInv, TypeOK
  <2>4. i # 1
    <3> SUFFICES ASSUME i = 1 PROVE FALSE
      BY Zenon
    <3>1. t = u /\ Head(ready)[2] = tasks[u][2]
      BY <1>2, <2>2, SMTT(30)
    <3> QED BY <1>5, <2>3, <3>1, Zenon
  <2>5. i - 1 \in DOMAIN ready' /\ i = (i - 1) + 1
    BY <1>2, <2>4
  <2> QED BY <1>2, <2>1, <2>2, <2>5, Zenon
<1> QED BY <1>3, <1>6, Zenon DEF EInv

LEMMA EInvInit == Init => EInv
<1> SUFFICES ASSUME Init PROVE EInv
  BY Zenon
<1>1. ready = <<<<Root, 0>>>> /\ Len(ready) = 1 /\ DOMAIN ready = {1} /\ ready[1] = <<Root, 0>>
  BY DEF Init
<1>2. HasEntry
  BY <1>1, Zenon DEF Init, HasEntry, IsQueued, Queued, None
<1>3. TicketsRun
  <2>1. 1 % TicketSpace = Wrap(1)
    BY TicketSpacePositive DEF Wrap
  <2>2. ready[1][2] + Len(ready) + 1 - 1 = 1
    BY <1>1
  <2> QED BY <1>1, <2>1, <2>2, Zenon DEF Init, TicketsRun
<1> QED BY <1>2, <1>3, Zenon DEF EInv

LEMMA EInvNext == TInv /\ EInv /\ Fits' /\ [Next]_vars => EInv'
<1> SUFFICES ASSUME TInv, EInv, Fits', [Next]_vars PROVE EInv'
  BY Zenon
<1> IndexTypes /\ WorldTypes /\ LoopTypes
  BY Zenon DEF TInv, TypeOK
<1>m. ASSUME NEW t \in Tasks, NoneQueued \/ Appends(t) PROVE EInv'
  BY <1>m, NoneQueuedKeeps, AppendsKeeps, Zenon
<1>n. NoneQueued => EInv'
  BY NoneQueuedKeeps, Zenon
<1>i. UNCHANGED indexVars => EInv'
  BY <1>n, Zenon DEF indexVars, NoneQueued
<1>1. CASE WakeOne
  <2>1. PICK v \in woken :
           IF tasks[v.task] = Blocked(v.wake) THEN Refresh(v.task) ELSE UNCHANGED indexVars
    BY <1>1, Zenon DEF WakeOne
  <2>2. v.task \in Tasks
    BY Zenon DEF LoopTypes
  <2> QED BY <2>1, <2>2, <1>i, <1>m, IndexMoves, Zenon
<1>2. CASE DirectWake \/ PopWake
  BY <1>2, <1>n, Zenon DEF DirectWake, PopWake, TakeWaiters, NoneQueued
<1>3. CASE PopRemoved
  <2>1. Least(removed) \in Tasks
    BY <1>3, LeastIn, Zenon DEF PopRemoved, WorldTypes
  <2> QED BY <1>3, <2>1, <1>n, IndexMoves, Zenon DEF PopRemoved
<1>4. CASE PopReady
  <2>1. Least(readied) \in Tasks
    BY <1>4, LeastIn, Zenon DEF PopReady, WorldTypes
  <2> QED BY <1>4, <2>1, <1>m, IndexMoves, Zenon DEF PopReady
<1>5. CASE FinishSlice
  <2>1. current \in Tasks
    BY Zenon DEF LoopTypes
  <2>2. \/ Enqueue(current) \/ Wait(current) \/ Block(current, exit[2])
        \/ UNCHANGED indexVars
    BY <1>5, Zenon DEF FinishSlice
  <2> QED BY <2>1, <2>2, <1>i, <1>m, IndexMoves, Zenon
<1>6. CASE PollCompletion \/ HostWait
  <2>1. PICK t \in Tasks : CompleteCompletion(t)
    BY <1>6, Zenon DEF PollCompletion, HostWait
  <2>2. CASE tasks' = [tasks EXCEPT ![t] = None] /\ UNCHANGED <<ready, ready_ticket>>
    BY <2>2, <1>n, Zenon DEF NoneQueued, None, IndexTypes
  <2> QED BY <2>1, <2>2, <1>m, Zenon DEF CompleteCompletion, Appends
<1>7. CASE NextReady
  BY <1>7, NextReadyKeeps, Zenon
<1>8. CASE SliceEnds
  <2>1. current \in Tasks
    BY Zenon DEF LoopTypes
  <2> QED BY <1>8, <2>1, <1>n, IndexMoves, Zenon DEF SliceEnds
<1>9. CASE FailWaiting
  BY <1>9, <1>n, Zenon DEF FailWaiting, NoneQueued, None
<1>10. CASE FailEveryBlock
  BY <1>10, <1>n, Zenon DEF FailEveryBlock, NoneQueued, None
<1>11. CASE \/ PollNothing \/ SliceOperation \/ SliceYields \/ HostStep \/ UNCHANGED vars
  BY <1>11, <1>i, Zenon DEF PollNothing, SliceOperation, SliceYields, HostStep, vars
<1> QED BY <1>1, <1>2, <1>3, <1>4, <1>5, <1>6, <1>7, <1>8, <1>9, <1>10, <1>11, Zenon
        DEF Next, LoopStep, Returned

(* Two entries of a queue that fits have different tickets. *)
LEMMA TicketsDiffer ==
  ASSUME TInv, TicketsRun, Fits, NEW i \in DOMAIN ready, NEW j \in DOMAIN ready,
         ready[i][2] = ready[j][2]
  PROVE  i = j
<1> DEFINE n == Len(ready)
           x == ready[i][2]
<1>1. n \in Nat /\ i \in 1..n /\ j \in 1..n /\ n <= TicketSpace /\ x \in 0..(TicketSpace - 1)
  BY DEF TInv, TypeOK, IndexTypes, Tickets, Fits
<1>2. ready_ticket = Wrap(x + n + 1 - i) /\ ready_ticket = Wrap(x + n + 1 - j)
  BY Zenon DEF TicketsRun
<1> HIDE DEF n, x
<1> QED BY <1>1, <1>2, TicketSpacePositive, SMTT(30) DEF Wrap

LEMMA EntriesUnique == TInv /\ EInv /\ Fits => OneValidEntry
<1> SUFFICES ASSUME TInv, EInv, Fits, NEW t \in Tasks, IsQueued(t)
             PROVE  Cardinality({i \in DOMAIN ready : ready[i] = <<t, tasks[t][2]>>}) = 1
  BY Zenon DEF OneValidEntry
<1>1. PICK j \in DOMAIN ready : ready[j] = <<t, tasks[t][2]>>
  BY Zenon DEF EInv, HasEntry
<1>2. \A i \in DOMAIN ready : ready[i] = <<t, tasks[t][2]>> => ready[i][2] = ready[j][2]
  BY <1>1, Zenon
<1>3. {i \in DOMAIN ready : ready[i] = <<t, tasks[t][2]>>} = {j}
  BY <1>1, <1>2, TicketsDiffer, Zenon DEF EInv
<1> QED BY <1>3, FS_Singleton, Zenon

(* As long as the ready queue is not longer than the ticket space (2^128   *)
(* in the code), the ticket counter may wrap around as often as it likes:  *)
(* next_ready accepts exactly one entry of every queued task, whatever     *)
(* stale entries wakes, pauses, snapshots and terminations left behind.    *)
THEOREM TicketsWork == Spec /\ []Fits => []OneValidEntry
<1>1. Init => TInv /\ EInv
  BY TInvInit, EInvInit, Zenon
<1>2. TInv /\ EInv /\ Fits' /\ [Next]_vars => (TInv /\ EInv)'
  BY TInvNext, EInvNext, Zenon
<1> QED BY <1>1, <1>2, EntriesUnique, PTL DEF Spec

------------------------------------------------------------------------------
(* The wakes. *)

LEMMA WInvInit ==
  ASSUME Init, PlainOps
  PROVE  WInv
<1>1. TInv
  BY TInvInit, Zenon
<1>2. /\ pc = "poll" /\ exit = None /\ woken = {} /\ direct = <<>>
      /\ removed = {} /\ wakes = {}
      /\ state = [t \in Tasks |-> IF t = Root THEN "ready" ELSE "empty"]
      /\ tasks = [t \in Tasks |-> IF t = Root THEN Queued(0) ELSE None]
  BY Zenon DEF Init, WorldInit
<1>3. LoopShape /\ NoSelfSend /\ ExitFits /\ SliceWakes /\ RemovedFits
  BY <1>2, Zenon DEF LoopShape, FaultWakes, NoSelfSend, ExitFits, SliceWakes, RemovedFits
<1>4. WakesJustified
  BY <1>2, NoDirect, Zenon DEF WakesJustified
<1>5. BlockedIsIndexed
  BY <1>2, Zenon DEF BlockedIsIndexed, IsBlocked, Queued, None
<1>6. Covered
  BY <1>2, Zenon DEF Covered, Status, HasPlace, IsQueued, Queued
<1> QED BY <1>1, <1>3, <1>4, <1>5, <1>6, Zenon DEF WInv

LEMMA WInvNext ==
  ASSUME WInv, [Next]_vars
  PROVE  WInv'
<1>t. TInv'
  BY TInvNext, Zenon DEF WInv
<1>1. CASE LoopStep
  <2>1. PollCompletion => WInv'
    BY <1>t, CompletionKeeps, Zenon DEF PollCompletion, drainVars, loopVars
  <2>2. HostWait => WInv'
    BY <1>t, CompletionKeeps, Zenon DEF HostWait, drainVars
  <2>3. FailWaiting => WInv'
    <3>1. waiting \in SUBSET Tasks
      BY Zenon DEF WInv, TInv, TypeOK, IndexTypes
    <3> QED BY <1>t, <3>1, FailKeeps, Zenon DEF FailWaiting, drainVars
  <2>4. FailEveryBlock => WInv'
    <3> HAVE FailEveryBlock
    <3> DEFINE stuck == {t \in Tasks : IsBlocked(t)}
    <3>1. /\ FailTasks(stuck) /\ stuck \in SUBSET Tasks
          /\ tasks' = [t \in Tasks |-> IF t \in stuck THEN None ELSE tasks[t]]
          /\ blocked' = [w \in WakeKeys |-> blocked[w] \ stuck]
          /\ pc = "pick" /\ pc' = "drain" /\ UNCHANGED <<direct, woken, current, exit>>
      BY Zenon DEF FailEveryBlock, drainVars
    <3>2. \A t \in Tasks \ stuck : \A w \in WakeKeys : t \in blocked[w] => t \in blocked'[w]
      BY <3>1, Zenon
    <3> HIDE DEF stuck
    <3> QED BY <1>t, <3>1, <3>2, FailKeeps, Zenon
  <2>5. PopRemoved \/ PopWake \/ PopReady => WInv'
    <3>1. removed \in SUBSET Tasks /\ wakes \in SUBSET WakeKeys /\ readied \in SUBSET Tasks
      BY Zenon DEF WInv, TInv, TypeOK, WorldTypes
    <3>2. PopRemoved => WInv'
      BY <1>t, <3>1, LeastIn, PopRemovedKeeps, Zenon DEF PopRemoved
    <3>3. PopWake => WInv'
      BY <1>t, <3>1, LeastKeyIn, PopWakeKeeps, Zenon DEF PopWake
    <3>4. PopReady => WInv'
      BY <1>t, <3>1, LeastIn, PopReadyKeeps, Zenon DEF PopReady
    <3> QED BY <3>2, <3>3, <3>4, Zenon
  <2> QED BY <1>t, <1>1, <2>1, <2>2, <2>3, <2>4, <2>5, WakeOneKeeps, DirectWakeKeeps,
             FinishSliceKeeps, PollNothingKeeps, NextReadyPlaces,
             SliceOperationKeeps, SliceYieldsKeeps, SliceEndsKeeps, Zenon DEF LoopStep
<1>2. CASE HostStep
  BY <1>t, <1>2, SameKeeps, Zenon DEF HostStep, HostCompletes, coreVars
<1>3. CASE UNCHANGED vars
  BY <1>t, <1>3, SameKeeps, Zenon DEF vars, worldVars, coreVars
<1> QED BY <1>1, <1>2, <1>3, Zenon DEF Next, Returned

(* "Index one blocked task under every condition that can wake it": a task *)
(* the index calls blocked is never missing from the waiters of its key,   *)
(* whatever the order in which wakes, removals and returns are served, in  *)
(* programs without snapshots and without a proc's own handle.             *)
THEOREM BlockedAlwaysIndexed == Spec /\ PlainOps => []BlockedIsIndexed
<1>1. Init /\ PlainOps => WInv
  BY WInvInit, Zenon
<1>2. WInv /\ [Next]_vars => WInv'
  BY WInvNext, Zenon
<1>3. WInv => BlockedIsIndexed
  BY Zenon DEF WInv
<1> QED BY <1>1, <1>2, <1>3, PTL DEF Spec

(* No machine that could run is forgotten when next_ready chooses: no wake,*)
(* resume, close or termination is lost on the way through the event batch *)
(* (consume_events, finish_slice, finish_terminal), in the same programs.  *)
THEOREM ReadyAlwaysQueued == Spec /\ PlainOps => []ReadyIsQueued
<1>1. Init /\ PlainOps => WInv
  BY WInvInit, Zenon
<1>2. WInv /\ [Next]_vars => WInv'
  BY WInvNext, Zenon
<1>3. WInv => ReadyIsQueued
  BY WInvReady, Zenon
<1> QED BY <1>1, <1>2, <1>3, PTL DEF Spec
================================================================================
