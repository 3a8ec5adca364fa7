------------------------- MODULE CoordinatorProofs -------------------------
(* The coordinator for every set of procs and held machines, every program   *)
(* and every mailbox limit.                                                  *)
(*                                                                           *)
(* The first part is about all programs: no stack is in two places, and a    *)
(* paused proc is at rest.  Its invariant is GInv.  The second part is about *)
(* the programs that never pause or resume a proc.  Their invariant is RInv: *)
(* the coordinator implements SerialWorld.  The third part is about the      *)
(* programs that pause only procs which need no other machine.  Their        *)
(* invariant is SInv: no commit is refused.                                  *)
EXTENDS Coordinator, TLAPS

(* The tasks whose stack is at the place. *)
At(place) == {t \in Tasks : where[t] = place}

(* The queue s holds each task of S once, and nothing else. *)
Queue(s, S) ==
    /\ s \in Seq(Tasks)
    /\ IsInjective(s)
    /\ Range(s) = S

(* The coordinator has a stack in hand only while it advances it. *)
CurPlace == \A t \in Tasks : where[t] = "cur" <=> t = cur /\ pc \in {"advance", "inline"}

(* Only procs are paused. *)
Aimed(r) == r.op = "pause" => r.to \in Procs

(* Requests, and the other reasons for which a lease ends. *)
Ops == {"none", "send", "recv", "done", "pause", "resume", "run", "collect", "host", "end",
        "fresh", "spent", "recalled"}

Operation == [op : Ops, to : Machines]

(* The machines, and what their guests ask for. *)
Guests ==
    /\ WorldTypeOK
    /\ stop \in [Tasks -> Request \cup {Fresh, Spent, Recalled}]
    /\ \A m \in Machines : \A i \in DOMAIN todo[m] : Aimed(todo[m][i])
    /\ \A t \in Tasks : Aimed(stop[t])

(* The scheduler's index, its events and the stops of the coordinator. *)
IndexTypes ==
    /\ idx \in [Tasks -> {"none", "queued", "running", "blocked", "waiting"}]
    /\ listed \subseteq Tasks
    /\ events \subseteq ({"send", "recv", "done", "ready", "removed"} \X Machines)
    /\ scoped_stops \subseteq Machines
    /\ commit_quiescence \in BOOLEAN /\ root_terminal \in BOOLEAN

(* Every stack in its place, and the loop at one of its points. *)
Placed ==
    /\ where \in [Tasks -> Places]
    /\ CommitsAccepted => Queue(returned, At("returned"))
    /\ returned \in Seq(Tasks)
    /\ Queue(continuations, At("cont"))
    /\ Queue(reports, Range(reports)) /\ Range(reports) \subseteq Active
    /\ recalled \subseteq Active
    /\ CurPlace
    /\ cur \in Tasks

(* The places of the loop. *)
Points ==
    /\ pc \in {"top", "drain", "commit", "commit2", "decide", "dispatch", "idle",
               "advance", "finish", "inline", "park", "host", "settle", "returned", "invalid"}
    /\ back \in {"top", "commit", "commit2", "dispatch", "settle"}

(* The invariant of all programs. *)
GInv == Guests /\ IndexTypes /\ Placed /\ Points /\ PausedIsAtRest

---------------------------------------------------------------------------
(* The invariant of programs without pauses. *)

(* No guest pauses or resumes a proc. *)
NoPauses ==
    \A p \in Programs : \A m \in Machines : \A i \in DOMAIN p[m] :
        p[m][i].op \notin {"pause", "resume"}

(* What the guest of m asks for in such a world. *)
Plain(m, r) == Allowed(m, r) /\ r.op \notin {"pause", "resume"}

(* Nothing is paused or about to be, and no task is removed. *)
PlainWorld ==
    /\ paused = {} /\ scoped_stops = {}
    /\ \A m \in Machines : <<"removed", m>> \notin events
    /\ \A m \in Machines : \A i \in DOMAIN todo[m] : Plain(m, todo[m][i])

(* A task that has another machine on its stack holds it, keeps its stack   *)
(* and is itself between two instructions.                                  *)
StackShape ==
    \A t \in Tasks :
        \/ top[t] = t
        \/ /\ top[t] \in Held /\ Holder[top[t]] = t
           /\ where[t] # "none" /\ state[t] = "ready"

(* Why the last lease of a task ended: still to come, already committed, or *)
(* a request that its top machine may make.                                 *)
StopShape ==
    \A t \in Tasks :
      /\ where[t] \notin {"out", "returned"} => stop[t] \in {Fresh, Spent}
      /\ where[t] = "out" /\ t \notin Range(reports) => stop[t] = Fresh
      /\ where[t] = "returned" \/ t \in Range(reports) =>
           \/ stop[t] = Recalled
           \/ stop[t] = Req("end", Root) /\ todo[top[t]] = <<>>
           \/ stop[t] \in Request /\ Plain(top[t], stop[t])

(* A machine that executes, or has just done so, is ready. *)
Executing ==
    /\ \A t \in Tasks : where[t] \in {"out", "returned"} => state[top[t]] = "ready"
    /\ pc = "inline" => state[top[cur]] = "ready"

(* The index drops a task only if it is over or in somebody's hands; and    *)
(* dispatch stops only with nothing left to dispatch.                       *)
Indexes ==
    /\ \A t \in Tasks :
         idx[t] = "none" =>
           \/ Terminal(t)
           \/ where[t] \notin {"none", "saved"}
           \/ pc = "finish" /\ t = cur
    /\ pc \in {"commit2", "idle"} => Queued = {} /\ continuations = <<>>

(* The report of t cannot be committed yet: a machine it needs is away. *)
NotReady(t) ==
    /\ stop[t].op \notin {"recalled", "end"}
    /\ \/ policy_requirement(top[t])
       \/ stop[t].op = "collect" /\ Active # {}
       \/ stop[t].op \in {"send", "done"} /\ Away(stop[t].to)

(* The reports taken back wait for the machine that the oldest needs. *)
Stalled ==
    \/ returned = <<>>
    \/ NotReady(Oldest) /\ \A i \in 2..Len(returned) : ~Quiet(returned[i])

(* The loop has committed what it could and is now leasing machines out. *)
InDispatch ==
    \/ pc \in {"dispatch", "commit2", "idle"}
    \/ pc \in {"advance", "inline", "finish"} /\ back = "dispatch"

(* The root has ended and the loop puts the world away. *)
Settling == pc = "settle" \/ (pc \in {"advance", "inline", "finish"} /\ back = "settle")

(* What the loop knows at its places. *)
Loop ==
    /\ InDispatch => Stalled
    /\ pc = "decide" => root_terminal \/ Stalled
    /\ Settling => root_terminal
    /\ root_terminal => Terminal(Root)
    /\ pc \in {"advance", "inline"} => mode \in {"park", "inline", "dispatch"}
    /\ pc \in {"advance", "inline"} /\ mode = "dispatch" => back = "dispatch"
    /\ back \in {"top", "dispatch", "settle"}
    /\ CommitsAccepted

(* The invariant of programs without pauses. *)
RInv == PlainWorld /\ StackShape /\ StopShape /\ Executing /\ Indexes /\ Loop

---------------------------------------------------------------------------
(* Queues of tasks. *)

LEMMA QueueJoins ==
  ASSUME NEW s, NEW S, NEW t \in Tasks, Queue(s, S), t \notin S
  PROVE  Queue(Append(s, t), S \cup {t})
<1>1. s \in Seq(Tasks) /\ Append(s, t) \in Seq(Tasks)
  BY DEF Queue
<1>2. /\ Len(Append(s, t)) = Len(s) + 1
      /\ DOMAIN Append(s, t) = 1..Len(s) + 1 /\ DOMAIN s = 1..Len(s)
      /\ \A i \in 1..Len(s) : Append(s, t)[i] = s[i]
      /\ Append(s, t)[Len(s) + 1] = t
      /\ Len(s) \in Nat
  BY <1>1
<1>3. Range(Append(s, t)) = S \cup {t}
  BY <1>1, <1>2 DEF Queue, Range
<1>4. \A i \in 1..Len(s) : s[i] # t
  BY <1>1, <1>2, Zenon DEF Queue, Range
<1>5. IsInjective(Append(s, t))
  BY <1>1, <1>2, <1>4 DEF Queue, IsInjective
<1> QED BY <1>1, <1>3, <1>5, Zenon DEF Queue

LEMMA Concatenated ==
  ASSUME NEW T, NEW a \in Seq(T), NEW b \in Seq(T)
  PROVE  /\ a \o b \in Seq(T)
         /\ Len(a \o b) = Len(a) + Len(b)
         /\ \A k \in 1..Len(b) : (a \o b)[Len(a) + k] = b[k]
<1>1. a \o b \in Seq(T)
  OBVIOUS
<1>2. Len(a \o b) = Len(a) + Len(b)
  OBVIOUS
<1>3. ASSUME NEW k \in 1..Len(b)
      PROVE  (a \o b)[Len(a) + k] = b[k]
  <2>1. Len(a) \in Nat /\ Len(b) \in Nat
    OBVIOUS
  <2> QED BY <2>1, SMTT(30)
<1> QED BY <1>1, <1>2, <1>3, Zenon

LEMMA QueueLeaves ==
  ASSUME NEW s, NEW S, NEW i, Queue(s, S), i \in DOMAIN s
  PROVE  /\ s[i] \in S \cap Tasks
         /\ Queue(Without(s, i), S \ {s[i]})
<1> DEFINE a == SubSeq(s, 1, i - 1)
           b == SubSeq(s, i + 1, Len(s))
           r == Without(s, i)
<1>1. s \in Seq(Tasks) /\ i \in 1..Len(s) /\ Len(s) \in Nat /\ DOMAIN s = 1..Len(s)
  BY DEF Queue
<1>a. /\ a \in Seq(Tasks) /\ Len(a) = i - 1
      /\ \A j \in 1..i - 1 : a[j] = s[j]
  BY <1>1
<1>b. /\ b \in Seq(Tasks) /\ Len(b) = Len(s) - i
      /\ \A j \in 1..Len(s) - i : b[j] = s[i + j]
  BY <1>1, SMTT(30)
<1>c. r = a \o b
  BY Zenon DEF Without
<1> HIDE DEF a, b, r
<1>d. /\ r \in Seq(Tasks) /\ Len(r) = Len(a) + Len(b)
      /\ \A k \in 1..Len(b) : r[Len(a) + k] = b[k]
  <2>1. a \in Seq(Tasks) /\ b \in Seq(Tasks)
    BY <1>a, <1>b, Zenon
  <2>2. /\ a \o b \in Seq(Tasks) /\ Len(a \o b) = Len(a) + Len(b)
        /\ \A k \in 1..Len(b) : (a \o b)[Len(a) + k] = b[k]
    BY <2>1, Concatenated, Zenon
  <2> QED BY <1>c, <2>2, Zenon
<1>2. r \in Seq(Tasks) /\ Len(r) = Len(s) - 1 /\ DOMAIN r = 1..Len(s) - 1
  BY <1>1, <1>a, <1>b, <1>d, SMTT(30)
<1>3. \A j \in 1..i - 1 : r[j] = s[j]
  BY <1>1, <1>a, <1>b, <1>c
<1>4. ASSUME NEW j \in i..Len(s) - 1
      PROVE  r[j] = s[j + 1]
  <2> DEFINE k == j - (i - 1)
  <2>1. k \in 1..Len(s) - i /\ i + k = j + 1 /\ Len(a) + k = j
    BY <1>1, <1>a, SMTT(30)
  <2> HIDE DEF k
  <2>2. r[Len(a) + k] = b[k]
    BY <1>b, <1>d, <2>1, Zenon
  <2>3. b[k] = s[i + k]
    BY <1>b, <2>1, Zenon
  <2> QED BY <2>1, <2>2, <2>3, Zenon
<1>5. s[i] \in S \cap Tasks
  BY <1>1 DEF Queue, Range
<1>0. \A j \in 1..Len(s) - 1 :
        \E k \in 1..Len(s) : r[j] = s[k] /\ k = IF j < i THEN j ELSE j + 1
  <2> TAKE j \in 1..Len(s) - 1
  <2>1. CASE j < i
    BY <1>1, <1>3, <2>1
  <2>2. CASE ~(j < i)
    <3>1. j \in i..Len(s) - 1 /\ j + 1 \in 1..Len(s)
      BY <1>1, <2>2
    <3> QED BY <1>4, <2>2, <3>1, Zenon
  <2> QED BY <2>1, <2>2, Zenon
<1>6. IsInjective(r)
  <2>1. SUFFICES ASSUME NEW x \in 1..Len(s) - 1, NEW y \in 1..Len(s) - 1, r[x] = r[y]
                 PROVE  x = y
    BY <1>2, Zenon DEF IsInjective
  <2>2. PICK k \in 1..Len(s) : r[x] = s[k] /\ k = IF x < i THEN x ELSE x + 1
    BY <1>0, Zenon
  <2>3. PICK l \in 1..Len(s) : r[y] = s[l] /\ l = IF y < i THEN y ELSE y + 1
    BY <1>0, Zenon
  <2>4. k = l
    BY <1>1, <2>1, <2>2, <2>3, Zenon DEF Queue, IsInjective
  <2> QED BY <1>1, <2>2, <2>3, <2>4
<1>7. Range(r) \subseteq S \ {s[i]}
  <2>1. SUFFICES ASSUME NEW x \in 1..Len(s) - 1
                 PROVE  r[x] \in S \ {s[i]}
    BY <1>2, Zenon DEF Range
  <2>2. PICK k \in 1..Len(s) : r[x] = s[k] /\ k = IF x < i THEN x ELSE x + 1
    BY <1>0, Zenon
  <2>3. k # i
    BY <1>1, <2>2
  <2> QED BY <1>1, <2>2, <2>3, Zenon DEF Queue, Range, IsInjective
<1>8. ASSUME NEW u \in S \ {s[i]}
      PROVE  u \in Range(r)
  <2>1. PICK j \in 1..Len(s) : s[j] = u
    BY <1>1, <1>8, Zenon DEF Queue, Range
  <2>2. CASE j < i
    BY <1>1, <1>2, <1>3, <2>1, <2>2, SMTT(30) DEF Range
  <2>3. CASE j > i
    <3>1. j - 1 \in i..Len(s) - 1 /\ r[j - 1] = u
      BY <1>1, <1>4, <2>1, <2>3
    <3> QED BY <1>1, <1>2, <3>1, SMTT(30) DEF Range
  <2> QED BY <1>1, <1>8, <2>1, <2>2, <2>3
<1> QED BY <1>2, <1>5, <1>6, <1>7, <1>8, Zenon DEF Queue, r

LEMMA QueueAdvances ==
  ASSUME NEW s, NEW S, Queue(s, S), s # <<>>
  PROVE  /\ Head(s) \in S \cap Tasks
         /\ Queue(Tail(s), S \ {Head(s)})
<1>1. s \in Seq(Tasks) /\ 1 \in DOMAIN s /\ Head(s) = s[1] /\ Len(s) \in Nat
  BY DEF Queue
<1>2. SubSeq(s, 1, 0) = <<>> /\ Tail(s) = SubSeq(s, 2, Len(s)) /\ Tail(s) \in Seq(Tasks)
  BY <1>1
<1>3. Without(s, 1) = Tail(s)
  BY <1>1, <1>2 DEF Without
<1>4. Queue(s, S) /\ 1 \in DOMAIN s
  BY <1>1, Zenon
<1>5. s[1] \in S \cap Tasks /\ Queue(Without(s, 1), S \ {s[1]})
  BY <1>4, QueueLeaves, Zenon
<1> QED BY <1>1, <1>3, <1>5, Zenon

---------------------------------------------------------------------------
(* What an operation does to the types of the world. *)

LEMMA OperationTypes ==
  /\ Request \cup {Fresh, Spent, Recalled} \subseteq Operation
  /\ [op : {"none", "send", "recv", "done"}, to : Machines] \subseteq Operation
  /\ Tasks \subseteq Machines /\ Root \in Tasks /\ Procs \subseteq Tasks
BY DEF Request, Fresh, Spent, Recalled, Req, Operation, Ops, Machines, Tasks

LEMMA DoesTypes ==
  ASSUME WorldTypeOK, NEW t \in Tasks, NEW m \in Machines, NEW r \in Operation,
         NEW u, Aimed(r), Does(t, m, r, u)
  PROVE  /\ state' \in [Machines -> {"ready", "blocked", "waiting", "done", "faulted"}]
         /\ request' \in [Machines -> [op : {"none", "send", "recv", "done"}, to : Machines]]
         /\ box' \in [Procs -> Seq(Machines)]
         /\ paused' \subseteq Procs
         /\ top' \in [Tasks -> Machines]
<1> USE DEF WorldTypeOK
<1>0. Req("none", Root) \in [op : {"none", "send", "recv", "done"}, to : Machines]
  BY OperationTypes, Zenon DEF Req
<1>a. ASSUME Answers(m)
      PROVE  /\ state' \in [Machines -> {"ready", "blocked", "waiting", "done", "faulted"}]
             /\ request' \in [Machines -> [op : {"none", "send", "recv", "done"}, to : Machines]]
  BY <1>0, <1>a, Zenon DEF Answers
<1>b. ASSUME Blocks(m, r), r.op \in {"none", "send", "recv", "done"}
      PROVE  /\ state' \in [Machines -> {"ready", "blocked", "waiting", "done", "faulted"}]
             /\ request' \in [Machines -> [op : {"none", "send", "recv", "done"}, to : Machines]]
  <2>1. r \in [op : {"none", "send", "recv", "done"}, to : Machines]
    BY <1>b, Zenon DEF Operation
  <2> QED BY <1>b, <2>1, Zenon DEF Blocks
<1>c. ASSUME NEW p \in Procs
      PROVE  /\ Append(box[p], m) \in Seq(Machines)
             /\ box[p] # <<>> => Tail(box[p]) \in Seq(Machines)
  <2>1. box[p] \in Seq(Machines)
    BY Zenon
  <2> QED BY <2>1
<1>1. CASE proc_send(m, r)
  <2>1. box' \in [Procs -> Seq(Machines)]
    <3>1. box' = box \/ box' = [box EXCEPT ![r.to] = Append(@, m)]
      BY <1>1, Zenon DEF proc_send
    <3>2. box \in [Procs -> Seq(Machines)]
      BY Zenon
    <3> HIDE DEF WorldTypeOK
    <3> QED BY <1>c, <3>1, <3>2, Zenon
  <2> QED BY <1>1, <1>a, <1>b, <2>1, Zenon DEF proc_send
<1>2. CASE proc_recv(m, r)
  <2>1. box' \in [Procs -> Seq(Machines)]
    <3>1. box' = box \/ (box[m] # <<>> /\ box' = [box EXCEPT ![m] = Tail(@)])
      BY <1>2, Zenon DEF proc_recv
    <3>2. box \in [Procs -> Seq(Machines)]
      BY Zenon
    <3> HIDE DEF WorldTypeOK
    <3> QED BY <1>c, <3>1, <3>2, Zenon
  <2> QED BY <1>2, <1>a, <1>b, <2>1, Zenon DEF proc_recv
<1>3. CASE proc_done(m, r)
  BY <1>3, <1>a, <1>b, Zenon DEF proc_done
<1>4. CASE proc_pause(m, r, u)
  BY <1>4, <1>a, Zenon DEF proc_pause, Aimed
<1>5. CASE proc_resume(m, r, u)
  BY <1>5, <1>a, Zenon DEF proc_resume
<1>6. CASE vm_run(t, r)
  BY <1>6, Zenon DEF vm_run, Operation
<1>7. CASE collect(r)
  BY <1>7, Zenon DEF collect
<1>8. CASE host_call(m, r)
  BY <1>8, Zenon DEF host_call
<1>9. CASE ends(m, r)
  BY <1>9, Zenon DEF ends
<1> QED BY <1>1, <1>2, <1>3, <1>4, <1>5, <1>6, <1>7, <1>8, <1>9, Zenon DEF Does

LEMMA OperatesTypes ==
  ASSUME GInv, NEW t \in Tasks, NEW r \in Operation, Aimed(r), Operates(t, r)
  PROVE  /\ todo' \in [Machines -> Seq(Request)] => WorldTypeOK'
         /\ events' \subseteq ({"send", "recv", "done", "ready", "removed"} \X Machines)
         /\ \A p \in paused' : where[p] = "none"
<1>0. top[t] \in Machines /\ r.to \in Machines
  BY Zenon DEF GInv, Guests, WorldTypeOK, Operation
<1>1. Does(t, top[t], r, InUse(r.to)) /\ Emits(top[t], r)
  BY Zenon DEF Operates
<1>2. todo' \in [Machines -> Seq(Request)] => WorldTypeOK'
  BY <1>0, <1>1, DoesTypes, Zenon DEF GInv, Guests, WorldTypeOK
<1>3. events' \subseteq ({"send", "recv", "done", "ready", "removed"} \X Machines)
  BY <1>0, <1>1 DEF Emits, GInv, IndexTypes
<1>4. ASSUME NEW p \in paused', p \notin paused
      PROVE  where[p] = "none"
  <2>1. p = r.to /\ ~InUse(p) /\ r.op = "pause"
    BY <1>1, <1>4, Zenon DEF Does, proc_send, proc_recv, proc_done, proc_pause, proc_resume, vm_run,
       collect, host_call, ends
  <2> QED BY <2>1, OperationTypes, Zenon DEF InUse, Aimed
<1> QED BY <1>2, <1>3, <1>4, Zenon DEF GInv, PausedIsAtRest

LEMMA AskTypes ==
  ASSUME GInv, NEW m \in Machines
  PROVE  Ask(m) \in Request /\ Aimed(Ask(m))
<1>1. CASE todo[m] = <<>>
  BY <1>1, OperationTypes, Zenon DEF Ask, Req, Request, Aimed
<1>2. CASE todo[m] # <<>>
  <2>1. todo[m] \in Seq(Request)
    BY Zenon DEF GInv, Guests, WorldTypeOK
  <2>2. Head(todo[m]) = todo[m][1] /\ 1 \in DOMAIN todo[m] /\ Head(todo[m]) \in Request
    BY <1>2, <2>1
  <2> QED BY <1>2, <2>2, Zenon DEF GInv, Guests, Ask
<1> QED BY <1>1, <1>2, Zenon

LEMMA AskedTypes ==
  ASSUME GInv, NEW m \in Machines, Asked(m)
  PROVE  /\ todo' \in [Machines -> Seq(Request)]
         /\ \A n \in Machines : \A i \in DOMAIN todo'[n] : Aimed(todo'[n][i])
<1>1. /\ todo \in [Machines -> Seq(Request)]
      /\ \A n \in Machines : \A i \in DOMAIN todo[n] : Aimed(todo[n][i])
  BY Zenon DEF GInv, Guests, WorldTypeOK
<1>2. /\ todo' \in [Machines -> Seq(Request)]
      /\ \A n \in Machines : n # m => todo'[n] = todo[n]
      /\ todo'[m] = IF todo[m] = <<>> THEN todo[m] ELSE Tail(todo[m])
  BY <1>1 DEF Asked
<1>3. ASSUME todo[m] # <<>>, NEW i \in DOMAIN Tail(todo[m])
      PROVE  i + 1 \in DOMAIN todo[m] /\ Tail(todo[m])[i] = todo[m][i + 1]
  BY <1>1, <1>3
<1>4. ASSUME NEW i \in DOMAIN todo'[m]
      PROVE  Aimed(todo'[m][i])
  BY <1>1, <1>2, <1>3, <1>4, Zenon
<1> QED BY <1>1, <1>2, <1>4, Zenon

LEMMA IndexTyped ==
  ASSUME NEW t \in Tasks
  PROVE  /\ task_status(t) \in {"none", "terminal", "ready", "blocked", "waiting"}
         /\ index_status(t) \in {"none", "queued", "blocked", "waiting"}
BY Zenon DEF task_status, index_status

LEMMA ConsumeTypes ==
  ASSUME IndexTypes, NEW tasks, NEW dropped, NEW keys, ConsumeEvents(tasks, dropped, keys)
  PROVE  /\ idx' \in [Tasks -> {"none", "queued", "running", "blocked", "waiting"}]
         /\ listed' \subseteq Tasks
         /\ events' = {}
BY IndexTyped, Zenon DEF ConsumeEvents, IndexTypes

---------------------------------------------------------------------------
(* Steps that move no stack. *)

LEMMA PlacesStay ==
  ASSUME Placed, pc # "invalid",
         UNCHANGED <<where, reports, returned, continuations, recalled, cur>>,
         pc \in {"advance", "inline"} <=> pc' \in {"advance", "inline"}
  PROVE  Placed'
BY Zenon DEF Placed, CommitsAccepted, At, Active, CurPlace

LEMMA ReleaseKeepsPlaces ==
  ASSUME Placed, pc \notin {"advance", "inline", "invalid"},
         UNCHANGED <<where, reports, returned, continuations, recalled>>,
         cur' = Root, pc' \notin {"advance", "inline"}
  PROVE  Placed'
BY OperationTypes, Zenon DEF Placed, CommitsAccepted, At, Active, CurPlace

LEMMA GuestsStay ==
  ASSUME Guests, UNCHANGED <<worldVars, stop>>
  PROVE  Guests'
BY Zenon DEF Guests, worldVars, WorldTypeOK, Aimed

LEMMA NeedTypes ==
  ASSUME Guests, returned \in Seq(Tasks), returned # <<>>
  PROVE  /\ OldestNeeds.kind \in {"ready", "collection", "machine", "safepoint"}
         /\ OldestNeeds.key \in Machines
<1>1. Oldest \in Tasks
  BY DEF Oldest
<1>2. stop[Oldest] \in Operation /\ Root \in Machines
  BY <1>1, OperationTypes, Zenon DEF Guests
<1> QED BY <1>2, Zenon DEF OldestNeeds, parallel_requirement, perform_machine_requirement, Operation,
           machine_safepoint_requirement, machine_requirement, Ready, Collection, Needs

LEMMA PrepareTypes ==
  ASSUME GInv, returned # <<>>, Prepare
  PROVE  /\ commit_quiescence' \in BOOLEAN
         /\ recalled' \subseteq Active
         /\ ScopedStops \subseteq Machines
<1>1. commit_quiescence' \in BOOLEAN
  BY Zenon DEF Prepare, GInv, IndexTypes
<1>2. recalled' \subseteq Active
  BY Zenon DEF Prepare, GInv, Placed, Active
<1>3. ScopedStops \subseteq Machines
  BY NeedTypes, Zenon DEF ScopedStops, GInv, IndexTypes, Placed
<1> QED BY <1>1, <1>2, <1>3, Zenon

LEMMA WorkerReportsKeeps ==
  ASSUME GInv, NEW t \in Tasks, WorkerReports(t)
  PROVE  GInv'
<1>0. top[t] \in Machines /\ where[t] = "out" /\ t \notin Range(reports)
  BY Zenon DEF WorkerReports, GInv, Guests, WorldTypeOK
<1>1. Guests'
  <2>1. CASE stop' = [stop EXCEPT ![t] = Ask(top[t])] /\ Asked(top[t])
    BY <1>0, <2>1, AskTypes, AskedTypes, Zenon DEF WorkerReports, GInv, Guests, WorldTypeOK
  <2>2. CASE stop' = [stop EXCEPT ![t] = Recalled] /\ UNCHANGED todo
    <3>1. Aimed(Recalled)
      BY Zenon DEF Aimed, Recalled, Req
    <3> QED BY <2>2, <3>1, Zenon DEF WorkerReports, GInv, Guests, WorldTypeOK
  <2> QED BY <2>1, <2>2, Zenon DEF WorkerReports
<1>2. IndexTypes'
  BY Zenon DEF WorkerReports, GInv, IndexTypes, indexVars, stopVars
<1>3. Placed'
  <2>1. Queue(reports', Range(reports) \cup {t})
    BY <1>0, QueueJoins, Zenon DEF WorkerReports, GInv, Placed
  <2>2. Range(reports') = Range(reports) \cup {t}
    BY <2>1, Zenon DEF Queue
  <2> QED BY <1>0, <2>1, <2>2, Zenon DEF WorkerReports, GInv, Placed, CommitsAccepted, At, Active, CurPlace, loopVars
<1>4. Points' /\ PausedIsAtRest'
  BY Zenon DEF WorkerReports, GInv, Points, PausedIsAtRest, loopVars
<1> QED BY <1>1, <1>2, <1>3, <1>4, Zenon DEF GInv

LEMMA HostCompletesKeeps ==
  ASSUME GInv, NEW t \in Tasks, HostCompletes(t)
  PROVE  GInv'
<1>0. top[t] \in Machines /\ t \in Machines
  BY OperationTypes, Zenon DEF GInv, Guests, WorldTypeOK
<1>1. Guests'
  <2>1. Req("none", Root) \in [op : {"none", "send", "recv", "done"}, to : Machines]
    BY OperationTypes, Zenon DEF Req
  <2>2. state' \in [Machines -> {"ready", "blocked", "waiting", "done", "faulted"}]
    BY <1>0, Zenon DEF HostCompletes, InstallsCompletion, GInv, Guests, WorldTypeOK, Answers
  <2>3. request' \in [Machines -> [op : {"none", "send", "recv", "done"}, to : Machines]]
    BY <1>0, <2>1, Zenon DEF HostCompletes, InstallsCompletion, GInv, Guests, WorldTypeOK, Answers
  <2> QED BY <2>2, <2>3, Zenon DEF HostCompletes, GInv, Guests, WorldTypeOK, Aimed
<1>2. IndexTypes'
  <2>1. events' \subseteq ({"send", "recv", "done", "ready", "removed"} \X Machines)
    BY <1>0 DEF HostCompletes, InstallsCompletion, GInv, IndexTypes
  <2>2. idx' \in [Tasks -> {"none", "queued", "running", "blocked", "waiting"}]
    BY Zenon DEF HostCompletes, GInv, IndexTypes, Refreshed
  <2> QED BY <2>1, <2>2, Zenon DEF HostCompletes, GInv, IndexTypes, stopVars
<1>3. Placed'
  BY PlacesStay, Zenon DEF HostCompletes, GInv, Goto, queueVars
<1>4. Points' /\ PausedIsAtRest'
  BY Zenon DEF HostCompletes, GInv, Points, PausedIsAtRest, Goto
<1> QED BY <1>1, <1>2, <1>3, <1>4, Zenon DEF GInv

LEMMA LoopStartsKeeps ==
  ASSUME GInv, LoopStarts
  PROVE  GInv'
<1>1. Guests'
  BY GuestsStay, Zenon DEF LoopStarts, GInv
<1>2. IndexTypes'
  BY ConsumeTypes, Zenon DEF LoopStarts, GInv, IndexTypes, stopVars
<1>3. Placed'
  BY PlacesStay, Zenon DEF LoopStarts, GInv, Goto, queueVars
<1>4. Points' /\ PausedIsAtRest'
  BY Zenon DEF LoopStarts, GInv, Points, PausedIsAtRest, Goto, worldVars
<1> QED BY <1>1, <1>2, <1>3, <1>4, Zenon DEF GInv

LEMMA CommitsEndKeeps ==
  ASSUME GInv, CommitsEnd
  PROVE  GInv'
<1>0. /\ commit_quiescence' \in BOOLEAN
      /\ recalled' \subseteq Active
      /\ scoped_stops' \subseteq Machines
  BY PrepareTypes, Zenon DEF CommitsEnd, GInv, IndexTypes, Placed
<1>1. Guests'
  BY GuestsStay, Zenon DEF CommitsEnd, GInv
<1>2. IndexTypes'
  BY <1>0, Zenon DEF CommitsEnd, GInv, IndexTypes, indexVars
<1>3. Placed'
  BY <1>0, Zenon DEF CommitsEnd, GInv, Goto, AfterCommits, Placed, CommitsAccepted, At, Active, CurPlace
<1>4. Points' /\ PausedIsAtRest'
  BY Zenon DEF CommitsEnd, GInv, Points, PausedIsAtRest, Goto, AfterCommits, worldVars
<1> QED BY <1>1, <1>2, <1>3, <1>4, Zenon DEF GInv

LEMMA AdvanceOperatesKeeps ==
  ASSUME GInv, AdvanceCompletes \/ AdvanceAnswers \/ InlinePerforms \/ InlineYields
  PROVE  GInv'
<1>0. cur \in Tasks /\ Top \in Machines /\ where[cur] = "cur"
  BY Zenon DEF AdvanceCompletes, AdvanceAnswers, InlinePerforms, InlineYields, Advancing,
         GInv, Placed, CurPlace, Guests, WorldTypeOK, Top
<1>1. Placed'
  BY PlacesStay, Zenon DEF AdvanceCompletes, AdvanceAnswers, InlinePerforms, InlineYields, Advancing,
     GInv, Goto, queueVars, loopVars
<1>2. Points'
  BY Zenon DEF AdvanceCompletes, AdvanceAnswers, InlinePerforms, InlineYields, Advancing,
     GInv, Points, Goto, loopVars
<1>3. CASE AdvanceCompletes
  <2>1. request[Top] \in Operation /\ Aimed(request[Top])
    BY <1>0, OperationTypes, Zenon DEF GInv, Guests, WorldTypeOK, Aimed
  <2>2. /\ WorldTypeOK'
        /\ events' \subseteq ({"send", "recv", "done", "ready", "removed"} \X Machines)
        /\ \A p \in paused' : where[p] = "none"
    BY <1>0, <1>3, <2>1, OperatesTypes, Zenon DEF AdvanceCompletes, GInv, Guests, WorldTypeOK
  <2>3. Guests'
    BY <1>3, <2>2, Zenon DEF AdvanceCompletes, GInv, Guests, Aimed
  <2> QED BY <1>1, <1>2, <1>3, <2>2, <2>3, Zenon DEF AdvanceCompletes, GInv, IndexTypes,
             PausedIsAtRest, stopVars
<1>4. CASE AdvanceAnswers
  <2>1. Guests'
    BY <1>0, <1>4, OperationTypes, Zenon DEF AdvanceAnswers, GInv, Guests, WorldTypeOK, Aimed
  <2>2. IndexTypes'
    BY <1>0, <1>4 DEF AdvanceAnswers, GInv, IndexTypes, stopVars
  <2> QED BY <1>1, <1>2, <1>4, <2>1, <2>2, Zenon DEF AdvanceAnswers, GInv, PausedIsAtRest
<1>5. CASE InlinePerforms
  <2>1. Ask(Top) \in Operation /\ Aimed(Ask(Top))
    BY <1>0, AskTypes, OperationTypes, Zenon
  <2>2. /\ todo' \in [Machines -> Seq(Request)]
        /\ \A n \in Machines : \A i \in DOMAIN todo'[n] : Aimed(todo'[n][i])
    BY <1>0, <1>5, AskedTypes, Zenon DEF InlinePerforms
  <2>3. /\ WorldTypeOK'
        /\ events' \subseteq ({"send", "recv", "done", "ready", "removed"} \X Machines)
        /\ \A p \in paused' : where[p] = "none"
    BY <1>0, <1>5, <2>1, <2>2, OperatesTypes, Zenon DEF InlinePerforms
  <2>4. Guests'
    BY <1>5, <2>2, <2>3, Zenon DEF InlinePerforms, GInv, Guests, Aimed
  <2> QED BY <1>1, <1>2, <1>5, <2>3, <2>4, Zenon DEF InlinePerforms, GInv, IndexTypes,
             PausedIsAtRest, stopVars
<1>6. CASE InlineYields
  <2>1. Aimed(Spent)
    BY Zenon DEF Aimed, Spent, Req
  <2>2. Guests'
    BY <1>0, <1>6, <2>1, Zenon DEF InlineYields, GInv, Guests, WorldTypeOK, worldVars, Aimed
  <2> QED BY <1>1, <1>2, <1>6, <2>2, Zenon DEF InlineYields, GInv, IndexTypes, indexVars,
             PausedIsAtRest, stopVars, worldVars
<1> QED BY <1>3, <1>4, <1>5, <1>6, Zenon

LEMMA FinishSliceKeeps ==
  ASSUME GInv, finish_slice
  PROVE  GInv'
<1>1. Guests'
  BY GuestsStay, Zenon DEF finish_slice, GInv
<1>2. IndexTypes'
  <2>1. PICK tasks, dropped, keys : ConsumeEvents(tasks, dropped, keys)
    BY Zenon DEF finish_slice
  <2>2. /\ idx' \in [Tasks -> {"none", "queued", "running", "blocked", "waiting"}]
        /\ listed' \subseteq Tasks /\ events' = {}
    BY <2>1, ConsumeTypes, Zenon DEF GInv
  <2>3. root_terminal' \in BOOLEAN
    BY Zenon DEF finish_slice, GInv, IndexTypes
  <2> QED BY <2>2, <2>3, Zenon DEF finish_slice, GInv, IndexTypes
<1>3. Placed'
  <2>1. pc' \notin {"advance", "inline"}
    BY Zenon DEF finish_slice, Release, GInv, Points
  <2> QED BY <2>1, ReleaseKeepsPlaces, Zenon DEF finish_slice, Release, GInv, queueVars
<1>4. Points' /\ PausedIsAtRest'
  BY Zenon DEF finish_slice, Release, GInv, Points, PausedIsAtRest, worldVars
<1> QED BY <1>1, <1>2, <1>3, <1>4, Zenon DEF GInv

LEMMA LoopKeeps ==
  ASSUME GInv,
         \/ Unparks \/ RootStops \/ Quiesces \/ Dispatches \/ DispatchEnds \/ Parks
         \/ WaitsForHost \/ Settled
  PROVE  GInv'
<1> USE DEF Unparks, RootStops, Quiesces, Dispatches, DispatchEnds, Parks, Idle, WaitsForHost,
            AtRest, Settled, Goto, queueVars, stopVars, indexVars
<1>1. Guests'
  BY GuestsStay, Zenon DEF GInv
<1>2. IndexTypes'
  BY Zenon DEF GInv, IndexTypes
<1>3. Placed'
  <2>1. CASE recalled' = recalled
    BY <2>1, PlacesStay, Zenon DEF GInv
  <2>2. CASE recalled' = Active
    BY <2>2, Zenon DEF GInv, Placed, CommitsAccepted, At, Active, CurPlace
  <2> QED BY <2>1, <2>2, Zenon
<1>4. Points' /\ PausedIsAtRest'
  BY Zenon DEF GInv, Points, PausedIsAtRest, worldVars
<1> QED BY <1>1, <1>2, <1>3, <1>4, Zenon DEF GInv

LEMMA ReindexKeeps ==
  ASSUME GInv, (\E t \in Tasks : Reindexes(t)) \/ reconcile_parallel_states
  PROVE  GInv'
<1>1. Guests'
  BY GuestsStay, Zenon DEF GInv, Reindexes, reconcile_parallel_states
<1>2. IndexTypes'
  BY IndexTyped DEF GInv, IndexTypes, Reindexes, reconcile_parallel_states, Stale, stopVars
<1>3. Placed'
  BY PlacesStay, Zenon DEF GInv, Reindexes, reconcile_parallel_states, AtRest, Idle, TurnMode, Goto, queueVars
<1>4. Points' /\ PausedIsAtRest'
  BY Zenon DEF GInv, Reindexes, reconcile_parallel_states, Points, PausedIsAtRest, Goto, worldVars
<1> QED BY <1>1, <1>2, <1>3, <1>4, Zenon DEF GInv

LEMMA FailuresKeep ==
  ASSUME GInv, FailsWaiting \/ DeclaresDeadlock
  PROVE  GInv'
<1>1. Guests'
  BY ZenonT(30) DEF GInv, Guests, FailsWaiting, DeclaresDeadlock, FailTasks, WorldTypeOK, worldVars, Aimed
<1>2. IndexTypes'
  <2>1. ASSUME NEW S, FailTasks(S)
        PROVE  idx' \in [Tasks -> {"none", "queued", "running", "blocked", "waiting"}] /\ listed' \subseteq Tasks
    BY <2>1, Zenon DEF GInv, IndexTypes, FailTasks, Refreshed
  <2> QED BY <2>1, Zenon DEF GInv, IndexTypes, FailsWaiting, DeclaresDeadlock, FailTasks, stopVars, indexVars
<1>3. Placed'
  BY PlacesStay, Zenon DEF GInv, FailsWaiting, DeclaresDeadlock, FailTasks, AtRest, Idle, Goto, queueVars
<1>4. Points' /\ PausedIsAtRest'
  BY Zenon DEF GInv, FailsWaiting, DeclaresDeadlock, FailTasks, Points, PausedIsAtRest, Goto, worldVars
<1> QED BY <1>1, <1>2, <1>3, <1>4, Zenon DEF GInv

---------------------------------------------------------------------------
(* Steps that move one stack. *)

LEMMA Moves ==
  ASSUME where \in [Tasks -> Places], NEW t \in Tasks, NEW q \in Places,
         where' = [where EXCEPT ![t] = q]
  PROVE  /\ where' \in [Tasks -> Places]
         /\ At("returned")' = IF q = "returned" THEN At("returned") \cup {t}
                              ELSE At("returned") \ {t}
         /\ At("cont")' = IF q = "cont" THEN At("cont") \cup {t} ELSE At("cont") \ {t}
         /\ Active' = IF q = "out" THEN Active \cup {t} ELSE Active \ {t}
         /\ \A u \in Tasks : where'[u] = IF u = t THEN q ELSE where[u]
BY Zenon DEF At, Active

LEMMA DrainKeeps ==
  ASSUME GInv, drain_worker_reports
  PROVE  GInv'
<1>1. CASE reports = <<>>
  <2>1. Guests'
    BY GuestsStay, Zenon DEF drain_worker_reports, GInv
  <2>2. IndexTypes' /\ Points' /\ PausedIsAtRest'
    BY <1>1, Zenon DEF drain_worker_reports, GInv, IndexTypes, Points, PausedIsAtRest, worldVars,
       indexVars, stopVars, Goto
  <2>3. Placed'
    BY <1>1, PlacesStay, Zenon DEF drain_worker_reports, GInv, Goto
  <2> QED BY <2>1, <2>2, <2>3, Zenon DEF GInv
<1>2. CASE reports # <<>>
  <2>1. PICK t : t = Head(reports)
    BY Zenon
  <2>2. /\ t \in Range(reports) \cap Tasks
        /\ Queue(reports', Range(reports) \ {t})
    BY <1>2, <2>1, QueueAdvances, Zenon DEF drain_worker_reports, GInv, Placed
  <2>3. /\ where[t] = "out" /\ t \in Tasks
        /\ where' = [where EXCEPT ![t] = "returned"]
        /\ returned' = Append(returned, t)
        /\ recalled' = recalled \ {t}
        /\ UNCHANGED <<continuations, pc, cur, back>>
        /\ pc = "drain"
    BY <1>2, <2>1, <2>2, Zenon DEF drain_worker_reports, GInv, Placed, Active, loopVars
  <2>4. /\ where' \in [Tasks -> Places]
        /\ At("returned")' = At("returned") \cup {t}
        /\ At("cont")' = At("cont") \ {t}
        /\ Active' = Active \ {t}
    BY <2>3, Moves, Zenon DEF GInv, Placed, Places
  <2>5. Queue(returned', At("returned")')
    <3>1. Queue(returned, At("returned")) /\ t \notin At("returned")
      BY <2>3, Zenon DEF GInv, Placed, CommitsAccepted, At
    <3> QED BY <2>3, <2>4, <3>1, QueueJoins
  <2>6. Queue(continuations', At("cont")')
    BY <2>3, <2>4, Zenon DEF GInv, Placed, At
  <2>7. Range(reports') = Range(reports) \ {t}
    BY <2>2, Zenon DEF Queue
  <2>8. CurPlace'
    BY <2>3, Zenon DEF GInv, Placed, CurPlace
  <2>9. Placed'
    BY <2>2, <2>3, <2>4, <2>5, <2>6, <2>7, <2>8, Zenon DEF GInv, Placed, Queue
  <2>10. Guests'
    BY GuestsStay, Zenon DEF drain_worker_reports, GInv
  <2>11. IndexTypes' /\ Points' /\ PausedIsAtRest'
    BY <2>3 DEF drain_worker_reports, GInv, IndexTypes, Points, PausedIsAtRest, worldVars,
       indexVars, stopVars
  <2> QED BY <2>9, <2>10, <2>11, Zenon DEF GInv
<1> QED BY <1>1, <1>2, Zenon

(* A retained continuation is taken up, by whichever part of the loop. *)
LEMMA TakesUp ==
  ASSUME GInv, NEW t, NEW i, i \in DOMAIN continuations, t = continuations[i],
         continuations' = Without(continuations, i),
         where' = [where EXCEPT ![t] = "cur"],
         cur' = t, pc' = "advance", pc \notin {"advance", "inline", "invalid"},
         recalled' \subseteq Active, UNCHANGED <<reports, returned, paused>>
  PROVE  Placed' /\ PausedIsAtRest'
<1>1. t \in Tasks /\ where[t] = "cont" /\ Queue(continuations', At("cont") \ {t})
  <2>1. Queue(continuations, At("cont"))
    BY Zenon DEF GInv, Placed
  <2>2. t \in At("cont") \cap Tasks /\ Queue(continuations', At("cont") \ {t})
    BY <2>1, QueueLeaves, Zenon
  <2> QED BY <2>2, Zenon DEF At
<1>2. /\ where' \in [Tasks -> Places]
      /\ At("returned")' = At("returned") \ {t}
      /\ At("cont")' = At("cont") \ {t}
      /\ Active' = Active \ {t}
  BY <1>1, Moves, Zenon DEF GInv, Placed, Places
<1>3. At("returned")' = At("returned") /\ Active' = Active
  BY <1>1, <1>2, Zenon DEF At, Active
<1>4. CurPlace'
  BY <1>1, Zenon DEF GInv, Placed, CurPlace
<1>5. PausedIsAtRest'
  BY <1>1 DEF GInv, PausedIsAtRest, Guests, WorldTypeOK
<1> QED BY <1>1, <1>2, <1>3, <1>4, <1>5, Zenon DEF GInv, Placed, CommitsAccepted

LEMMA FirstOut ==
  ASSUME GInv, continuations # <<>>
  PROVE  /\ 1 \in DOMAIN continuations /\ Head(continuations) = continuations[1]
         /\ Tail(continuations) = Without(continuations, 1)
<1>1. continuations \in Seq(Tasks)
  BY Zenon DEF GInv, Placed, Queue
<1>2. Len(continuations) \in Nat /\ Len(continuations) # 0
  BY <1>1
<1>3. SubSeq(continuations, 1, 0) = <<>>
  BY <1>1
<1>4. Tail(continuations) = SubSeq(continuations, 2, Len(continuations))
  BY <1>1, <1>2
<1>5. SubSeq(continuations, 2, Len(continuations)) \in Seq(Tasks)
  BY <1>1, <1>2
<1> QED BY <1>1, <1>2, <1>3, <1>4, <1>5 DEF Without

LEMMA CommitParksKeeps ==
  ASSUME GInv, CommitParks
  PROVE  GInv'
<1>1. PICK i \in DOMAIN continuations :
        /\ cur' = continuations[i]
        /\ continuations' = Without(continuations, i)
        /\ where' = [where EXCEPT ![continuations[i]] = "cur"]
  BY Zenon DEF CommitParks, Retained
<1>2. PICK t : t = continuations[i]
  BY Zenon
<1>3. /\ commit_quiescence' \in BOOLEAN
      /\ recalled' \subseteq Active
      /\ scoped_stops' \subseteq Machines
  BY PrepareTypes, Zenon DEF CommitParks
<1>4. Placed' /\ PausedIsAtRest'
  BY <1>1, <1>2, <1>3, TakesUp, Zenon DEF CommitParks, worldVars
<1>5. Guests'
  BY GuestsStay, Zenon DEF CommitParks, GInv
<1>6. IndexTypes' /\ Points'
  BY <1>3, Zenon DEF CommitParks, GInv, IndexTypes, Points, indexVars
<1> QED BY <1>4, <1>5, <1>6, Zenon DEF GInv

LEMMA ContinuesKeeps ==
  ASSUME GInv, Continues \/ SettleParks
  PROVE  GInv'
<1>1. PICK t : t = Head(continuations)
  BY Zenon
<1>2. /\ 1 \in DOMAIN continuations /\ t = continuations[1]
      /\ continuations' = Without(continuations, 1)
  BY <1>1, FirstOut, Zenon DEF Continues, SettleParks
<1>3. /\ where' = [where EXCEPT ![t] = "cur"]
      /\ cur' = t /\ pc' = "advance" /\ pc \notin {"advance", "inline", "invalid"}
      /\ recalled' = recalled
      /\ UNCHANGED <<reports, returned, worldVars, stop, indexVars, stopVars>>
      /\ back' \in {"top", "dispatch", "settle"}
  BY <1>1, Zenon DEF Continues, SettleParks, Takes, TurnMode
<1>4. recalled' \subseteq Active
  BY <1>3, Zenon DEF GInv, Placed
<1>5. Placed' /\ PausedIsAtRest'
  BY <1>2, <1>3, <1>4, TakesUp, Zenon DEF worldVars
<1>6. Guests'
  BY <1>3, GuestsStay, Zenon DEF GInv
<1>7. IndexTypes' /\ Points'
  BY <1>3, Zenon DEF GInv, IndexTypes, Points, indexVars, stopVars
<1> QED BY <1>5, <1>6, <1>7, Zenon DEF GInv

LEMMA ReportCommits ==
  ASSUME GInv, NEW t, NEW i, i \in DOMAIN returned, t = returned[i],
         returned' = Without(returned, i), commit_parallel_report(t),
         pc \in {"commit", "commit2", "settle"},
         recalled' \subseteq Active, UNCHANGED reports
  PROVE  /\ Guests' /\ Placed' /\ Points' /\ PausedIsAtRest'
         /\ events' \subseteq ({"send", "recv", "done", "ready", "removed"} \X Machines)
<1>1. t \in Tasks /\ where[t] = "returned" /\ Queue(returned', At("returned") \ {t})
  <2>1. Queue(returned, At("returned"))
    BY Zenon DEF GInv, Placed, CommitsAccepted
  <2>2. t \in At("returned") \cap Tasks /\ Queue(returned', At("returned") \ {t})
    BY <2>1, QueueLeaves, Zenon
  <2> QED BY <2>2, Zenon DEF At
<1>2. CASE Refused(t)
  <2>1. Guests'
    BY <1>2, GuestsStay, Zenon DEF commit_parallel_report, GInv
  <2>2. Placed'
    BY <1>1, <1>2, SMTT(30) DEF commit_parallel_report, GInv, Goto, Placed, CommitsAccepted, At, Active, CurPlace, Queue
  <2>3. Points' /\ PausedIsAtRest'
    BY <1>2, Zenon DEF commit_parallel_report, GInv, Goto, Points, PausedIsAtRest, worldVars
  <2> QED BY <1>2, <2>1, <2>2, <2>3, Zenon DEF commit_parallel_report, GInv, IndexTypes
<1>3. CASE ~Refused(t)
  <2>1. /\ where' = [where EXCEPT ![t] = "cont"]
        /\ stop' = [stop EXCEPT ![t] = IF @ = Recalled THEN Spent ELSE Fresh]
        /\ continuations' = Append(continuations, t)
        /\ UNCHANGED <<pc, cur, back>>
    BY <1>3, Zenon DEF commit_parallel_report, loopVars
  <2>2. /\ WorldTypeOK'
        /\ todo' = todo
        /\ events' \subseteq ({"send", "recv", "done", "ready", "removed"} \X Machines)
        /\ \A p \in paused' : where[p] = "none"
    <3>1. CASE Quiet(t)
      BY <1>3, <3>1, Zenon DEF commit_parallel_report, worldVars, GInv, Guests, WorldTypeOK, IndexTypes,
         PausedIsAtRest
    <3>2. CASE ~Quiet(t)
      <4>1. Operates(t, stop[t]) /\ todo' = todo
        BY <1>3, <3>2, Zenon DEF commit_parallel_report
      <4>2. stop[t] \in Operation /\ Aimed(stop[t])
        BY <1>1, OperationTypes, Zenon DEF GInv, Guests
      <4>3. todo' \in [Machines -> Seq(Request)]
        BY <4>1, Zenon DEF GInv, Guests, WorldTypeOK
      <4> QED BY <1>1, <4>1, <4>2, <4>3, OperatesTypes, Zenon
    <3> QED BY <3>1, <3>2, Zenon
  <2>3. Guests'
    <3>1. Aimed(Spent) /\ Aimed(Fresh)
      BY Zenon DEF Aimed, Spent, Fresh, Req
    <3>2. /\ stop' \in [Tasks -> Request \cup {Fresh, Spent, Recalled}]
          /\ \A u \in Tasks : Aimed(stop'[u])
      BY <1>1, <2>1, <3>1, Zenon DEF GInv, Guests
    <3> QED BY <2>2, <3>2, Zenon DEF GInv, Guests, Aimed
  <2>4. /\ where' \in [Tasks -> Places]
        /\ At("returned")' = At("returned") \ {t}
        /\ At("cont")' = At("cont") \cup {t}
        /\ Active' = Active \ {t}
    BY <1>1, <2>1, Moves, Zenon DEF GInv, Placed, Places
  <2>5. Active' = Active
    BY <1>1, <2>4, Zenon DEF Active
  <2>6. Queue(continuations', At("cont")')
    <3>1. Queue(continuations, At("cont")) /\ t \notin At("cont")
      BY <1>1, Zenon DEF GInv, Placed, At
    <3> QED BY <1>1, <2>1, <2>4, <3>1, QueueJoins
  <2>7. CurPlace'
    BY <1>1, <2>1, Zenon DEF GInv, Placed, CurPlace
  <2>8. Placed'
    BY <1>1, <2>1, <2>4, <2>5, <2>6, <2>7, Zenon DEF GInv, Placed, CommitsAccepted, Queue
  <2>9. PausedIsAtRest'
    BY <1>1, <2>1, <2>2, SMTT(30) DEF PausedIsAtRest, GInv, WorldTypeOK, Placed
  <2>10. Points'
    BY <2>1, Zenon DEF GInv, Points
  <2> QED BY <2>2, <2>3, <2>8, <2>9, <2>10, Zenon
<1> QED BY <1>2, <1>3, Zenon

LEMMA CommitReportKeeps ==
  ASSUME GInv, CommitReport
  PROVE  GInv'
<1>1. PICK i \in Candidates :
        /\ returned' = Without(returned, i)
        /\ scoped_stops' = IF i = 1 THEN {} ELSE ScopedStops
        /\ commit_parallel_report(returned[i])
  BY Zenon DEF CommitReport
<1>2. i \in DOMAIN returned
  <2>1. returned \in Seq(Tasks) /\ returned # <<>>
    BY Zenon DEF CommitReport, GInv, Placed
  <2>2. Len(returned) \in Nat \ {0} /\ DOMAIN returned = 1..Len(returned)
    BY <2>1
  <2> QED BY <2>2 DEF Candidates
<1>3. PICK t : t = returned[i]
  BY Zenon
<1>4. /\ commit_quiescence' \in BOOLEAN
      /\ recalled' \subseteq Active
      /\ ScopedStops \subseteq Machines
  BY PrepareTypes, Zenon DEF CommitReport
<1>5. /\ Guests' /\ Placed' /\ Points' /\ PausedIsAtRest'
      /\ events' \subseteq ({"send", "recv", "done", "ready", "removed"} \X Machines)
  BY <1>1, <1>2, <1>3, <1>4, ReportCommits, Zenon DEF CommitReport
<1>6. IndexTypes'
  BY <1>1, <1>4, <1>5, Zenon DEF CommitReport, GInv, IndexTypes
<1> QED BY <1>5, <1>6, Zenon DEF GInv

LEMMA FirstReport ==
  ASSUME GInv, returned # <<>>
  PROVE  /\ 1 \in DOMAIN returned /\ Oldest = returned[1]
         /\ Tail(returned) = Without(returned, 1)
<1>1. returned \in Seq(Tasks)
  BY Zenon DEF GInv, Placed
<1>2. Len(returned) \in Nat /\ Len(returned) # 0
  BY <1>1
<1>3. SubSeq(returned, 1, 0) = <<>>
  BY <1>1
<1>4. Tail(returned) = SubSeq(returned, 2, Len(returned))
  BY <1>1, <1>2
<1>5. SubSeq(returned, 2, Len(returned)) \in Seq(Tasks)
  BY <1>1, <1>2
<1> QED BY <1>1, <1>2, <1>3, <1>4, <1>5 DEF Without, Oldest

LEMMA SettleCommitsKeeps ==
  ASSUME GInv, SettleCommits
  PROVE  GInv'
<1>1. PICK t : t = Oldest
  BY Zenon
<1>2. /\ 1 \in DOMAIN returned /\ t = returned[1]
      /\ returned' = Without(returned, 1)
  BY <1>1, FirstReport, Zenon DEF SettleCommits
<1>3. recalled' \subseteq Active
  BY Zenon DEF SettleCommits, GInv, Placed
<1>4. /\ Guests' /\ Placed' /\ Points' /\ PausedIsAtRest'
      /\ events' \subseteq ({"send", "recv", "done", "ready", "removed"} \X Machines)
  BY <1>1, <1>2, <1>3, ReportCommits, Zenon DEF SettleCommits
<1> QED BY <1>4, Zenon DEF SettleCommits, GInv, IndexTypes, stopVars

LEMMA SettleDiscardsKeeps ==
  ASSUME GInv, SettleDiscards
  PROVE  GInv'
<1>1. PICK t : t = Oldest
  BY Zenon
<1>2. t \in Tasks /\ where[t] = "returned" /\ Queue(returned', At("returned") \ {t})
  <2>1. Queue(returned, At("returned")) /\ returned # <<>> /\ returned' = Tail(returned)
    BY Zenon DEF SettleDiscards, GInv, Placed, CommitsAccepted
  <2>2. t \in At("returned") \cap Tasks /\ Queue(returned', At("returned") \ {t})
    BY <1>1, <2>1, QueueAdvances, Zenon DEF Oldest
  <2> QED BY <2>2, Zenon DEF At
<1>3. /\ where' \in [Tasks -> Places]
      /\ At("returned")' = At("returned") \ {t}
      /\ At("cont")' = At("cont") \ {t}
      /\ Active' = Active \ {t}
  BY <1>1, <1>2, Moves, Zenon DEF SettleDiscards, GInv, Placed, Places
<1>4. At("cont")' = At("cont") /\ Active' = Active
  BY <1>2, <1>3, Zenon DEF At, Active
<1>5. CurPlace'
  BY <1>1, <1>2, Zenon DEF SettleDiscards, GInv, Placed, CurPlace
<1>6. Placed'
  BY <1>1, <1>2, <1>3, <1>4, <1>5, Zenon DEF SettleDiscards, GInv, Placed, CommitsAccepted, Queue
<1>7. Aimed(Fresh)
  BY Zenon DEF Aimed, Fresh, Req
<1>8. Guests'
  BY <1>1, <1>2, <1>7, OperationTypes, Zenon DEF SettleDiscards, GInv, Guests, WorldTypeOK, Aimed
<1>9. PausedIsAtRest'
  BY <1>1, <1>2 DEF SettleDiscards, GInv, PausedIsAtRest, Placed, Guests, WorldTypeOK
<1> QED BY <1>6, <1>8, <1>9, Zenon DEF SettleDiscards, GInv, IndexTypes, Points, indexVars, stopVars

LEMMA RestsKeeps ==
  ASSUME GInv, AdvanceBlocks \/ AdvanceWaits \/ AdvanceEnds \/ AdvanceYields
  PROVE  GInv'
<1>1. PICK q \in {"none", "saved"} : Advancing /\ Rests(q)
  BY Zenon DEF AdvanceBlocks, AdvanceWaits, AdvanceEnds, AdvanceYields, Leaves
<1>2. PICK t \in Tasks : t = cur
  BY Zenon DEF GInv, Placed
<1>3. where[t] = "cur" /\ where' = [where EXCEPT ![t] = q] /\ pc = "advance"
  BY <1>1, <1>2, Zenon DEF Advancing, Rests, GInv, Placed, CurPlace
<1>4. /\ where' \in [Tasks -> Places]
      /\ At("returned")' = At("returned") \ {t}
      /\ At("cont")' = At("cont") \ {t}
      /\ Active' = Active \ {t}
  BY <1>3, Moves, Zenon DEF GInv, Placed, Places
<1>5. At("returned")' = At("returned") /\ At("cont")' = At("cont") /\ Active' = Active
  BY <1>3, <1>4, Zenon DEF At, Active
<1>6. CurPlace'
  BY <1>1, <1>2, <1>3, Zenon DEF Rests, GInv, Placed, CurPlace
<1>7. Placed'
  BY <1>1, <1>3, <1>4, <1>5, <1>6, Zenon DEF Rests, GInv, Placed, CommitsAccepted, queueVars
<1>8. Guests'
  BY <1>1, GuestsStay, Zenon DEF Rests, GInv
<1>9. PausedIsAtRest'
  <2>1. paused' = paused /\ paused \subseteq Tasks /\ where \in [Tasks -> Places]
    BY <1>1, OperationTypes, Zenon DEF Rests, worldVars, GInv, Guests, WorldTypeOK, Placed
  <2> QED BY <1>3, <2>1, Zenon DEF GInv, PausedIsAtRest
<1> QED BY <1>1, <1>7, <1>8, <1>9, Zenon DEF Rests, GInv, IndexTypes, Points, indexVars, stopVars

LEMMA ExecutesKeeps ==
  ASSUME GInv, AdvanceExecutes
  PROVE  GInv'
<1>1. Guests' /\ IndexTypes'
  BY GuestsStay, Zenon DEF AdvanceExecutes, GInv, IndexTypes, indexVars, stopVars
<1>2. PICK t \in Tasks : t = cur
  BY Zenon DEF GInv, Placed
<1>3. where[t] = "cur" /\ pc = "advance"
  BY <1>2, Zenon DEF AdvanceExecutes, Advancing, GInv, Placed, CurPlace
<1>4. CASE mode = "inline"
  <2>1. Placed'
    BY <1>3, <1>4, PlacesStay, Zenon DEF AdvanceExecutes, Goto, GInv, queueVars
  <2> QED BY <1>1, <1>4, <2>1, Zenon DEF AdvanceExecutes, Goto, GInv, Points, PausedIsAtRest, worldVars
<1>5. CASE mode # "inline"
  <2>1. where' = [where EXCEPT ![t] = "out"] /\ Release("dispatch")
    BY <1>2, <1>5, Zenon DEF AdvanceExecutes
  <2>2. /\ where' \in [Tasks -> Places]
        /\ At("returned")' = At("returned") \ {t}
        /\ At("cont")' = At("cont") \ {t}
        /\ Active' = Active \cup {t}
    BY <2>1, Moves, Zenon DEF GInv, Placed, Places
  <2>3. At("returned")' = At("returned") /\ At("cont")' = At("cont")
    BY <1>3, <2>2, Zenon DEF At
  <2>4. CurPlace'
    BY <1>2, <1>3, <2>1, Zenon DEF Release, GInv, Placed, CurPlace
  <2>5. Placed'
    BY <1>3, <2>1, <2>2, <2>3, <2>4, OperationTypes, Zenon DEF AdvanceExecutes, Release, GInv, Placed,
       CommitsAccepted, queueVars
  <2>6. PausedIsAtRest'
    BY <1>3, <2>1 DEF AdvanceExecutes, GInv, PausedIsAtRest, worldVars, Guests, WorldTypeOK, Placed
  <2> QED BY <1>1, <2>1, <2>5, <2>6, Zenon DEF Release, GInv, Points
<1> QED BY <1>4, <1>5, Zenon

LEMMA ReadyTask ==
  ASSUME NEW t \in Tasks, task_status(t) = "ready"
  PROVE  /\ ~Away(t) /\ ~Terminal(t) /\ t \notin paused /\ where[t] \in {"none", "saved"}
         /\ state[top[t]] = "blocked" => block_ready(top[t])
         /\ state[top[t]] # "waiting"
BY Zenon DEF task_status

LEMMA BeginsKeeps ==
  ASSUME GInv, NEW t \in Tasks, Begins(t)
  PROVE  GInv'
<1>1. t \notin paused /\ where[t] \in {"none", "saved"}
  BY ReadyTask, Zenon DEF Begins
<1>2. pc \notin {"advance", "inline", "invalid"} /\ Takes(t)
  BY Zenon DEF Begins, TurnMode
<1>3. /\ WorldTypeOK'
      /\ todo' = todo
      /\ events' \subseteq ({"send", "recv", "done", "ready", "removed"} \X Machines)
      /\ paused' = paused
  <2>1. CASE UNCHANGED <<worldVars, events>>
    BY <2>1, Zenon DEF worldVars, GInv, Guests, WorldTypeOK, IndexTypes
  <2>2. CASE Operates(t, request[t]) /\ UNCHANGED todo
    <3>1. /\ request[t] \in Operation /\ request[t].op \in {"none", "send", "recv", "done"}
          /\ Aimed(request[t])
      BY OperationTypes, Zenon DEF GInv, Guests, WorldTypeOK, Aimed
    <3>2. paused' = paused
      BY <2>2, <3>1, Zenon DEF Operates, Does, proc_send, proc_recv, proc_done, proc_pause, proc_resume,
         vm_run, collect, host_call, ends
    <3>3. todo' \in [Machines -> Seq(Request)]
      BY <2>2, Zenon DEF GInv, Guests, WorldTypeOK
    <3> QED BY <2>2, <3>1, <3>2, <3>3, OperatesTypes, Zenon
  <2> QED BY <2>1, <2>2, Zenon DEF Begins
<1>4. Guests'
  <2>1. Aimed(Fresh)
    BY Zenon DEF Aimed, Fresh, Req
  <2>2. /\ stop' \in [Tasks -> Request \cup {Fresh, Spent, Recalled}]
        /\ \A u \in Tasks : Aimed(stop'[u])
    BY <2>1, Zenon DEF Begins, GInv, Guests
  <2> QED BY <1>3, <2>2, Zenon DEF GInv, Guests, Aimed
<1>5. IndexTypes'
  BY <1>3, Zenon DEF Begins, GInv, IndexTypes, stopVars
<1>6. /\ where' \in [Tasks -> Places]
      /\ At("returned")' = At("returned") \ {t}
      /\ At("cont")' = At("cont") \ {t}
      /\ Active' = Active \ {t}
  BY <1>2, Moves, Zenon DEF Takes, GInv, Placed, Places
<1>7. At("returned")' = At("returned") /\ At("cont")' = At("cont") /\ Active' = Active
  BY <1>1, <1>6, Zenon DEF At, Active
<1>8. CurPlace'
  BY <1>2, Zenon DEF Takes, GInv, Placed, CurPlace
<1>9. Placed'
  BY <1>2, <1>6, <1>7, <1>8, Zenon DEF Begins, Takes, GInv, Placed, CommitsAccepted, queueVars
<1>10. PausedIsAtRest'
  BY <1>1, <1>2, <1>3 DEF Takes, GInv, PausedIsAtRest, Placed, WorldTypeOK, Guests
<1>11. Points'
  BY <1>2, Zenon DEF Takes, GInv, Points
<1> QED BY <1>4, <1>5, <1>9, <1>10, <1>11, Zenon DEF GInv

LEMMA GInvInit ==
  ASSUME Init
  PROVE  GInv
<1> USE DEF Init
<1>1. WorldTypeOK
  <2>1. Req("none", Root) \in [op : {"none", "send", "recv", "done"}, to : Machines]
    BY OperationTypes, Zenon DEF Req
  <2>2. todo \in [Machines -> Seq(Request)]
    BY WorldAssumption, Zenon DEF WorldInit
  <2> QED BY <2>1, <2>2, OperationTypes DEF WorldInit, WorldTypeOK
<1>2. Guests
  <2>1. \A m \in Machines : \A i \in DOMAIN todo[m] : Aimed(todo[m][i])
    BY WorldAssumption, Zenon DEF WorldInit, Allowed, Aimed
  <2>2. Aimed(Fresh)
    BY Zenon DEF Aimed, Fresh, Req
  <2> QED BY <1>1, <2>1, <2>2, Zenon DEF Guests
<1>3. IndexTypes /\ Points
  BY Zenon DEF IndexTypes, Points
<1>4. \A S : Queue(<<>>, S) <=> S = {}
  BY DEF Queue, IsInjective, Range
<1>5. At("returned") = {} /\ At("cont") = {} /\ Range(reports) = {}
  BY DEF At, Range
<1>6. Placed
  BY <1>4, <1>5, OperationTypes DEF Placed, Places, Active, CurPlace
<1>7. PausedIsAtRest
  BY Zenon DEF WorldInit, PausedIsAtRest
<1> QED BY <1>2, <1>3, <1>6, <1>7, Zenon DEF GInv

LEMMA GInvNext ==
  ASSUME GInv, [Next]_vars
  PROVE  GInv'
<1>1. CASE UNCHANGED vars
  <2>1. Guests'
    BY <1>1, GuestsStay, Zenon DEF GInv, vars
  <2> QED BY <1>1, <2>1 DEF vars, GInv, IndexTypes, Placed, Points, PausedIsAtRest, CommitsAccepted, At, Active,
             CurPlace, indexVars, queueVars, stopVars, loopVars, worldVars
<1>2. CASE Returned
  BY <1>1, <1>2, Zenon DEF Returned
<1>3. ASSUME NEW t \in Tasks, WorkerReports(t) \/ HostCompletes(t)
      PROVE  GInv'
  BY <1>3, WorkerReportsKeeps, HostCompletesKeeps, Zenon
<1>4. CASE CoordinatorStep
  BY <1>4, LoopStartsKeeps, DrainKeeps, CommitParksKeeps, CommitReportKeeps, CommitsEndKeeps,
     AdvanceOperatesKeeps, RestsKeeps, ExecutesKeeps, FinishSliceKeeps, LoopKeeps, ContinuesKeeps,
     BeginsKeeps, ReindexKeeps, FailuresKeep, SettleCommitsKeeps, SettleDiscardsKeeps, Zenon
     DEF CoordinatorStep
<1> QED BY <1>1, <1>2, <1>3, <1>4, Zenon DEF Next

LEMMA GInvImplies ==
  ASSUME GInv
  PROVE  TypeOK /\ PausedIsAtRest /\ (CommitsAccepted => OnePlace)
<1>1. TypeOK
  BY Zenon DEF GInv, Guests, IndexTypes, Placed, Points, TypeOK, Queue
<1>2. PausedIsAtRest
  BY Zenon DEF GInv
<1>3. CommitsAccepted => OnePlace
  BY Zenon DEF GInv, Placed, Queue, At, Active, OnePlace
<1> QED BY <1>1, <1>2, <1>3, Zenon

(* Every variable of the coordinator and of its world keeps its type, for   *)
(* all programs, and only leases that are out are recalled                  *)
(* (drain_worker_reports forgets the recall of a report it takes back).     *)
THEOREM CoordinatorTypesCorrect == Spec => []TypeOK
<1>1. Init => GInv
  BY GInvInit, Zenon
<1>2. GInv /\ [Next]_vars => GInv'
  BY GInvNext, Zenon
<1>3. GInv => TypeOK
  BY GInvImplies, Zenon
<1> QED BY <1>1, <1>2, <1>3, PTL DEF Spec

(* While no commit has been refused, every stack is in one place: each      *)
(* report and each continuation is queued once, and its task is nowhere     *)
(* else (commit_ready_reports, park, dispatch_ready_work).                  *)
THEOREM StacksInOnePlace == Spec => [](CommitsAccepted => OnePlace)
<1>1. Init => GInv
  BY GInvInit, Zenon
<1>2. GInv /\ [Next]_vars => GInv'
  BY GInvNext, Zenon
<1>3. GInv => (CommitsAccepted => OnePlace)
  BY GInvImplies, Zenon
<1> QED BY <1>1, <1>2, <1>3, PTL DEF Spec

(* Proc.Pause waits for a safepoint, for all programs: no worker, report or *)
(* continuation holds a paused proc (machine_safepoint_requirement).        *)
THEOREM PausedAlwaysAtRest == Spec => []PausedIsAtRest
<1>1. Init => GInv
  BY GInvInit, Zenon
<1>2. GInv /\ [Next]_vars => GInv'
  BY GInvNext, Zenon
<1>3. GInv => PausedIsAtRest
  BY GInvImplies, Zenon
<1> QED BY <1>1, <1>2, <1>3, PTL DEF Spec

---------------------------------------------------------------------------
(* A world without pauses. *)

LEMMA TopsApart ==
  ASSUME StackShape
  PROVE  /\ \A t, u \in Tasks : top[t] = top[u] => t = u
         /\ \A t, u \in Tasks : top[t] = u => t = u
<1>1. Held \cap Tasks = {}
  BY WorldAssumption, Zenon
<1> QED BY <1>1 DEF StackShape

LEMMA AwayIsOut ==
  ASSUME StackShape, NEW t \in Tasks
  PROVE  Away(t) => where[t] = "out"
BY TopsApart, Zenon DEF Away, Active

LEMMA IndexNone ==
  ASSUME StackShape, paused = {}, NEW t \in Tasks, index_status(t) = "none"
  PROVE  Terminal(t) \/ where[t] \notin {"none", "saved"}
BY AwayIsOut, Zenon DEF index_status, task_status

LEMMA ReturnedPlace ==
  ASSUME GInv, CommitsAccepted
  PROVE  /\ \A i \in DOMAIN returned : returned[i] \in Tasks /\ where[returned[i]] = "returned"
         /\ returned # <<>> => Oldest \in Tasks /\ where[Oldest] = "returned"
<1>1. Queue(returned, At("returned"))
  BY Zenon DEF GInv, Placed
<1>2. ASSUME NEW i \in DOMAIN returned
      PROVE  returned[i] \in At("returned")
  BY <1>1, QueueLeaves, Zenon
<1>3. returned # <<>> => Head(returned) \in At("returned")
  BY <1>1, QueueAdvances, Zenon
<1> QED BY <1>2, <1>3, Zenon DEF At, Oldest

(* What the oldest report needs, when nobody asks for a safepoint of a      *)
(* machine in use.                                                          *)
LEMMA OldestShape ==
  ASSUME GInv, RInv, returned # <<>>
  PROVE  /\ OldestReady <=> ~NotReady(Oldest)
         /\ OldestNeeds.kind # "safepoint"
         /\ IsNeed(OldestNeeds) => Away(OldestNeeds.key)
<1>1. PICK t \in Tasks : t = Oldest /\ where[t] = "returned"
  BY ReturnedPlace, Zenon DEF RInv, Loop
<1>2. /\ stop[t] \in Request \cup {Recalled}
      /\ stop[t].op \notin {"recalled", "end"} => Plain(top[t], stop[t])
  BY <1>1, OperationTypes DEF RInv, StopShape, Recalled, Req, Request
<1>3. ~Away(top[t])
  BY <1>1, TopsApart, Zenon DEF RInv, Away, Active
<1>4. ASSUME stop[t].op = "run"
      PROVE  ~InUse(stop[t].to)
  <2>1. PICK h \in Held : h = stop[t].to /\ Holder[h] = top[t]
    BY <1>2, <1>4, Zenon DEF Plain, Allowed
  <2>2. Holder[h] \in Tasks /\ h \notin Tasks
    BY WorldAssumption, Zenon
  <2>3. top[t] = t
    BY <1>1, <2>1, <2>2, TopsApart, Zenon DEF RInv
  <2>4. ASSUME NEW u \in Tasks, top[u] = h
        PROVE  FALSE
    <3>1. Holder[h] = u
      BY <2>2, <2>4, Zenon DEF RInv, StackShape
    <3> QED BY <1>1, <2>1, <2>2, <2>3, <2>4, <3>1, Zenon
  <2> QED BY <2>1, <2>2, <2>4, Zenon DEF InUse
<1>5. CASE stop[t].op \in {"recalled", "end"}
  <2>1. OldestNeeds = Ready
    BY <1>1, <1>5, Zenon DEF OldestNeeds, parallel_requirement
  <2> QED BY <1>1, <1>5, <2>1, Zenon DEF OldestReady, NotReady, Ready, IsNeed
<1>6. CASE stop[t].op \notin {"recalled", "end"} /\ policy_requirement(top[t])
  <2>1. OldestNeeds = Needs("machine", Root)
    BY <1>1, <1>6, Zenon DEF OldestNeeds, parallel_requirement
  <2> QED BY <1>1, <1>6, <2>1, Zenon DEF OldestReady, NotReady, Ready, Collection, Needs, IsNeed, policy_requirement
<1>7. CASE stop[t].op \notin {"recalled", "end"} /\ ~policy_requirement(top[t])
  <2>1. OldestNeeds = perform_machine_requirement(top[t], stop[t])
    BY <1>1, <1>7, Zenon DEF OldestNeeds, parallel_requirement
  <2>2. CASE stop[t].op = "collect"
    <3>1. OldestNeeds = Collection
      BY <2>1, <2>2, Zenon DEF perform_machine_requirement
    <3> QED BY <1>1, <1>7, <2>2, <3>1, Zenon DEF OldestReady, NotReady, Ready, Collection, IsNeed
  <2>3. CASE stop[t].op \in {"send", "done"} /\ stop[t].to # top[t]
    <3>1. OldestNeeds = machine_requirement(stop[t].to)
      BY <2>1, <2>3, Zenon DEF perform_machine_requirement, operation_needs_idle_target
    <3> QED BY <1>1, <1>7, <2>3, <3>1, Zenon DEF OldestReady, NotReady, Ready, Collection, Needs, IsNeed,
               machine_requirement
  <2>4. CASE stop[t].op \in {"send", "done"} /\ stop[t].to = top[t]
    <3>1. OldestNeeds = Ready
      BY <2>1, <2>4, Zenon DEF perform_machine_requirement
    <3> QED BY <1>1, <1>3, <1>7, <2>4, <3>1, Zenon DEF OldestReady, NotReady, Ready, IsNeed
  <2>5. CASE stop[t].op \notin {"collect", "send", "done"}
    <3>1. stop[t].op \notin {"pause", "resume"}
      BY <1>2, <1>7, Zenon DEF Plain
    <3>2. OldestNeeds = Ready
      BY <1>4, <2>1, <2>5, <3>1, Zenon DEF perform_machine_requirement, operation_needs_idle_target,
         machine_safepoint_requirement
    <3> QED BY <1>1, <1>7, <2>5, <3>2, Zenon DEF OldestReady, NotReady, Ready, IsNeed
  <2> QED BY <2>2, <2>3, <2>4, <2>5, Zenon
<1> QED BY <1>5, <1>6, <1>7, Zenon

LEMMA CommitShape ==
  ASSUME GInv, RInv, returned # <<>>
  PROVE  /\ Retained = {} /\ ScopedStops = {}
         /\ Candidates = IF ~NotReady(Oldest) THEN {1}
                         ELSE {i \in 2..Len(returned) : Quiet(returned[i])}
<1>1. Retained = {} /\ ScopedStops = {}
  BY OldestShape, Zenon DEF Retained, ScopedStops, RInv, PlainWorld
<1>2. ASSUME NEW i \in 2..Len(returned), IsNeed(OldestNeeds), top[returned[i]] = OldestNeeds.key
      PROVE  FALSE
  <2>1. PICK u \in Tasks : u = returned[i] /\ where[u] = "returned"
    <3>1. i \in DOMAIN returned
      BY DEF GInv, Placed
    <3> QED BY <3>1, ReturnedPlace, Zenon DEF RInv, Loop
  <2>2. Away(top[u])
    BY <1>2, <2>1, OldestShape, Zenon
  <2> QED BY <2>1, <2>2, TopsApart, Zenon DEF RInv, Away, Active
<1>3. Candidates = IF OldestReady THEN {1} ELSE {i \in 2..Len(returned) : Quiet(returned[i])}
  BY <1>2, Zenon DEF Candidates
<1> QED BY <1>1, <1>3, OldestShape, Zenon

(* An operation changes the state of the machine that asked for it, and at  *)
(* most the top of its own stack.                                           *)
LEMMA PlainOperates ==
  ASSUME GInv, StackShape, PlainWorld, NEW t \in Tasks, NEW r \in Operation, Operates(t, r),
         r.op \notin {"pause", "resume"},
         r.op = "run" => r.to \in Held /\ Holder[r.to] = top[t] /\ state[top[t]] = "ready",
         state[top[t]] \in {"ready", "blocked"}
  PROVE  /\ paused' = {}
         /\ \A m \in Machines : <<"removed", m>> \notin events'
         /\ \A m \in Machines : m # top[t] => state'[m] = state[m]
         /\ \A m \in Machines : Terminal(m) => Terminal(m)'
         /\ \A u \in Tasks : u # t => top'[u] = top[u]
         /\ \/ top'[t] = top[t]
            \/ /\ top[t] = t /\ top'[t] \in Held /\ Holder[top'[t]] = t
               /\ state'[t] = "ready"
<1>0. /\ state \in [Machines -> {"ready", "blocked", "waiting", "done", "faulted"}]
      /\ top \in [Tasks -> Machines] /\ paused = {}
      /\ \A m \in Machines : <<"removed", m>> \notin events
  BY Zenon DEF GInv, Guests, WorldTypeOK, PlainWorld
<1>1. Does(t, top[t], r, InUse(r.to)) /\ Emits(top[t], r)
  BY Zenon DEF Operates
<1>2. paused' = {}
  BY <1>0, <1>1, Zenon DEF Does, proc_send, proc_recv, proc_done, proc_pause, proc_resume, vm_run, collect,
     host_call, ends
<1>3. \A m \in Machines : <<"removed", m>> \notin events'
  BY <1>0, <1>1, Zenon DEF Emits
<1>4. \A m \in Machines : m # top[t] => state'[m] = state[m]
  BY <1>0, <1>1, Zenon DEF Does, proc_send, proc_recv, proc_done, proc_pause, proc_resume, vm_run, collect,
     host_call, ends, Answers, Blocks
<1>5. \A m \in Machines : Terminal(m) => Terminal(m)'
  BY <1>0, <1>4, Zenon DEF Terminal
<1>6. CASE r.op = "run"
  <2>1. vm_run(t, r)
    BY <1>1, <1>6, Zenon DEF Does, proc_send, proc_recv, proc_done, proc_pause, proc_resume, collect,
       host_call, ends
  <2>2. top[t] = t
    <3>1. Holder[r.to] \in Tasks
      BY <1>6, WorldAssumption, Zenon
    <3> QED BY <1>6, <3>1, TopsApart, Zenon
  <2> QED BY <1>0, <1>2, <1>3, <1>4, <1>5, <1>6, <2>1, <2>2, Zenon DEF vm_run
<1>7. CASE r.op # "run"
  <2>1. top' = top
    BY <1>1, <1>7, Zenon DEF Does, proc_send, proc_recv, proc_done, proc_pause, proc_resume, vm_run, collect,
       host_call, ends
  <2> QED BY <1>2, <1>3, <1>4, <1>5, <2>1, Zenon
<1> QED BY <1>6, <1>7, Zenon

(* The stacks, the reports and the machines under execution stay in shape   *)
(* when one task t acts or moves.                                           *)
LEMMA ShapesKept ==
  ASSUME GInv, RInv, NEW t \in Tasks,
         \A m \in Machines : m \notin {t, top[t]} => state'[m] = state[m],
         \A u \in Tasks : u # t =>
             top'[u] = top[u] /\ stop'[u] = stop[u] /\ where'[u] = where[u],
         \/ top'[t] = top[t] /\ (top[t] # t => where'[t] # "none" /\ state'[t] = state[t])
         \/ top'[t] = t
         \/ /\ top[t] = t /\ top'[t] \in Held /\ Holder[top'[t]] = t
            /\ state'[t] = "ready" /\ where'[t] # "none",
         \A m \in Machines : m # top[t] => todo'[m] = todo[m],
         \A u \in Tasks : u # t => (u \in Range(reports') <=> u \in Range(reports)),
         \/ where'[t] \notin {"out", "returned"} /\ stop'[t] \in {Fresh, Spent}
            /\ t \notin Range(reports')
         \/ /\ where'[t] = "out" /\ t \notin Range(reports') /\ stop'[t] = Fresh
            /\ state'[top'[t]] = "ready",
         pc' = "inline" => pc = "inline" /\ cur' = cur /\ t # cur
  PROVE  StackShape' /\ StopShape' /\ Executing'
<1>0. t \in Machines /\ \A u \in Tasks : u \in Machines /\ top[u] \in Machines
  BY OperationTypes, Zenon DEF GInv, Guests, WorldTypeOK
<1>1. ASSUME NEW u \in Tasks, u # t
      PROVE  /\ top'[u] = top[u] /\ top[u] # top[t] /\ u # top[t]
             /\ top[u] # t
  BY <1>1, TopsApart, Zenon DEF RInv
<1>2. StackShape'
  <2>1. ASSUME NEW u \in Tasks, u # t
        PROVE  \/ top'[u] = u
               \/ /\ top'[u] \in Held /\ Holder[top'[u]] = u
                  /\ where'[u] # "none" /\ state'[u] = "ready"
    BY <1>0, <1>1, <2>1, SMTT(30) DEF RInv, StackShape
  <2>2. \/ top'[t] = t
        \/ /\ top'[t] \in Held /\ Holder[top'[t]] = t
           /\ where'[t] # "none" /\ state'[t] = "ready"
    BY <1>0, Zenon DEF RInv, StackShape
  <2> QED BY <2>1, <2>2, Zenon DEF StackShape
<1>3. StopShape'
  <2>1. ASSUME NEW u \in Tasks, u # t
        PROVE  todo'[top'[u]] = todo[top[u]]
    BY <1>0, <1>1, <2>1, ZenonT(30)
  <2> QED BY <1>1, <2>1, SMTT(30) DEF RInv, StopShape, Plain, Allowed
<1>4. Executing'
  <2>1. ASSUME NEW u \in Tasks, u # t
        PROVE  state'[top'[u]] = state[top[u]]
    BY <1>0, <1>1, <2>1, SMTT(30)
  <2>2. \A u \in Tasks : where'[u] \in {"out", "returned"} => state'[top'[u]] = "ready"
    BY <2>1, SMTT(30) DEF RInv, Executing
  <2>3. pc' = "inline" => state'[top'[cur']] = "ready"
    BY <2>1, Zenon DEF RInv, Executing, GInv, Placed
  <2> QED BY <2>2, <2>3, Zenon DEF Executing
<1> QED BY <1>2, <1>3, <1>4, Zenon

LEMMA StalledStays ==
  ASSUME GInv, CommitsAccepted, Stalled, NEW t, where[t] \notin {"out", "returned"},
         \A u \in Tasks : u # t =>
             top'[u] = top[u] /\ stop'[u] = stop[u] /\ where'[u] = where[u],
         returned' = returned
  PROVE  Stalled'
<1>1. CASE returned = <<>>
  BY <1>1, Zenon DEF Stalled
<1>2. CASE returned # <<>>
  <2>1. Active \subseteq Active'
    BY Zenon DEF Active
  <2>2. ASSUME NEW m, Away(m)
        PROVE  Away(m)'
    BY <2>1, <2>2, Zenon DEF Away, Active
  <2>3. PICK o \in Tasks : o = Oldest /\ o # t /\ Oldest' = o
    BY <1>2, ReturnedPlace, Zenon DEF Oldest
  <2>4. top'[o] = top[o] /\ stop'[o] = stop[o]
    BY <2>3, Zenon
  <2>5. NotReady(o)
    BY <1>2, <2>3, Zenon DEF Stalled
  <2>6. NotReady(Oldest)'
    BY <2>1, <2>2, <2>3, <2>4, <2>5, Zenon DEF NotReady, policy_requirement
  <2>7. \A i \in 2..Len(returned) : stop'[returned[i]] = stop[returned[i]]
    <3>1. \A i \in 2..Len(returned) : i \in DOMAIN returned
      BY DEF GInv, Placed
    <3> QED BY <3>1, ReturnedPlace, Zenon
  <2> QED BY <1>2, <2>6, <2>7, Zenon DEF Stalled, Quiet
<1> QED BY <1>1, <1>2, Zenon

LEMMA StalledFrame ==
  ASSUME Stalled, UNCHANGED <<top, where, stop, returned>>
  PROVE  Stalled'
BY Zenon DEF Stalled, NotReady, Oldest, Quiet, policy_requirement, Away, Active

LEMMA ShapesFrame ==
  ASSUME RInv, UNCHANGED <<worldVars, where, stop, reports>>,
         pc' = "inline" => state[top[cur']] = "ready"
  PROVE  StackShape' /\ StopShape' /\ Executing'
BY Zenon DEF RInv, StackShape, StopShape, Executing, Plain, Allowed, worldVars

LEMMA IndexesKept ==
  ASSUME GInv, Indexes, idx' = idx, pc # "finish", pc' \notin {"commit2", "idle"}, NEW t \in Tasks,
         \A m \in Machines : Terminal(m) => Terminal(m)',
         \A u \in Tasks : u # t => where'[u] = where[u],
         \/ where'[t] \in {where[t]} \cup (Places \ {"none", "saved"})
         \/ pc' = "finish" /\ cur' = t
  PROVE  Indexes'
<1>1. Tasks \subseteq Machines
  BY OperationTypes, Zenon
<1>2. ASSUME NEW u \in Tasks, idx'[u] = "none"
      PROVE  \/ Terminal(u)' \/ where'[u] \notin {"none", "saved"}
             \/ pc' = "finish" /\ u = cur'
  BY <1>1, <1>2, Zenon DEF Indexes
<1> QED BY <1>2, Zenon DEF Indexes

LEMMA ConsumeIndexes ==
  ASSUME StackShape, PlainWorld, NEW tasks, NEW dropped, NEW keys, ConsumeEvents(tasks, dropped, keys),
         \A m \in Machines : <<"removed", m>> \notin keys,
         NEW t \in Tasks, idx'[t] = "none"
  PROVE  \/ Terminal(t) \/ where[t] \notin {"none", "saved"} \/ t \in dropped
         \/ idx[t] = "none" /\ t \notin tasks
<1>1. t \in Machines /\ paused = {}
  BY OperationTypes, Zenon DEF PlainWorld
<1>2. <<"removed", t>> \notin events \cup keys
  BY <1>1, Zenon DEF PlainWorld
<1>3. \/ idx'[t] = index_status(t)
      \/ idx'[t] = "none" /\ t \in dropped
      \/ idx'[t] = idx[t] /\ t \notin tasks
  BY <1>2, Zenon DEF ConsumeEvents
<1> QED BY <1>1, <1>3, IndexNone, Zenon

(* A step that leaves the programs alone, pauses nothing and removes no     *)
(* task leaves the world plain.                                             *)
LEMMA PlainKept ==
  ASSUME PlainWorld, UNCHANGED <<todo, paused, scoped_stops>>,
         \A m \in Machines : <<"removed", m>> \in events' => <<"removed", m>> \in events
  PROVE  PlainWorld'
BY DEF PlainWorld, Plain, Allowed

LEMMA LoopStartsPlain ==
  ASSUME GInv, RInv, LoopStarts
  PROVE  RInv'
<1>1. StackShape' /\ StopShape' /\ Executing'
  BY ShapesFrame, Zenon DEF LoopStarts, Goto, queueVars
<1>2. PlainWorld'
  BY PlainKept, Zenon DEF RInv, LoopStarts, ConsumeEvents, worldVars, stopVars
<1>3. Indexes'
  <2>1. ASSUME NEW t \in Tasks, idx'[t] = "none"
        PROVE  Terminal(t) \/ where[t] \notin {"none", "saved"}
    <3>1. Terminal(t) \/ where[t] \notin {"none", "saved"} \/ idx[t] = "none"
      BY <2>1, ConsumeIndexes, SMTT(30) DEF LoopStarts, RInv
    <3> QED BY <3>1, Zenon DEF LoopStarts, RInv, Indexes
  <2> QED BY <2>1, Zenon DEF LoopStarts, Indexes, Goto, Terminal, worldVars
<1>4. Loop'
  BY Zenon DEF RInv, Loop, LoopStarts, Goto, InDispatch, Settling, Terminal, worldVars, stopVars, CommitsAccepted
<1> QED BY <1>1, <1>2, <1>3, <1>4, Zenon DEF RInv

LEMMA FinishSlicePlain ==
  ASSUME GInv, RInv, finish_slice
  PROVE  RInv'
<1>0. back \in {"top", "dispatch", "settle"} /\ pc' = back /\ pc = "finish" /\ back' = "top"
  BY Zenon DEF RInv, Loop, finish_slice, Release
<1>1. StackShape' /\ StopShape' /\ Executing'
  BY <1>0, ShapesFrame, Zenon DEF finish_slice, queueVars
<1>2. PlainWorld'
  BY PlainKept, Zenon DEF RInv, finish_slice, ConsumeEvents, worldVars
<1>3. Indexes'
  <2>1. ASSUME NEW t \in Tasks, idx'[t] = "none"
        PROVE  Terminal(t) \/ where[t] \notin {"none", "saved"}
    <3>1. CASE Terminal(cur)
      <4>1. \/ Terminal(t) \/ where[t] \notin {"none", "saved"} \/ t = cur
            \/ idx[t] = "none"
        BY <2>1, <3>1, ConsumeIndexes, SMTT(30) DEF finish_slice, RInv
      <4> QED BY <3>1, <4>1, Zenon DEF RInv, Indexes
    <3>2. CASE ~Terminal(cur)
      <4>1. \/ Terminal(t) \/ where[t] \notin {"none", "saved"}
            \/ idx[t] = "none" /\ t # cur
        BY <2>1, <3>2, ConsumeIndexes, SMTT(30) DEF finish_slice, RInv
      <4> QED BY <4>1, Zenon DEF RInv, Indexes
    <3> QED BY <3>1, <3>2, Zenon
  <2> QED BY <1>0, <2>1, Zenon DEF finish_slice, Indexes, Terminal, worldVars
<1>4. InDispatch' => Stalled'
  <2>1. InDispatch' => InDispatch
    BY <1>0, Zenon DEF InDispatch
  <2>2. UNCHANGED <<top, where, stop, returned>>
    BY Zenon DEF finish_slice, worldVars, queueVars
  <2> QED BY <2>1, <2>2, StalledFrame, Zenon DEF RInv, Loop
<1>5. Settling' => Settling
  BY <1>0, Zenon DEF Settling
<1>6. Loop'
  BY <1>0, <1>4, <1>5, Zenon DEF RInv, Loop, finish_slice, Release, Terminal, worldVars, CommitsAccepted
<1> QED BY <1>1, <1>2, <1>3, <1>6, Zenon DEF RInv

LEMMA CommitsEndPlain ==
  ASSUME GInv, RInv, CommitsEnd
  PROVE  RInv'
<1>0. /\ pc \in {"commit", "commit2"}
      /\ pc' = IF pc = "commit" THEN "decide" ELSE "idle"
      /\ UNCHANGED <<worldVars, where, stop, reports, returned, continuations, idx, events,
                     root_terminal, cur, mode, back>>
  BY Zenon DEF CommitsEnd, Goto, AfterCommits, indexVars
<1>1. StackShape' /\ StopShape' /\ Executing'
  BY <1>0, ShapesFrame, Zenon
<1>2. PlainWorld'
  <2>1. scoped_stops' = scoped_stops
    BY CommitShape, Zenon DEF CommitsEnd, RInv, PlainWorld
  <2> QED BY <1>0, <2>1, PlainKept, Zenon DEF RInv, worldVars
<1>3. Indexes'
  BY <1>0, Zenon DEF RInv, Indexes, Terminal, Queued, worldVars
<1>4. root_terminal \/ Stalled
  <2>1. CASE returned = <<>>
    BY <2>1, Zenon DEF Stalled
  <2>2. CASE returned # <<>> /\ ~root_terminal
    <3>1. Candidates = {}
      BY <2>2, Zenon DEF CommitsEnd
    <3>2. Candidates = IF ~NotReady(Oldest) THEN {1}
                       ELSE {i \in 2..Len(returned) : Quiet(returned[i])}
      BY <2>2, CommitShape, Zenon
    <3>3. NotReady(Oldest) /\ \A i \in 2..Len(returned) : ~Quiet(returned[i])
      BY <3>1, <3>2, Zenon
    <3> QED BY <3>3, Zenon DEF Stalled
  <2> QED BY <2>1, <2>2, Zenon
<1>5. pc = "commit2" => Stalled
  BY Zenon DEF RInv, Loop, InDispatch
<1>6. Stalled => Stalled'
  BY <1>0, StalledFrame, Zenon DEF worldVars
<1>7. Loop'
  BY <1>0, <1>4, <1>5, <1>6, Zenon DEF RInv, Loop, InDispatch, Settling, Terminal, worldVars, CommitsAccepted
<1> QED BY <1>1, <1>2, <1>3, <1>7, Zenon DEF RInv

(* Steps of the loop that only decide where it goes on. *)
LEMMA DecisionsPlain ==
  ASSUME GInv, RInv,
         \/ RootStops \/ Quiesces \/ Dispatches \/ DispatchEnds \/ Parks \/ Unparks
         \/ WaitsForHost \/ Settled
  PROVE  RInv'
<1>0. /\ UNCHANGED <<worldVars, where, stop, reports, returned, continuations, idx, events,
                     scoped_stops, cur, mode, back>>
      /\ pc' \in {"settle", "park", "top", "dispatch", "commit2", "host", "returned"}
      /\ pc \in {"decide", "dispatch", "idle", "park", "settle"}
  BY Zenon DEF RootStops, Quiesces, Dispatches, DispatchEnds, Parks, Unparks, WaitsForHost, Settled,
     Goto, AtRest, Idle, indexVars, queueVars, stopVars
<1>1. StackShape' /\ StopShape' /\ Executing'
  BY <1>0, ShapesFrame, Zenon
<1>2. PlainWorld'
  BY <1>0, ZenonT(30) DEF RInv, PlainWorld, worldVars, Plain, Allowed
<1>3. pc' = "commit2" => Queued = {} /\ continuations = <<>> /\ pc = "dispatch"
  BY Zenon DEF RootStops, Quiesces, Dispatches, DispatchEnds, Parks, Unparks, WaitsForHost, Settled,
     Goto, RInv, PlainWorld, Queued
<1>4. Indexes'
  BY <1>0, <1>3, Zenon DEF RInv, Indexes, Terminal, Queued, worldVars
<1>5. pc' = "dispatch" => pc = "decide" /\ ~root_terminal
  BY Zenon DEF RootStops, Quiesces, Dispatches, DispatchEnds, Parks, Unparks, WaitsForHost, Settled,
     Goto, RootEnded
<1>6. InDispatch' => Stalled'
  <2>1. InDispatch' => Stalled
    BY <1>0, <1>3, <1>5, Zenon DEF RInv, Loop, InDispatch
  <2> QED BY <1>0, <2>1, StalledFrame, Zenon DEF worldVars
<1>7. /\ root_terminal' => Terminal(Root)
      /\ pc' = "settle" => root_terminal'
  <2>1. root_terminal => Terminal(Root)
    BY Zenon DEF RInv, Loop
  <2>2. CASE RootStops
    <3>1. task_status(Root) = "terminal" => Terminal(Root)
      BY Zenon DEF task_status
    <3>2. root_terminal' = TRUE /\ RootEnded
      BY <2>2, Zenon DEF RootStops
    <3> QED BY <2>1, <3>1, <3>2, Zenon DEF RootEnded
  <2>3. CASE ~RootStops
    <3>1. root_terminal' = root_terminal /\ pc' # "settle"
      BY <2>3, Zenon DEF Quiesces, Dispatches, DispatchEnds, Parks, Unparks, WaitsForHost, Settled,
         Goto, stopVars
    <3> QED BY <2>1, <3>1, Zenon
  <2> QED BY <2>2, <2>3, Zenon
<1>8. Loop'
  BY <1>0, <1>6, <1>7, Zenon DEF RInv, Loop, Settling, Terminal, worldVars, CommitsAccepted
<1> QED BY <1>1, <1>2, <1>4, <1>8, Zenon DEF RInv

LEMMA ReindexesPlain ==
  ASSUME GInv, RInv, (\E t \in Tasks : Reindexes(t)) \/ reconcile_parallel_states
  PROVE  RInv'
<1>0. /\ UNCHANGED <<worldVars, where, stop, reports, returned, continuations, events,
                     scoped_stops, root_terminal, cur, mode, back>>
      /\ pc \in {"decide", "dispatch", "idle"}
      /\ pc' = "top" \/ (pc' = "dispatch" /\ pc = "dispatch")
  BY Zenon DEF Reindexes, reconcile_parallel_states, Goto, AtRest, Idle, queueVars, stopVars, TurnMode
<1>1. StackShape' /\ StopShape' /\ Executing'
  BY <1>0, ShapesFrame, Zenon
<1>2. PlainWorld'
  BY <1>0, PlainKept, Zenon DEF RInv, worldVars
<1>3. ASSUME NEW u \in Tasks, idx'[u] = "none"
      PROVE  Terminal(u) \/ where[u] \notin {"none", "saved"}
  <2>1. idx[u] = "none" \/ index_status(u) = "none"
    BY <1>3, Zenon DEF Reindexes, reconcile_parallel_states, GInv, IndexTypes
  <2> QED BY <1>0, <2>1, IndexNone, Zenon DEF RInv, Indexes, PlainWorld
<1>4. Indexes'
  BY <1>0, <1>3, Zenon DEF Indexes, Terminal, worldVars
<1>5. Stalled => Stalled'
  BY <1>0, StalledFrame, Zenon DEF worldVars
<1>6. Loop'
  BY <1>0, <1>5, Zenon DEF RInv, Loop, InDispatch, Settling, Terminal, worldVars, CommitsAccepted
<1> QED BY <1>1, <1>2, <1>4, <1>6, Zenon DEF RInv

(* What a guest asks for in a world without pauses. *)
LEMMA AskPlain ==
  ASSUME GInv, PlainWorld, NEW m \in Machines, Asked(m)
  PROVE  /\ \/ Ask(m) = Req("end", Root) /\ todo[m] = <<>>
            \/ Ask(m) \in Request /\ Plain(m, Ask(m)) /\ todo[m] # <<>>
         /\ todo[m] = <<>> => todo'[m] = <<>>
         /\ \A n \in Machines : n # m => todo'[n] = todo[n]
         /\ \A n \in Machines : \A i \in DOMAIN todo'[n] : Plain(n, todo'[n][i])
<1>1. /\ todo \in [Machines -> Seq(Request)] /\ todo[m] \in Seq(Request)
      /\ \A n \in Machines : \A i \in DOMAIN todo[n] : Plain(n, todo[n][i])
  BY Zenon DEF GInv, Guests, WorldTypeOK, PlainWorld
<1>2. /\ \A n \in Machines : n # m => todo'[n] = todo[n]
      /\ todo'[m] = IF todo[m] = <<>> THEN todo[m] ELSE Tail(todo[m])
  BY <1>1, Zenon DEF Asked
<1>3. CASE todo[m] = <<>>
  BY <1>1, <1>2, <1>3, Zenon DEF Ask
<1>4. CASE todo[m] # <<>>
  <2>1. /\ Ask(m) = todo[m][1] /\ 1 \in DOMAIN todo[m] /\ todo[m][1] \in Request
        /\ \A i \in DOMAIN Tail(todo[m]) : i + 1 \in DOMAIN todo[m] /\ Tail(todo[m])[i] = todo[m][i + 1]
    BY <1>1, <1>4 DEF Ask
  <2>2. \A i \in DOMAIN todo'[m] : Plain(m, todo'[m][i])
    BY <1>1, <1>2, <1>4, <2>1, Zenon
  <2> QED BY <1>1, <1>2, <1>4, <2>1, <2>2, Zenon
<1> QED BY <1>3, <1>4, Zenon

LEMMA WorkerReportsPlain ==
  ASSUME GInv, RInv, NEW t \in Tasks, WorkerReports(t)
  PROVE  RInv'
<1>0. /\ UNCHANGED <<state, request, box, paused, top, where, indexVars, returned, continuations,
                     recalled, stopVars, loopVars>>
      /\ pc \in {"drain", "park"} /\ pc' = pc /\ where[t] = "out" /\ top[t] \in Machines
      /\ stop \in [Tasks -> Request \cup {Fresh, Spent, Recalled}]
  BY Zenon DEF WorkerReports, loopVars, GInv, Guests, WorldTypeOK
<1>1. /\ \A u \in Tasks : u # t => stop'[u] = stop[u]
      /\ \/ Asked(top[t]) /\ stop'[t] = Ask(top[t])
         \/ todo' = todo /\ stop'[t] = Recalled
  BY <1>0, Zenon DEF WorkerReports
<1>2. /\ \/ stop'[t] = Recalled
         \/ stop'[t] = Req("end", Root) /\ todo'[top[t]] = <<>>
         \/ stop'[t] \in Request /\ Plain(top[t], stop'[t])
      /\ \A n \in Machines : n # top[t] => todo'[n] = todo[n]
      /\ \A n \in Machines : \A i \in DOMAIN todo'[n] : Plain(n, todo'[n][i])
  <2>1. CASE Asked(top[t]) /\ stop'[t] = Ask(top[t])
    BY <1>0, <2>1, AskPlain, Zenon DEF RInv
  <2>2. CASE todo' = todo /\ stop'[t] = Recalled
    BY <2>2, Zenon DEF RInv, PlainWorld
  <2> QED BY <1>1, <2>1, <2>2, Zenon
<1>3. PlainWorld'
  BY <1>0, <1>2, Zenon DEF RInv, PlainWorld, indexVars, stopVars, Plain, Allowed
<1>4. StackShape' /\ Executing'
  BY <1>0, Zenon DEF RInv, StackShape, Executing, loopVars
<1>5. Range(reports') = Range(reports) \cup {t}
  BY QueueJoins DEF WorkerReports, GInv, Placed, Queue
<1>6. StopShape'
  <2>1. ASSUME NEW u \in Tasks, u # t
        PROVE  top[u] # top[t] /\ top[u] \in Machines
    BY <2>1, TopsApart, Zenon DEF RInv, GInv, Guests, WorldTypeOK
  <2>2. ASSUME NEW u \in Tasks, u # t
        PROVE  /\ stop'[u] = stop[u] /\ todo'[top'[u]] = todo[top[u]] /\ top'[u] = top[u]
               /\ where'[u] = where[u] /\ (u \in Range(reports') <=> u \in Range(reports))
    BY <1>0, <1>1, <1>2, <1>5, <2>1, <2>2, Zenon DEF loopVars
  <2>3. ASSUME NEW u \in Tasks
        PROVE  /\ where'[u] \notin {"out", "returned"} => stop'[u] \in {Fresh, Spent}
               /\ where'[u] = "out" /\ u \notin Range(reports') => stop'[u] = Fresh
               /\ where'[u] = "returned" \/ u \in Range(reports') =>
                    \/ stop'[u] = Recalled
                    \/ stop'[u] = Req("end", Root) /\ todo'[top'[u]] = <<>>
                    \/ stop'[u] \in Request /\ Plain(top'[u], stop'[u])
    <3>1. CASE u = t
      BY <1>0, <1>2, <1>5, <3>1, Zenon DEF loopVars
    <3>2. CASE u # t
      BY <2>2, <3>2, Zenon DEF RInv, StopShape
    <3> QED BY <3>1, <3>2, Zenon
  <2> QED BY <2>3, Zenon DEF StopShape, Plain, Allowed
<1>7. Indexes'
  BY <1>0, Zenon DEF RInv, Indexes, Terminal, indexVars, loopVars
<1>8. Loop'
  BY <1>0, Zenon DEF RInv, Loop, InDispatch, Settling, Terminal, stopVars, loopVars, CommitsAccepted
<1> QED BY <1>3, <1>4, <1>6, <1>7, <1>8, Zenon DEF RInv

LEMMA HostCompletesPlain ==
  ASSUME GInv, RInv, NEW t \in Tasks, HostCompletes(t)
  PROVE  RInv'
<1>0. /\ UNCHANGED <<box, paused, top, todo, where, stop, listed, queueVars, stopVars,
                     cur, mode, back>>
      /\ pc \in {"drain", "host"} /\ pc' \in {"drain", "top"} /\ where[t] = "saved"
      /\ state[top[t]] = "waiting" /\ top[t] \in Machines /\ t \in Machines
      /\ state \in [Machines -> {"ready", "blocked", "waiting", "done", "faulted"}]
      /\ \E s \in {"ready", "faulted"} : state' = [state EXCEPT ![top[t]] = s]
      /\ \A m \in Machines : <<"removed", m>> \in events' => <<"removed", m>> \in events
      /\ idx' = [idx EXCEPT ![t] = Refreshed(t)]
  <2>1. \A m \in Machines : <<"removed", m>> \in events' => <<"removed", m>> \in events
    BY DEF HostCompletes, InstallsCompletion
  <2> QED BY <2>1, OperationTypes, Zenon
          DEF HostCompletes, InstallsCompletion, Goto, Answers, GInv, Guests, WorldTypeOK
<1>1. t \notin Range(reports) /\ reports' = reports
  BY <1>0, Zenon DEF GInv, Placed, Active, queueVars
<1>2. StackShape' /\ StopShape' /\ Executing'
  <2>1. top[t] = t \/ (state[t] = "ready" /\ where[t] = "saved")
    BY <1>0, Zenon DEF RInv, StackShape
  <2>2. top[t] # t => state'[t] = state[t] /\ where'[t] # "none"
    BY <1>0, <2>1
  <2>3. \A m \in Machines : m \notin {t, top[t]} => state'[m] = state[m]
    BY <1>0, Zenon
  <2>4. stop'[t] \in {Fresh, Spent}
    BY <1>0, Zenon DEF RInv, StopShape
  <2> QED BY <1>0, <1>1, <2>2, <2>3, <2>4, ShapesKept, Zenon
<1>3. PlainWorld'
  <2>1. \A m \in Machines : \A i \in DOMAIN todo'[m] : Plain(m, todo'[m][i])
    BY <1>0, Zenon DEF RInv, PlainWorld
  <2> QED BY <1>0, <2>1, Zenon DEF RInv, PlainWorld, stopVars, Plain, Allowed
<1>4. \A m \in Machines : Terminal(m) => Terminal(m)'
  BY <1>0, Zenon DEF Terminal
<1>5. Indexes'
  <2>1. ASSUME NEW u \in Tasks, idx'[u] = "none"
        PROVE  Terminal(u)' \/ where'[u] \notin {"none", "saved"}
    <3>1. CASE u = t
      BY <1>0, <2>1, <3>1, Zenon DEF Refreshed, Terminal, GInv, IndexTypes
    <3>2. CASE u # t
      <4>1. idx[u] = "none" /\ u \in Machines
        BY <1>0, <2>1, <3>2, OperationTypes, Zenon DEF GInv, IndexTypes
      <4> QED BY <1>0, <1>4, <4>1, Zenon DEF RInv, Indexes
    <3> QED BY <3>1, <3>2, Zenon
  <2> QED BY <1>0, <2>1, Zenon DEF Indexes
<1>6. Root \in Machines
  BY OperationTypes, Zenon
<1>7. Loop'
  BY <1>0, <1>4, <1>6, Zenon DEF RInv, Loop, InDispatch, Settling, stopVars, CommitsAccepted
<1> QED BY <1>2, <1>3, <1>5, <1>7, Zenon DEF RInv

LEMMA DrainPlain ==
  ASSUME GInv, RInv, drain_worker_reports
  PROVE  RInv'
<1>0. /\ UNCHANGED <<worldVars, stop, indexVars, continuations, stopVars, cur, mode, back>>
      /\ pc = "drain" /\ pc' \in {"drain", "commit"}
  BY Zenon DEF drain_worker_reports, Goto, loopVars
<1>1. PlainWorld'
  BY <1>0, PlainKept, Zenon DEF RInv, worldVars, indexVars, stopVars
<1>2. Loop'
  BY <1>0, Zenon DEF RInv, Loop, InDispatch, Settling, Terminal, worldVars, stopVars, CommitsAccepted
<1>3. CASE reports = <<>>
  <2>1. UNCHANGED <<where, reports>>
    BY <1>3, Zenon DEF drain_worker_reports
  <2>2. StackShape' /\ StopShape' /\ Executing'
    BY <1>0, <2>1, ShapesFrame, Zenon
  <2>3. Indexes'
    BY <1>0, <2>1, Zenon DEF RInv, Indexes, Terminal, worldVars, indexVars
  <2> QED BY <1>1, <1>2, <2>2, <2>3, Zenon DEF RInv
<1>4. CASE reports # <<>>
  <2>1. Queue(reports, Range(reports)) /\ Range(reports) \subseteq Active
    BY Zenon DEF GInv, Placed
  <2>2. PICK t \in Tasks : t = Head(reports) /\ where[t] = "out" /\ t \in Range(reports)
    BY <1>4, <2>1, QueueAdvances, Zenon DEF Active
  <2>3. Range(reports') = Range(reports) \ {t}
    <3>1. reports' = Tail(reports)
      BY <1>4, Zenon DEF drain_worker_reports
    <3> QED BY <1>4, <2>1, <2>2, <3>1, QueueAdvances, Zenon DEF Queue
  <2>4. where' = [where EXCEPT ![t] = "returned"] /\ where \in [Tasks -> Places]
    BY <1>4, <2>2, Zenon DEF drain_worker_reports, GInv, Placed
  <2>5. StackShape'
    BY <1>0, <2>4, ZenonT(30) DEF RInv, StackShape, worldVars
  <2>6. StopShape'
    BY <1>0, <2>2, <2>3, <2>4, SMTT(30) DEF RInv, StopShape, worldVars, Plain, Allowed
  <2>7. Executing'
    BY <1>0, <2>2, <2>4, Zenon DEF RInv, Executing, worldVars
  <2>8. Indexes'
    BY <1>0, <2>4, Zenon DEF RInv, Indexes, Terminal, worldVars, indexVars
  <2> QED BY <1>1, <1>2, <2>5, <2>6, <2>7, <2>8, Zenon DEF RInv
<1> QED BY <1>3, <1>4, Zenon

(* The report of t commits: its operation takes effect, and t is retained.  *)
Commits(t) ==
    /\ IF Quiet(t) THEN UNCHANGED <<worldVars, events>>
       ELSE Operates(t, stop[t]) /\ UNCHANGED todo
    /\ where' = [where EXCEPT ![t] = "cont"]
    /\ stop' = [stop EXCEPT ![t] = IF @ = Recalled THEN Spent ELSE Fresh]
    /\ UNCHANGED <<idx, reports, root_terminal, pc, cur, mode, back>>

LEMMA CommitsPlain ==
  ASSUME GInv, RInv, NEW t \in Tasks, where[t] = "returned", Commits(t), scoped_stops' = {},
         pc \in {"commit", "settle"}
  PROVE  RInv'
<1>0. /\ where \in [Tasks -> Places]
      /\ stop \in [Tasks -> Request \cup {Fresh, Spent, Recalled}]
      /\ UNCHANGED <<idx, reports, root_terminal, pc, cur, mode, back>>
      /\ where'[t] = "cont" /\ stop'[t] \in {Fresh, Spent}
      /\ \A u \in Tasks : u # t => stop'[u] = stop[u] /\ where'[u] = where[u]
      /\ todo' = todo
  BY Zenon DEF GInv, Placed, Guests, Commits, worldVars
<1>1. t \notin Range(reports)
  BY Zenon DEF GInv, Placed, Active
<1>2. /\ paused' = {}
      /\ \A m \in Machines : <<"removed", m>> \notin events'
      /\ \A m \in Machines : m # top[t] => state'[m] = state[m]
      /\ \A m \in Machines : Terminal(m) => Terminal(m)'
      /\ \A u \in Tasks : u # t => top'[u] = top[u]
      /\ \/ top'[t] = top[t]
         \/ /\ top[t] = t /\ top'[t] \in Held /\ Holder[top'[t]] = t
            /\ state'[t] = "ready"
  <2>1. CASE Quiet(t)
    BY <2>1, Zenon DEF Commits, RInv, PlainWorld, worldVars, Terminal
  <2>2. CASE ~Quiet(t)
    <3>1. Operates(t, stop[t])
      BY <2>2, Zenon DEF Commits
    <3>2. state[top[t]] = "ready"
      BY Zenon DEF RInv, Executing
    <3>3. /\ stop[t] \in Operation /\ stop[t].op \notin {"pause", "resume"}
          /\ stop[t].op = "run" => stop[t].to \in Held /\ Holder[stop[t].to] = top[t]
      <4>1. \/ stop[t] = Req("end", Root)
            \/ stop[t] \in Request /\ Plain(top[t], stop[t])
        BY <2>2, Zenon DEF RInv, StopShape, Quiet
      <4> QED BY <1>0, <4>1, OperationTypes DEF Plain, Allowed, Req
    <3> QED BY <3>1, <3>2, <3>3, PlainOperates, Zenon DEF RInv
  <2> QED BY <2>1, <2>2, Zenon
<1>3. StackShape' /\ StopShape' /\ Executing'
  <2>1. top[t] # t => state'[t] = state[t]
    BY <1>2, OperationTypes, Zenon
  <2>2. \A m \in Machines : m \notin {t, top[t]} => state'[m] = state[m]
    BY <1>2, Zenon
  <2> QED BY <1>0, <1>1, <1>2, <2>1, <2>2, ShapesKept, Zenon
<1>4. PlainWorld'
  <2>1. paused' = paused /\ scoped_stops' = scoped_stops
    BY <1>0, <1>2, Zenon DEF RInv, PlainWorld
  <2> QED BY <1>0, <1>2, <2>1, PlainKept, Zenon DEF RInv
<1>5. Indexes'
  <2>1. where'[t] \in Places \ {"none", "saved"}
    BY <1>0, Zenon DEF Places
  <2> QED BY <1>0, <1>2, <2>1, IndexesKept, Zenon DEF RInv
<1>6. Root \in Machines
  BY OperationTypes, Zenon
<1>7. Loop'
  BY <1>0, <1>2, <1>6, Zenon DEF RInv, Loop, InDispatch, Settling, CommitsAccepted
<1> QED BY <1>3, <1>4, <1>5, <1>7, Zenon DEF RInv

(* No commit is refused: the front report commits only when nothing it      *)
(* needs is away, and the others only when they need nothing.               *)
LEMMA ReportsAccepted ==
  ASSUME GInv, RInv, CommitReport
  PROVE  /\ pc = "commit" /\ scoped_stops' = {}
         /\ \E i \in DOMAIN returned :
              /\ returned' = Without(returned, i)
              /\ returned[i] \in Tasks /\ where[returned[i]] = "returned"
              /\ Commits(returned[i])
              /\ i = 1 => ~NotReady(Oldest)
              /\ i # 1 => Quiet(returned[i])
<1>1. returned # <<>>
  BY Zenon DEF CommitReport
<1>2. PICK i \in Candidates :
        /\ returned' = Without(returned, i)
        /\ scoped_stops' = IF i = 1 THEN {} ELSE ScopedStops
        /\ commit_parallel_report(returned[i])
  BY Zenon DEF CommitReport
<1>3. Candidates = IF ~NotReady(Oldest) THEN {1}
                   ELSE {j \in 2..Len(returned) : Quiet(returned[j])}
  BY <1>1, CommitShape, Zenon
<1>4. i \in DOMAIN returned /\ returned \in Seq(Tasks) /\ Oldest = returned[1]
  BY <1>1, <1>2, <1>3 DEF GInv, Placed, Oldest
<1>5. pc = "commit"
  <2>1. ~Stalled
    BY <1>1, <1>2, <1>3, Zenon DEF Stalled
  <2> QED BY <2>1, Zenon DEF CommitReport, RInv, Loop, InDispatch
<1>6. scoped_stops' = {}
  BY <1>1, <1>2, CommitShape, Zenon
<1>7. /\ i = 1 => ~NotReady(Oldest)
      /\ i # 1 => Quiet(returned[i])
  BY <1>2, <1>3
<1>8. ~Refused(returned[i])
  <2>1. CASE i = 1
    <3>1. OldestReady /\ OldestNeeds = parallel_requirement(returned[i])
      BY <1>1, <1>4, <1>7, <2>1, OldestShape, Zenon DEF OldestNeeds
    <3> QED BY <3>1 DEF OldestReady, Refused, Ready, Collection, IsNeed
  <2>2. CASE i # 1
    <3>1. parallel_requirement(returned[i]) = Ready
      BY <1>7, <2>2 DEF Quiet, parallel_requirement, Recalled, Req
    <3> QED BY <3>1, SMTT(30) DEF Refused, Ready, Collection, IsNeed
  <2> QED BY <2>1, <2>2, Zenon
<1>9. Commits(returned[i])
  BY <1>2, <1>8, Zenon DEF Commits, commit_parallel_report, CommitReport, loopVars
<1>10. returned[i] \in Tasks /\ where[returned[i]] = "returned"
  BY <1>4, ReturnedPlace, Zenon DEF RInv, Loop
<1> QED BY <1>2, <1>4, <1>5, <1>6, <1>7, <1>9, <1>10, Zenon

LEMMA CommitReportPlain ==
  ASSUME GInv, RInv, CommitReport
  PROVE  RInv'
<1>1. PICK t \in Tasks : where[t] = "returned" /\ Commits(t)
  BY ReportsAccepted, Zenon
<1> QED BY <1>1, CommitsPlain, ReportsAccepted, Zenon

LEMMA SettleCommitsPlain ==
  ASSUME GInv, RInv, SettleCommits
  PROVE  RInv'
<1>1. PICK t \in Tasks : t = Oldest /\ where[t] = "returned"
  BY ReturnedPlace, Zenon DEF SettleCommits, RInv, Loop
<1>2. ~Refused(t)
  <2>1. parallel_requirement(t) = Ready
    BY <1>1 DEF SettleCommits, Quiet, parallel_requirement, Recalled, Req
  <2> QED BY <2>1, SMTT(30) DEF Refused, Ready, Collection, IsNeed
<1>3. Commits(t)
  BY <1>1, <1>2, Zenon DEF Commits, SettleCommits, commit_parallel_report, loopVars, stopVars
<1>4. scoped_stops' = {}
  BY Zenon DEF SettleCommits, stopVars, RInv, PlainWorld
<1> QED BY <1>1, <1>3, <1>4, CommitsPlain, Zenon DEF SettleCommits

---------------------------------------------------------------------------
(* The stack that is being advanced. *)

LEMMA CurShape ==
  ASSUME GInv, RInv, pc \in {"advance", "inline"}
  PROVE  /\ cur \in Tasks /\ where[cur] = "cur" /\ Top \in Machines
         /\ stop[cur] \in {Fresh, Spent} /\ cur \notin Range(reports)
         /\ where \in [Tasks -> Places]
         /\ stop \in [Tasks -> Request \cup {Fresh, Spent, Recalled}]
<1>1. cur \in Tasks /\ where[cur] = "cur" /\ where \in [Tasks -> Places]
  BY Zenon DEF GInv, Placed, CurPlace
<1>2. Top \in Machines /\ stop \in [Tasks -> Request \cup {Fresh, Spent, Recalled}]
  BY <1>1, Zenon DEF GInv, Guests, WorldTypeOK, Top
<1> QED BY <1>1, <1>2, Zenon DEF RInv, StopShape, GInv, Placed, Active

(* An operation of the stack that is being advanced. *)
LEMMA AdvanceOperatesPlain ==
  ASSUME GInv, RInv, AdvanceCompletes \/ InlinePerforms
  PROVE  RInv'
<1>0. /\ pc \in {"advance", "inline"} /\ pc' = "advance"
      /\ UNCHANGED <<where, stop, idx, reports, returned, scoped_stops, root_terminal, cur, mode, back>>
  BY Zenon DEF AdvanceCompletes, Advancing, InlinePerforms, Goto, queueVars, stopVars, loopVars
<1>1. /\ cur \in Tasks /\ where[cur] = "cur" /\ Top \in Machines
      /\ stop[cur] \in {Fresh, Spent} /\ cur \notin Range(reports)
      /\ where \in [Tasks -> Places]
  BY <1>0, CurShape, Zenon
<1>2. /\ \A n \in Machines : n # Top => todo'[n] = todo[n]
      /\ \A n \in Machines : \A i \in DOMAIN todo'[n] : Plain(n, todo'[n][i])
  BY <1>1, AskPlain, Zenon DEF AdvanceCompletes, InlinePerforms, RInv, PlainWorld
<1>3. PICK r \in Operation :
        /\ Operates(cur, r) /\ r.op \notin {"pause", "resume"}
        /\ r.op = "run" => r.to \in Held /\ Holder[r.to] = Top /\ state[Top] = "ready"
        /\ state[Top] \in {"ready", "blocked"}
  <2>1. CASE AdvanceCompletes
    <3>1. request[Top] \in [op : {"none", "send", "recv", "done"}, to : Machines]
      BY <1>1, Zenon DEF GInv, Guests, WorldTypeOK
    <3> QED BY <2>1, <3>1, OperationTypes, Zenon DEF AdvanceCompletes
  <2>2. CASE InlinePerforms
    <3>1. state[Top] = "ready"
      BY <2>2, Zenon DEF InlinePerforms, RInv, Executing, Top
    <3>2. /\ Ask(Top) \in Operation /\ Ask(Top).op \notin {"pause", "resume"}
          /\ Ask(Top).op = "run" => Ask(Top).to \in Held /\ Holder[Ask(Top).to] = Top
      <4>1. Ask(Top) \in Operation
        BY <1>1, AskTypes, OperationTypes, Zenon
      <4>2. Ask(Top) = Req("end", Root) \/ Plain(Top, Ask(Top))
        BY <1>1, <2>2, AskPlain, Zenon DEF InlinePerforms, RInv
      <4> QED BY <4>1, <4>2 DEF Plain, Allowed, Req
    <3> QED BY <2>2, <3>1, <3>2, Zenon DEF InlinePerforms
  <2> QED BY <2>1, <2>2, Zenon
<1>4. /\ paused' = {}
      /\ \A m \in Machines : <<"removed", m>> \notin events'
      /\ \A m \in Machines : m # Top => state'[m] = state[m]
      /\ \A m \in Machines : Terminal(m) => Terminal(m)'
      /\ \A u \in Tasks : u # cur => top'[u] = top[u]
      /\ \/ top'[cur] = Top
         \/ /\ Top = cur /\ top'[cur] \in Held /\ Holder[top'[cur]] = cur
            /\ state'[cur] = "ready"
  BY <1>1, <1>3, PlainOperates, Zenon DEF RInv, Top
<1>5. StackShape' /\ StopShape' /\ Executing'
  <2>1. Top # cur => state'[cur] = state[cur]
    BY <1>1, <1>4, OperationTypes, Zenon
  <2>2. \A m \in Machines : m \notin {cur, Top} => state'[m] = state[m]
    BY <1>4, Zenon
  <2> QED BY <1>0, <1>1, <1>2, <1>4, <2>1, <2>2, ShapesKept, Zenon DEF Top
<1>6. PlainWorld'
  BY <1>0, <1>2, <1>4, Zenon DEF RInv, PlainWorld
<1>7. Indexes'
  BY <1>0, <1>1, <1>4, IndexesKept, Zenon DEF RInv
<1>8. Stalled => Stalled'
  BY <1>0, <1>1, <1>4, StalledStays, Zenon DEF RInv, Loop
<1>9. Loop'
  <2>1. InDispatch' => InDispatch
    BY <1>0, Zenon DEF InDispatch
  <2>2. Settling' => root_terminal
    BY <1>0, Zenon DEF Settling, RInv, Loop
  <2>3. Root \in Machines
    BY OperationTypes, Zenon
  <2> QED BY <1>0, <1>4, <1>8, <2>1, <2>2, <2>3, Zenon DEF RInv, Loop, CommitsAccepted
<1> QED BY <1>5, <1>6, <1>7, <1>9, Zenon DEF RInv

LEMMA AnswersPlain ==
  ASSUME GInv, RInv, AdvanceAnswers
  PROVE  RInv'
<1>0. /\ pc = "advance" /\ pc' = "advance"
      /\ UNCHANGED <<state, paused, todo, where, stop, idx, reports, returned, scoped_stops,
                     root_terminal, cur, mode, back>>
      /\ top' = [top EXCEPT ![cur] = cur]
      /\ events' = events \cup {<<"send", Top>>, <<"done", Top>>}
  BY Zenon DEF AdvanceAnswers, Advancing, queueVars, stopVars, loopVars
<1>1. /\ cur \in Tasks /\ where[cur] = "cur"
      /\ stop[cur] \in {Fresh, Spent} /\ cur \notin Range(reports)
      /\ where \in [Tasks -> Places] /\ top \in [Tasks -> Machines]
  BY <1>0, CurShape, Zenon DEF GInv, Guests, WorldTypeOK
<1>2. top'[cur] = cur /\ \A u \in Tasks : u # cur => top'[u] = top[u]
  BY <1>0, <1>1, Zenon
<1>3. StackShape' /\ StopShape' /\ Executing'
  BY <1>0, <1>1, <1>2, ShapesKept, Zenon
<1>4. PlainWorld'
  BY <1>0, PlainKept, Zenon DEF RInv
<1>5. \A m \in Machines : Terminal(m) => Terminal(m)'
  BY <1>0, Zenon DEF Terminal
<1>6. Indexes'
  BY <1>0, <1>1, <1>5, IndexesKept, Zenon DEF RInv
<1>7. Stalled => Stalled'
  BY <1>0, <1>1, <1>2, StalledStays, Zenon DEF RInv, Loop
<1>8. Loop'
  BY <1>0, <1>7, Zenon DEF RInv, Loop, InDispatch, Settling, Terminal, CommitsAccepted
<1> QED BY <1>3, <1>4, <1>6, <1>8, Zenon DEF RInv

LEMMA YieldsPlain ==
  ASSUME GInv, RInv, InlineYields
  PROVE  RInv'
<1>0. /\ pc = "inline" /\ pc' = "advance"
      /\ UNCHANGED <<worldVars, where, idx, events, reports, returned, scoped_stops,
                     root_terminal, cur, mode, back>>
      /\ stop' = [stop EXCEPT ![cur] = Spent]
  BY Zenon DEF InlineYields, Goto, queueVars, stopVars, indexVars
<1>1. /\ cur \in Tasks /\ where[cur] = "cur" /\ cur \notin Range(reports)
      /\ where \in [Tasks -> Places]
      /\ stop'[cur] = Spent /\ \A u \in Tasks : u # cur => stop'[u] = stop[u]
  BY <1>0, CurShape, Zenon
<1>2. StackShape' /\ StopShape' /\ Executing'
  BY <1>0, <1>1, ShapesKept, Zenon DEF worldVars
<1>3. PlainWorld'
  BY <1>0, PlainKept, Zenon DEF RInv, worldVars
<1>4. \A m \in Machines : Terminal(m) => Terminal(m)'
  BY <1>0, Zenon DEF Terminal, worldVars
<1>5. Indexes'
  BY <1>0, <1>1, <1>4, IndexesKept, Zenon DEF RInv
<1>6. Stalled => Stalled'
  BY <1>0, <1>1, StalledStays, Zenon DEF RInv, Loop, worldVars
<1>7. Loop'
  BY <1>0, <1>6, Zenon DEF RInv, Loop, InDispatch, Settling, Terminal, CommitsAccepted, worldVars
<1> QED BY <1>2, <1>3, <1>5, <1>7, Zenon DEF RInv

LEMMA RestsPlain ==
  ASSUME GInv, RInv, AdvanceBlocks \/ AdvanceWaits \/ AdvanceEnds \/ AdvanceYields
  PROVE  RInv'
<1>0. /\ pc = "advance" /\ pc' = "finish"
      /\ UNCHANGED <<worldVars, stop, idx, events, reports, returned, scoped_stops,
                     root_terminal, cur, mode, back>>
  BY Zenon DEF AdvanceBlocks, AdvanceWaits, AdvanceEnds, AdvanceYields, Rests, Advancing, queueVars, stopVars,
     indexVars
<1>1. /\ cur \in Tasks /\ where[cur] = "cur" /\ cur \notin Range(reports)
      /\ where \in [Tasks -> Places] /\ stop[cur] \in {Fresh, Spent}
  BY <1>0, CurShape, Zenon
<1>2. \E p \in {"none", "saved"} : /\ where' = [where EXCEPT ![cur] = p]
                                   /\ top[cur] # cur => p # "none"
  BY Zenon DEF AdvanceBlocks, AdvanceWaits, AdvanceEnds, AdvanceYields, Rests, Leaves, Top
<1>3. /\ \A u \in Tasks : u # cur => where'[u] = where[u]
      /\ top[cur] # cur => where'[cur] # "none"
      /\ where'[cur] \notin {"out", "returned"}
  BY <1>1, <1>2, Zenon
<1>4. StackShape' /\ StopShape' /\ Executing'
  BY <1>0, <1>1, <1>3, ShapesKept, Zenon DEF worldVars
<1>5. PlainWorld'
  BY <1>0, PlainKept, Zenon DEF RInv, worldVars
<1>6. \A m \in Machines : Terminal(m) => Terminal(m)'
  BY <1>0, Zenon DEF Terminal, worldVars
<1>7. Indexes'
  BY <1>0, <1>1, <1>3, <1>6, IndexesKept, Zenon DEF RInv
<1>8. Stalled => Stalled'
  BY <1>0, <1>1, <1>3, StalledStays, Zenon DEF RInv, Loop, worldVars
<1>9. Loop'
  BY <1>0, <1>8, Zenon DEF RInv, Loop, InDispatch, Settling, Terminal, CommitsAccepted, worldVars
<1> QED BY <1>4, <1>5, <1>7, <1>9, Zenon DEF RInv

LEMMA ExecutesPlain ==
  ASSUME GInv, RInv, AdvanceExecutes
  PROVE  RInv'
<1>0. /\ pc = "advance" /\ state[Top] = "ready" /\ stop[cur] # Spent /\ mode # "park"
      /\ UNCHANGED <<worldVars, stop, idx, events, reports, returned, scoped_stops, root_terminal>>
  BY Zenon DEF AdvanceExecutes, Advancing, queueVars, stopVars, indexVars
<1>1. /\ cur \in Tasks /\ where[cur] = "cur" /\ cur \notin Range(reports)
      /\ where \in [Tasks -> Places] /\ stop[cur] = Fresh
  BY <1>0, CurShape, Zenon
<1>2. PlainWorld'
  BY <1>0, PlainKept, Zenon DEF RInv, worldVars
<1>3. \A m \in Machines : Terminal(m) => Terminal(m)'
  BY <1>0, Zenon DEF Terminal, worldVars
<1>4. CASE mode = "inline"
  <2>1. pc' = "inline" /\ UNCHANGED <<where, cur, mode, back>>
    BY <1>4, Zenon DEF AdvanceExecutes, Goto
  <2>2. StackShape' /\ StopShape' /\ Executing'
    BY <1>0, <2>1, ShapesFrame, Zenon DEF Top
  <2>3. Indexes'
    BY <1>0, <1>1, <1>3, <2>1, IndexesKept, Zenon DEF RInv
  <2>4. Stalled => Stalled'
    BY <1>0, <2>1, StalledFrame, Zenon DEF worldVars
  <2>5. Loop'
    BY <1>0, <2>1, <2>4, Zenon DEF RInv, Loop, InDispatch, Settling, Terminal, CommitsAccepted, worldVars
  <2> QED BY <1>2, <2>2, <2>3, <2>5, Zenon DEF RInv
<1>5. CASE mode # "inline"
  <2>1. /\ pc' = "dispatch" /\ mode' = "none" /\ back' = "top"
        /\ where' = [where EXCEPT ![cur] = "out"]
    BY <1>5, Zenon DEF AdvanceExecutes, Release
  <2>2. where'[cur] = "out" /\ \A u \in Tasks : u # cur => where'[u] = where[u]
    BY <1>1, <2>1, Zenon
  <2>3. StackShape' /\ StopShape' /\ Executing'
    <3>1. state'[top'[cur]] = "ready" /\ stop'[cur] = Fresh /\ cur \notin Range(reports')
      BY <1>0, <1>1, Zenon DEF Top, worldVars
    <3> QED BY <1>0, <1>1, <2>1, <2>2, <3>1, ShapesKept, Zenon DEF worldVars
  <2>4. Indexes'
    <3>1. where'[cur] \in Places \ {"none", "saved"}
      BY <2>2, Zenon DEF Places
    <3> QED BY <1>0, <1>1, <1>3, <2>1, <2>2, <3>1, IndexesKept, Zenon DEF RInv
  <2>5. InDispatch
    BY <1>0, <1>5, Zenon DEF RInv, Loop, InDispatch
  <2>6. Stalled'
    BY <1>0, <1>1, <2>2, <2>5, StalledStays, Zenon DEF RInv, Loop, worldVars
  <2>7. Loop'
    BY <1>0, <2>1, <2>6, Zenon DEF RInv, Loop, InDispatch, Settling, Terminal, CommitsAccepted, worldVars
  <2> QED BY <1>2, <2>3, <2>4, <2>7, Zenon DEF RInv
<1> QED BY <1>4, <1>5, Zenon

---------------------------------------------------------------------------
(* The loop takes up a stack. *)

LEMMA TakesUpPlain ==
  ASSUME GInv, RInv, Continues \/ SettleParks
  PROVE  RInv'
<1>0. /\ UNCHANGED <<worldVars, stop, idx, events, reports, returned, scoped_stops, root_terminal>>
      /\ continuations # <<>> /\ pc \in {"decide", "dispatch", "settle"} /\ pc' = "advance"
      /\ \/ mode' \in {"inline", "dispatch"} /\ back' = (IF mode' = "inline" THEN "top" ELSE "dispatch")
            /\ (mode' = "dispatch" => pc = "dispatch")
         \/ mode' = "park" /\ back' = "settle" /\ pc = "settle"
  BY Zenon DEF Continues, SettleParks, Takes, TurnMode, indexVars, stopVars
<1>1. PICK t \in Tasks : t = Head(continuations) /\ where[t] = "cont"
  <2>1. Queue(continuations, At("cont"))
    BY Zenon DEF GInv, Placed
  <2>2. Head(continuations) \in At("cont") \cap Tasks
    BY <1>0, <2>1, QueueAdvances, Zenon
  <2> QED BY <2>2, Zenon DEF At
<1>2. where' = [where EXCEPT ![t] = "cur"] /\ where \in [Tasks -> Places]
  BY <1>1, Zenon DEF Continues, SettleParks, Takes, GInv, Placed
<1>3. /\ where'[t] = "cur" /\ \A u \in Tasks : u # t => where'[u] = where[u]
      /\ stop[t] \in {Fresh, Spent} /\ t \notin Range(reports)
  BY <1>1, <1>2, Zenon DEF RInv, StopShape, GInv, Placed, Active
<1>4. StackShape' /\ StopShape' /\ Executing'
  BY <1>0, <1>3, ShapesKept, Zenon DEF worldVars
<1>5. PlainWorld'
  BY <1>0, PlainKept, Zenon DEF RInv, worldVars
<1>6. \A m \in Machines : Terminal(m) => Terminal(m)'
  BY <1>0, Zenon DEF Terminal, worldVars
<1>7. Indexes'
  <2>1. where'[t] \in Places \ {"none", "saved"}
    BY <1>3, Zenon DEF Places
  <2> QED BY <1>0, <1>3, <1>6, <2>1, IndexesKept, Zenon DEF RInv
<1>8. Stalled => Stalled'
  BY <1>0, <1>1, <1>3, StalledStays, Zenon DEF RInv, Loop, worldVars
<1>9. InDispatch' => InDispatch
  BY <1>0, Zenon DEF InDispatch
<1>10. Settling' => Settling
  BY <1>0, Zenon DEF Settling
<1>11. Loop'
  BY <1>0, <1>8, <1>9, <1>10, Zenon DEF RInv, Loop, Terminal, CommitsAccepted, worldVars
<1> QED BY <1>4, <1>5, <1>7, <1>11, Zenon DEF RInv

LEMMA BeginsPlain ==
  ASSUME GInv, RInv, NEW t \in Tasks, Begins(t)
  PROVE  RInv'
<1>0. /\ UNCHANGED <<todo, reports, returned, scoped_stops, root_terminal>>
      /\ pc \in {"decide", "dispatch"} /\ pc' = "advance"
      /\ mode' \in {"inline", "dispatch"} /\ back' = (IF mode' = "inline" THEN "top" ELSE "dispatch")
      /\ mode' = "dispatch" => pc = "dispatch"
      /\ where' = [where EXCEPT ![t] = "cur"] /\ where \in [Tasks -> Places]
      /\ stop' = [stop EXCEPT ![t] = Fresh]
      /\ stop \in [Tasks -> Request \cup {Fresh, Spent, Recalled}]
      /\ idx' = [idx EXCEPT ![t] = "running"]
      /\ idx \in [Tasks -> {"none", "queued", "running", "blocked", "waiting"}]
  BY Zenon DEF Begins, Takes, TurnMode, queueVars, stopVars, worldVars, GInv, Placed, Guests, IndexTypes
<1>1. where[t] \in {"none", "saved"}
  BY ReadyTask, Zenon DEF Begins
<1>2. /\ where'[t] = "cur" /\ \A u \in Tasks : u # t => where'[u] = where[u]
      /\ stop'[t] = Fresh /\ \A u \in Tasks : u # t => stop'[u] = stop[u]
      /\ t \notin Range(reports)
  BY <1>0, <1>1, Zenon DEF GInv, Placed, Active
<1>3. /\ paused' = {}
      /\ \A m \in Machines : <<"removed", m>> \notin events'
      /\ \A m \in Machines : m # top[t] => state'[m] = state[m]
      /\ \A m \in Machines : Terminal(m) => Terminal(m)'
      /\ \A u \in Tasks : u # t => top'[u] = top[u]
      /\ \/ top'[t] = top[t]
         \/ /\ top[t] = t /\ top'[t] \in Held /\ Holder[top'[t]] = t
            /\ state'[t] = "ready"
  <2>1. CASE state[t] = "blocked" /\ where[t] = "none"
    <3>1. Operates(t, request[t])
      BY <2>1, Zenon DEF Begins
    <3>2. top[t] = t
      BY <2>1, Zenon DEF RInv, StackShape
    <3>3. request[t] \in [op : {"none", "send", "recv", "done"}, to : Machines]
      BY OperationTypes, Zenon DEF GInv, Guests, WorldTypeOK
    <3>4. request[t] \in Operation /\ request[t].op \notin {"pause", "resume", "run"}
      BY <3>3, OperationTypes, Zenon
    <3> QED BY <2>1, <3>1, <3>2, <3>4, PlainOperates, Zenon DEF RInv
  <2>2. CASE ~(state[t] = "blocked" /\ where[t] = "none")
    <3>1. UNCHANGED <<worldVars, events>>
      BY <2>2, Zenon DEF Begins
    <3> QED BY <3>1, Zenon DEF RInv, PlainWorld, worldVars, Terminal
  <2> QED BY <2>1, <2>2, Zenon
<1>4. StackShape' /\ StopShape' /\ Executing'
  <2>1. top[t] # t => state'[t] = state[t]
    BY <1>3, OperationTypes, Zenon
  <2>2. \A m \in Machines : m \notin {t, top[t]} => state'[m] = state[m]
    BY <1>3, Zenon
  <2> QED BY <1>0, <1>2, <1>3, <2>1, <2>2, ShapesKept, ZenonT(30)
<1>5. PlainWorld'
  <2>1. paused' = paused /\ scoped_stops' = scoped_stops
    BY <1>0, <1>3, Zenon DEF RInv, PlainWorld
  <2> QED BY <1>0, <1>3, <2>1, PlainKept, Zenon DEF RInv
<1>6. Indexes'
  <2>1. ASSUME NEW u \in Tasks, idx'[u] = "none"
        PROVE  Terminal(u)' \/ where'[u] \notin {"none", "saved"}
    <3>1. u # t /\ idx[u] = "none" /\ u \in Machines
      BY <1>0, <2>1, OperationTypes, Zenon
    <3> QED BY <1>0, <1>2, <1>3, <3>1, Zenon DEF RInv, Indexes
  <2> QED BY <1>0, <2>1, Zenon DEF Indexes
<1>7. Stalled => Stalled'
  BY <1>0, <1>1, <1>2, <1>3, StalledStays, Zenon DEF RInv, Loop
<1>8. InDispatch' => InDispatch
  BY <1>0, Zenon DEF InDispatch
<1>9. ~Settling'
  BY <1>0, Zenon DEF Settling
<1>10. Root \in Machines
  BY OperationTypes, Zenon
<1>11. Loop'
  BY <1>0, <1>3, <1>7, <1>8, <1>9, <1>10, Zenon DEF RInv, Loop, CommitsAccepted
<1> QED BY <1>4, <1>5, <1>6, <1>11, Zenon DEF RInv

---------------------------------------------------------------------------
(* The steps that fault machines from outside. *)

(* At rest every stack is released or saved. *)
LEMMA RestShape ==
  ASSUME GInv, RInv, AtRest
  PROVE  /\ returned = <<>>
         /\ \A t \in Tasks : where[t] \in {"none", "saved"}
         /\ \A m \in Machines : ~Away(m)
<1>0. pc = "idle" /\ Active = {} /\ continuations = <<>> /\ Queued = {}
  BY Zenon DEF AtRest, Idle, RInv, Indexes
<1>1. \A m : ~Away(m)
  BY <1>0, Zenon DEF Away
<1>2. returned = <<>>
  BY <1>0, <1>1, Zenon DEF RInv, Loop, InDispatch, Stalled, NotReady, policy_requirement
<1>3. At("returned") = {} /\ At("cont") = {}
  <2>1. Queue(returned, At("returned")) /\ Queue(continuations, At("cont"))
    BY Zenon DEF GInv, Placed, RInv, Loop
  <2>2. Range(<<>>) = {}
    BY DEF Range
  <2> QED BY <1>0, <1>2, <2>1, <2>2, Zenon DEF Queue
<1>4. \A t \in Tasks : where[t] \in {"none", "saved"}
  BY <1>0, <1>3, Zenon DEF At, Active, GInv, Placed, CurPlace, Places
<1> QED BY <1>1, <1>2, <1>4, Zenon

LEMMA FailTasksPlain ==
  ASSUME GInv, RInv, AtRest, NEW S \in SUBSET Tasks, FailTasks(S), UNCHANGED stopVars, Goto("top")
  PROVE  RInv'
<1>0. /\ UNCHANGED <<request, box, paused, top, todo, where, stop, events, reports, returned,
                     scoped_stops, root_terminal, cur, mode, back>>
      /\ pc = "idle" /\ pc' = "top"
      /\ state' = [m \in Machines |-> IF \E t \in S : top[t] = m THEN "faulted" ELSE state[m]]
      /\ idx' = [t \in Tasks |-> IF t \in S THEN Refreshed(t) ELSE idx[t]]
  BY Zenon DEF FailTasks, Goto, queueVars, stopVars, AtRest, Idle
<1>1. \A t \in Tasks : where[t] \in {"none", "saved"}
  BY RestShape, Zenon
<1>2. \A t \in Tasks : t \in Machines /\ top[t] \in Machines
  BY OperationTypes, Zenon DEF GInv, Guests, WorldTypeOK
<1>3. \A m \in Machines : Terminal(m) => Terminal(m)'
  BY <1>0, Zenon DEF Terminal
<1>4. StackShape'
  <2>1. ASSUME NEW t \in Tasks, top[t] # t
        PROVE  state'[t] = state[t]
    <3>1. \A u \in S : top[u] # t
      BY <2>1, TopsApart, Zenon DEF RInv
    <3> QED BY <1>0, <1>2, <3>1, Zenon
  <2> QED BY <1>0, <2>1, Zenon DEF RInv, StackShape
<1>5. StopShape' /\ Executing'
  BY <1>0, <1>1, Zenon DEF RInv, StopShape, Executing, Plain, Allowed
<1>6. PlainWorld'
  BY <1>0, PlainKept, Zenon DEF RInv
<1>7. Indexes'
  <2>1. ASSUME NEW t \in Tasks, idx'[t] = "none"
        PROVE  Terminal(t)'
    <3>1. CASE t \notin S
      <4>1. Terminal(t)
        BY <1>0, <1>1, <2>1, <3>1, Zenon DEF RInv, Indexes
      <4> QED BY <1>2, <1>3, <4>1, Zenon
    <3>2. CASE t \in S
      BY <1>0, <2>1, <3>2, Zenon DEF Refreshed, Terminal
    <3> QED BY <3>1, <3>2, Zenon
  <2> QED BY <1>0, <2>1, Zenon DEF Indexes
<1>8. Loop'
  BY <1>0, <1>2, <1>3, OperationTypes, Zenon DEF RInv, Loop, InDispatch, Settling, CommitsAccepted
<1> QED BY <1>4, <1>5, <1>6, <1>7, <1>8, Zenon DEF RInv

LEMMA FailsWaitingPlain ==
  ASSUME GInv, RInv, FailsWaiting
  PROVE  RInv'
<1>1. Indexed("waiting") \in SUBSET Tasks
  BY Zenon DEF Indexed
<1> QED BY <1>1, FailTasksPlain, Zenon DEF FailsWaiting

LEMMA DeadlockPlain ==
  ASSUME GInv, RInv, DeclaresDeadlock
  PROVE  RInv'
<1>1. CASE \E S \in SUBSET Tasks : FailTasks(S) /\ UNCHANGED stopVars
  BY <1>1, FailTasksPlain, Zenon DEF DeclaresDeadlock
<1>2. CASE /\ task_status(Root) = "terminal" /\ root_terminal' = TRUE
           /\ UNCHANGED <<worldVars, where, stop, indexVars, queueVars, scoped_stops>>
  <2>0. /\ pc = "idle" /\ pc' = "top" /\ UNCHANGED <<cur, mode, back>>
        /\ UNCHANGED <<reports, returned, idx, events>>
    BY <1>2, Zenon DEF DeclaresDeadlock, AtRest, Idle, Goto, queueVars, indexVars
  <2>1. StackShape' /\ StopShape' /\ Executing'
    BY <1>2, <2>0, ShapesFrame, Zenon
  <2>2. PlainWorld'
    BY <1>2, <2>0, PlainKept, Zenon DEF RInv, worldVars
  <2>3. Indexes'
    BY <1>2, <2>0, Zenon DEF RInv, Indexes, Terminal, worldVars
  <2>4. Terminal(Root)
    BY <1>2, Zenon DEF task_status
  <2>5. Loop'
    BY <1>2, <2>0, <2>4, Zenon DEF RInv, Loop, InDispatch, Settling, Terminal, CommitsAccepted, worldVars
  <2> QED BY <2>1, <2>2, <2>3, <2>5, Zenon DEF RInv
<1>3. Indexed("blocked") \in SUBSET Tasks /\ {Root} \in SUBSET Tasks
  BY OperationTypes, Zenon DEF Indexed
<1> QED BY <1>1, <1>2, <1>3, Zenon DEF DeclaresDeadlock

LEMMA SettleDiscardsPlain ==
  ASSUME GInv, RInv, SettleDiscards
  PROVE  RInv'
<1>1. PICK t \in Tasks : t = Oldest /\ where[t] = "returned"
  BY ReturnedPlace, Zenon DEF SettleDiscards, RInv, Loop
<1>2. /\ pc = "settle" /\ pc' = "finish" /\ cur' = t /\ back' = "settle" /\ mode' = mode
      /\ UNCHANGED <<paused, todo, idx, events, reports, scoped_stops, root_terminal>>
      /\ state' = [state EXCEPT ![t] = "faulted"] /\ top' = [top EXCEPT ![t] = t]
      /\ where' = [where EXCEPT ![t] = "none"] /\ stop' = [stop EXCEPT ![t] = Fresh]
  BY <1>1, Zenon DEF SettleDiscards, indexVars, stopVars
<1>3. /\ where \in [Tasks -> Places] /\ top \in [Tasks -> Machines]
      /\ stop \in [Tasks -> Request \cup {Fresh, Spent, Recalled}]
      /\ state \in [Machines -> {"ready", "blocked", "waiting", "done", "faulted"}]
      /\ t \in Machines
  BY OperationTypes, Zenon DEF GInv, Placed, Guests, WorldTypeOK
<1>4. /\ where'[t] = "none" /\ \A u \in Tasks : u # t => where'[u] = where[u]
      /\ stop'[t] = Fresh /\ \A u \in Tasks : u # t => stop'[u] = stop[u]
      /\ top'[t] = t /\ \A u \in Tasks : u # t => top'[u] = top[u]
      /\ \A m \in Machines : m \notin {t, top[t]} => state'[m] = state[m]
      /\ t \notin Range(reports)
  BY <1>1, <1>2, <1>3, Zenon DEF GInv, Placed, Active
<1>5. StackShape' /\ StopShape' /\ Executing'
  BY <1>2, <1>4, ShapesKept, Zenon
<1>6. PlainWorld'
  BY <1>2, PlainKept, Zenon DEF RInv
<1>7. \A m \in Machines : Terminal(m) => Terminal(m)'
  BY <1>2, <1>3, Zenon DEF Terminal
<1>8. Indexes'
  BY <1>2, <1>4, <1>7, IndexesKept, Zenon DEF RInv
<1>9. root_terminal
  BY <1>2, Zenon DEF RInv, Loop, Settling
<1>10. Loop'
  BY <1>2, <1>7, <1>9, OperationTypes, Zenon DEF RInv, Loop, InDispatch, CommitsAccepted
<1> QED BY <1>5, <1>6, <1>8, <1>10, Zenon DEF RInv

---------------------------------------------------------------------------
LEMMA RInvInit ==
  ASSUME Init, NoPauses
  PROVE  RInv
<1>1. PlainWorld
  <2>1. todo \in Programs
    BY Zenon DEF Init, WorldInit
  <2>2. \A m \in Machines : \A i \in DOMAIN todo[m] : Plain(m, todo[m][i])
    BY <2>1, WorldAssumption, Zenon DEF NoPauses, Plain
  <2> QED BY <2>2, Zenon DEF Init, WorldInit, PlainWorld
<1>2. StackShape /\ StopShape /\ Executing /\ Indexes
  BY SMTT(30) DEF Init, WorldInit, StackShape, StopShape, Executing, Indexes, Fresh, Spent, Range
<1>3. Loop
  BY Zenon DEF Init, Loop, InDispatch, Settling, CommitsAccepted
<1> QED BY <1>1, <1>2, <1>3, Zenon DEF RInv

LEMMA RInvNext ==
  ASSUME GInv, RInv, [Next]_vars
  PROVE  RInv'
<1>1. CASE UNCHANGED vars
  <2>1. UNCHANGED <<worldVars, where, stop, idx, events, reports, returned, continuations,
                    scoped_stops, root_terminal, pc, cur, mode, back>>
    BY <1>1, Zenon DEF vars, indexVars, queueVars, stopVars, loopVars
  <2>2. StackShape' /\ StopShape' /\ Executing'
    BY <2>1, ShapesFrame, Zenon DEF RInv, Executing
  <2>3. Stalled => Stalled'
    BY <2>1, StalledFrame, Zenon DEF worldVars
  <2>4. PlainWorld'
    BY <2>1, PlainKept, Zenon DEF RInv, worldVars
  <2>5. Indexes'
    BY <2>1, Zenon DEF RInv, Indexes, Terminal, Queued, worldVars
  <2>6. Loop'
    BY <2>1, <2>3, Zenon DEF RInv, Loop, InDispatch, Settling, Terminal, CommitsAccepted, worldVars
  <2> QED BY <2>2, <2>4, <2>5, <2>6, Zenon DEF RInv
<1>2. CASE Returned
  BY <1>1, <1>2, Zenon DEF Returned
<1>3. ASSUME NEW t \in Tasks, WorkerReports(t) \/ HostCompletes(t)
      PROVE  RInv'
  BY <1>3, WorkerReportsPlain, HostCompletesPlain, Zenon
<1>4. CASE CommitParks
  BY <1>4, CommitShape, Zenon DEF CommitParks
<1>5. ASSUME NEW t \in Tasks, Begins(t) \/ Reindexes(t)
      PROVE  RInv'
  BY <1>5, BeginsPlain, ReindexesPlain, Zenon
<1>6. CASE CoordinatorStep
  BY <1>4, <1>5, <1>6, LoopStartsPlain, DrainPlain, CommitReportPlain, CommitsEndPlain,
     AdvanceOperatesPlain, AnswersPlain, YieldsPlain, RestsPlain, ExecutesPlain, FinishSlicePlain,
     DecisionsPlain, ReindexesPlain, TakesUpPlain, FailsWaitingPlain, DeadlockPlain,
     SettleCommitsPlain, SettleDiscardsPlain, Zenon
     DEF CoordinatorStep
<1> QED BY <1>1, <1>2, <1>3, <1>6, Zenon DEF Next

---------------------------------------------------------------------------
(* The refinement.  Undone is what the serial world has still to do. *)

PendingBy(wh, st, t) == wh[t] \in {"out", "returned"} /\ Counts(st[t])

UndoneBy(tp, wh, st, td) ==
    [m \in Machines |->
       LET U == {t \in Tasks : tp[t] = m /\ wh[t] \in {"out", "returned"} /\ Counts(st[t])}
       IN IF U = {} THEN td[m] ELSE <<st[CHOOSE t \in U : TRUE]>> \o td[m]]

LEMMA UndoneIs ==
  /\ Undone = UndoneBy(top, where, stop, todo)
  /\ Undone' = UndoneBy(top', where', stop', todo')
BY Zenon DEF Undone, Uncommitted, UndoneBy

LEMMA UndoneValue ==
  ASSUME NEW tp, NEW wh, NEW st, NEW td, NEW m \in Machines
  PROVE  /\ (\A t \in Tasks : tp[t] = m => ~PendingBy(wh, st, t)) =>
              UndoneBy(tp, wh, st, td)[m] = td[m]
         /\ \A t \in Tasks :
              /\ tp[t] = m /\ PendingBy(wh, st, t)
              /\ \A u \in Tasks : tp[u] = m /\ PendingBy(wh, st, u) => u = t
              => UndoneBy(tp, wh, st, td)[m] = <<st[t]>> \o td[m]
<1> DEFINE U == {t \in Tasks : tp[t] = m /\ wh[t] \in {"out", "returned"} /\ Counts(st[t])}
<1>1. UndoneBy(tp, wh, st, td)[m] =
        IF U = {} THEN td[m] ELSE <<st[CHOOSE t \in U : TRUE]>> \o td[m]
  BY Zenon DEF UndoneBy
<1>2. ASSUME \A t \in Tasks : tp[t] = m => ~PendingBy(wh, st, t)
      PROVE  U = {}
  BY <1>2, Zenon DEF PendingBy
<1>3. ASSUME NEW t \in Tasks, tp[t] = m, PendingBy(wh, st, t),
             \A u \in Tasks : tp[u] = m /\ PendingBy(wh, st, u) => u = t
      PROVE  U # {} /\ (CHOOSE u \in U : TRUE) = t
  <2>1. U = {t}
    BY <1>3, Zenon DEF PendingBy
  <2>2. (CHOOSE u \in {t} : TRUE) \in {t}
    BY Zenon
  <2> QED BY <2>1, <2>2, Zenon
<1> HIDE DEF U
<1> QED BY <1>1, <1>2, <1>3, Zenon

Pending(t) == where[t] \in {"out", "returned"} /\ Counts(stop[t])

(* The serial program of m, before and after a step. *)
LEMMA UndoneBefore ==
  ASSUME StackShape, NEW m \in Machines
  PROVE  /\ (\A t \in Tasks : top[t] = m => ~Pending(t)) => Undone[m] = todo[m]
         /\ \A t \in Tasks : top[t] = m /\ Pending(t) => Undone[m] = <<stop[t]>> \o todo[m]
<1>1. Undone = UndoneBy(top, where, stop, todo)
  BY UndoneIs, Zenon
<1>2. \A t, u \in Tasks : top[t] = m /\ top[u] = m => t = u
  BY TopsApart, Zenon
<1>3. \A t \in Tasks : PendingBy(where, stop, t) <=> Pending(t)
  BY Zenon DEF PendingBy, Pending
<1> QED BY <1>1, <1>2, <1>3, UndoneValue, SMTT(30)

LEMMA UndoneAfter ==
  ASSUME NEW m \in Machines
  PROVE  /\ (\A t \in Tasks : top'[t] = m => ~Pending(t)') => Undone'[m] = todo'[m]
         /\ \A t \in Tasks :
              /\ top'[t] = m /\ Pending(t)'
              /\ \A u \in Tasks : top'[u] = m /\ Pending(u)' => u = t
              => Undone'[m] = <<stop'[t]>> \o todo'[m]
<1>1. Undone' = UndoneBy(top', where', stop', todo')
  BY UndoneIs, Zenon
<1>3. \A t \in Tasks : PendingBy(where', stop', t) <=> Pending(t)'
  BY Zenon DEF PendingBy, Pending
<1> QED BY <1>1, <1>3, UndoneValue

LEMMA UndoneSame ==
  ASSUME StackShape, NEW m \in Machines, todo'[m] = todo[m],
         \A t \in Tasks : top[t] = m /\ Pending(t) <=> top'[t] = m /\ Pending(t)',
         \A t \in Tasks : top[t] = m /\ Pending(t) => stop'[t] = stop[t]
  PROVE  Undone'[m] = Undone[m]
<1>1. CASE \A t \in Tasks : top[t] = m => ~Pending(t)
  BY <1>1, UndoneBefore, UndoneAfter, Zenon
<1>2. CASE \E t \in Tasks : top[t] = m /\ Pending(t)
  <2>1. PICK t \in Tasks : top[t] = m /\ Pending(t)
    BY <1>2, Zenon
  <2>2. \A u \in Tasks : top'[u] = m /\ Pending(u)' => u = t
    BY <2>1, TopsApart, Zenon
  <2>3. Undone'[m] = <<stop'[t]>> \o todo'[m]
    BY <2>1, <2>2, UndoneAfter, Zenon
  <2> QED BY <2>1, <2>3, UndoneBefore, Zenon
<1> QED BY <1>1, <1>2, Zenon

LEMMA UndoneStays ==
  ASSUME StackShape, todo' = todo,
         \A t \in Tasks : Pending(t) <=> Pending(t)',
         \A t \in Tasks : Pending(t) => top'[t] = top[t] /\ stop'[t] = stop[t]
  PROVE  Undone' = Undone
<1>1. \A m \in Machines : Undone'[m] = Undone[m]
  BY UndoneSame, Zenon
<1>2. Undone = [m \in Machines |-> Undone[m]] /\ Undone' = [m \in Machines |-> Undone'[m]]
  BY DEF Undone
<1> QED BY <1>1, <1>2, Zenon

(* The names of the serial world. *)
LEMMA SerialNames ==
  /\ Serial!Root = Root /\ Serial!Tasks = Tasks /\ Serial!Machines = Machines
  /\ Serial!worldVars = <<state, request, box, paused, top, Undone>>
BY Zenon DEF Serial!Root, Serial!Tasks, Serial!Machines, Serial!worldVars, Root, Tasks, Machines

LEMMA SerialDoes ==
  ASSUME NEW t, NEW m, NEW r, NEW u, Does(t, m, r, u)
  PROVE  Serial!Does(t, m, r, u)
<1>1. Serial!Root = Root
  BY SerialNames, Zenon
<1>2. /\ Serial!Answers(m) <=> Answers(m)
      /\ Serial!Blocks(m, r) <=> Blocks(m, r)
      /\ \A n : Serial!Terminal(n) <=> Terminal(n)
      /\ \A n : Serial!HasRoom(n) <=> HasRoom(n)
  BY <1>1, Zenon DEF Serial!Answers, Serial!Blocks, Serial!Terminal, Serial!HasRoom, Serial!Req,
     Answers, Blocks, Terminal, HasRoom, Req
<1> QED BY <1>2, Zenon DEF Does, proc_send, proc_recv, proc_done, proc_pause, proc_resume, vm_run, collect,
     host_call, ends, Serial!Does, Serial!proc_send, Serial!proc_recv, Serial!proc_done,
     Serial!proc_pause, Serial!proc_resume, Serial!vm_run, Serial!collect, Serial!host_call,
     Serial!ends

SerialStep == [Serial!SerialNext]_(Serial!worldVars)

(* Steps that the guests do not see. *)
LEMMA Unseen ==
  ASSUME RInv, UNCHANGED worldVars,
         \A t \in Tasks : Pending(t) <=> Pending(t)',
         \A t \in Tasks : Pending(t) => stop'[t] = stop[t]
  PROVE  SerialStep
<1>1. Undone' = Undone
  BY UndoneStays, Zenon DEF RInv, worldVars
<1> QED BY <1>1, Zenon DEF SerialStep, worldVars, Serial!worldVars

LEMMA LoopUnseen ==
  ASSUME GInv, RInv,
         \/ LoopStarts \/ finish_slice \/ CommitsEnd \/ RootStops \/ Quiesces \/ Dispatches
         \/ DispatchEnds \/ Parks \/ Unparks \/ WaitsForHost \/ Settled
         \/ (\E t \in Tasks : Reindexes(t)) \/ reconcile_parallel_states
         \/ UNCHANGED vars
  PROVE  SerialStep
<1>1. UNCHANGED <<worldVars, where, stop>>
  BY Zenon DEF LoopStarts, finish_slice, CommitsEnd, RootStops, Quiesces, Dispatches, DispatchEnds, Parks,
     Unparks, WaitsForHost, Settled, Reindexes, reconcile_parallel_states, vars
<1> QED BY <1>1, Unseen, Zenon DEF Pending

LEMMA StacksUnseen ==
  ASSUME GInv, RInv,
         \/ drain_worker_reports \/ AdvanceBlocks \/ AdvanceWaits \/ AdvanceEnds \/ AdvanceYields
         \/ AdvanceExecutes \/ InlineYields \/ Continues \/ SettleParks
  PROVE  SerialStep
<1>0. /\ ~Counts(Fresh) /\ ~Counts(Spent)
      /\ \A t \in Tasks : where[t] \notin {"out", "returned"} => stop[t] \in {Fresh, Spent}
  BY Zenon DEF Counts, Fresh, Spent, Req, RInv, StopShape
<1>1. CASE drain_worker_reports
  <2>1. UNCHANGED <<worldVars, stop>>
    BY <1>1, Zenon DEF drain_worker_reports
  <2>2. CASE reports = <<>>
    BY <1>1, <2>1, <2>2, Unseen, Zenon DEF drain_worker_reports, Pending
  <2>3. CASE reports # <<>>
    <3>1. Queue(reports, Range(reports)) /\ Range(reports) \subseteq Active
      BY Zenon DEF GInv, Placed
    <3>2. PICK t \in Tasks : t = Head(reports) /\ where[t] = "out"
      BY <2>3, <3>1, QueueAdvances, Zenon DEF Active
    <3>3. where' = [where EXCEPT ![t] = "returned"] /\ where \in [Tasks -> Places]
      BY <1>1, <2>3, <3>2, Zenon DEF drain_worker_reports, GInv, Placed
    <3>4. \A u \in Tasks : where[u] \in {"out", "returned"} <=> where'[u] \in {"out", "returned"}
      BY <3>2, <3>3, Zenon
    <3> QED BY <2>1, <3>4, Unseen, Zenon DEF Pending
  <2> QED BY <2>2, <2>3, Zenon
<1>2. CASE Continues \/ SettleParks
  <2>1. UNCHANGED <<worldVars, stop>> /\ continuations # <<>>
    BY <1>2, Zenon DEF Continues, SettleParks
  <2>2. Queue(continuations, At("cont"))
    BY Zenon DEF GInv, Placed
  <2>3. Head(continuations) \in At("cont") \cap Tasks
    BY <2>1, <2>2, QueueAdvances, Zenon
  <2>4. PICK t \in Tasks : t = Head(continuations) /\ where[t] = "cont"
    BY <2>3, Zenon DEF At
  <2>5. where' = [where EXCEPT ![t] = "cur"] /\ where \in [Tasks -> Places]
    BY <1>2, <2>4, Zenon DEF Continues, SettleParks, Takes, GInv, Placed
  <2>6. \A u \in Tasks : where[u] \in {"out", "returned"} <=> where'[u] \in {"out", "returned"}
    BY <2>4, <2>5, Zenon
  <2> QED BY <2>1, <2>6, Unseen, Zenon DEF Pending
<1>3. CASE \/ AdvanceBlocks \/ AdvanceWaits \/ AdvanceEnds \/ AdvanceYields
           \/ AdvanceExecutes \/ InlineYields
  <2>1. /\ cur \in Tasks /\ where[cur] = "cur" /\ stop[cur] \in {Fresh, Spent}
        /\ where \in [Tasks -> Places]
        /\ stop \in [Tasks -> Request \cup {Fresh, Spent, Recalled}]
    BY <1>3, CurShape, Zenon DEF AdvanceBlocks, AdvanceWaits, AdvanceEnds, AdvanceYields, AdvanceExecutes,
       InlineYields, Advancing
  <2>2. /\ UNCHANGED worldVars
        /\ \/ stop' = stop /\ \E p : where' = [where EXCEPT ![cur] = p]
           \/ where' = where /\ stop' = [stop EXCEPT ![cur] = Spent]
           \/ UNCHANGED <<where, stop>>
    BY <1>3, Zenon DEF AdvanceBlocks, AdvanceWaits, AdvanceEnds, AdvanceYields, AdvanceExecutes,
       InlineYields, Rests, Goto, Release
  <2>3. /\ \A u \in Tasks : u # cur => where'[u] = where[u] /\ stop'[u] = stop[u]
        /\ stop'[cur] \in {Fresh, Spent}
    BY <2>1, <2>2, Zenon
  <2>4. ~Counts(stop[cur]) /\ ~Counts(stop'[cur])
    BY <1>0, <2>1, <2>3, Zenon
  <2>5. ASSUME NEW u \in Tasks
        PROVE  (Pending(u) <=> Pending(u)') /\ (Pending(u) => stop'[u] = stop[u])
    <3>1. CASE u = cur
      BY <2>4, <3>1, Zenon DEF Pending
    <3>2. CASE u # cur
      BY <2>3, <3>2, Zenon DEF Pending
    <3> QED BY <3>1, <3>2, Zenon
  <2> QED BY <2>2, <2>5, Unseen, Zenon
<1> QED BY <1>1, <1>2, <1>3, Zenon

LEMMA PrependTakes ==
  ASSUME NEW S, NEW x \in S, NEW s \in Seq(S)
  PROVE  /\ <<x>> \o s # <<>> /\ Head(<<x>> \o s) = x /\ Tail(<<x>> \o s) = s
         /\ s # <<>> => <<Head(s)>> \o Tail(s) = s
<1>1. <<x>> \in Seq(S) /\ Len(<<x>>) = 1
  OBVIOUS
<1>2. /\ <<x>> \o s \in Seq(S) /\ Len(<<x>> \o s) = 1 + Len(s)
      /\ \A k \in 1..Len(s) : (<<x>> \o s)[1 + k] = s[k]
  BY <1>1, Concatenated
<1>3. (<<x>> \o s)[1] = x
  OBVIOUS
<1>4. <<x>> \o s # <<>> /\ Head(<<x>> \o s) = x
  BY <1>2, <1>3, SMTT(30)
<1>5. Tail(<<x>> \o s) = s
  <2>1. /\ Tail(<<x>> \o s) \in Seq(S) /\ Len(Tail(<<x>> \o s)) = Len(s)
        /\ \A k \in 1..Len(s) : Tail(<<x>> \o s)[k] = (<<x>> \o s)[1 + k]
    BY <1>2, <1>4, SMTT(30)
  <2> QED BY <1>2, <2>1, SMTT(30)
<1>6. ASSUME s # <<>>
      PROVE  <<Head(s)>> \o Tail(s) = s
  <2>1. /\ Tail(s) \in Seq(S) /\ Head(s) \in S /\ Len(s) \in Nat /\ Len(Tail(s)) = Len(s) - 1
        /\ \A k \in 1..Len(s) - 1 : Tail(s)[k] = s[1 + k]
        /\ Head(s) = s[1]
    BY <1>6, SMTT(30)
  <2>2. <<Head(s)>> \in Seq(S) /\ Len(<<Head(s)>>) = 1
    BY <2>1, SMTT(30)
  <2>3. /\ <<Head(s)>> \o Tail(s) \in Seq(S) /\ Len(<<Head(s)>> \o Tail(s)) = Len(s)
        /\ \A k \in 1..Len(s) - 1 : (<<Head(s)>> \o Tail(s))[1 + k] = s[1 + k]
    BY <2>1, <2>2, Concatenated, SMTT(30)
  <2>4. (<<Head(s)>> \o Tail(s))[1] = s[1]
    BY <2>1
  <2>5. \A i \in 1..Len(s) : i = 1 \/ (i - 1 \in 1..Len(s) - 1 /\ i = 1 + (i - 1))
    BY <2>1
  <2> QED BY <2>1, <2>3, <2>4, <2>5, SMTT(30)
<1> QED BY <1>4, <1>5, <1>6, Zenon

LEMMA UndoneFunction ==
  ASSUME \A m \in Machines : Undone'[m] = Undone[m]
  PROVE  Undone' = Undone
<1>1. Undone = [m \in Machines |-> Undone[m]] /\ Undone' = [m \in Machines |-> Undone'[m]]
  BY Zenon DEF Undone
<1> QED BY <1>1, Zenon

(* The worker's request is not performed yet. *)
LEMMA ReportUnseen ==
  ASSUME GInv, RInv, NEW t \in Tasks, WorkerReports(t)
  PROVE  SerialStep
<1>0. /\ UNCHANGED <<state, request, box, paused, top, where>> /\ t \notin Range(reports)
      /\ where[t] = "out" /\ top[t] \in Machines
      /\ stop \in [Tasks -> Request \cup {Fresh, Spent, Recalled}]
      /\ todo \in [Machines -> Seq(Request)]
  BY Zenon DEF WorkerReports, GInv, Guests, WorldTypeOK
<1>1. /\ \A u \in Tasks : u # t => stop'[u] = stop[u]
      /\ \/ Asked(top[t]) /\ stop'[t] = Ask(top[t])
         \/ todo' = todo /\ stop'[t] = Recalled
  BY <1>0, Zenon DEF WorkerReports
<1>2. stop[t] = Fresh /\ ~Counts(Fresh) /\ ~Counts(Recalled)
  BY <1>0, Zenon DEF RInv, StopShape, Counts, Fresh, Recalled, Req
<1>3. \A u \in Tasks : top[u] = top[t] => u = t
  BY TopsApart, Zenon DEF RInv
<1>4. ASSUME NEW m \in Machines, m # top[t], todo'[m] = todo[m]
      PROVE  Undone'[m] = Undone[m]
  <2>1. ASSUME NEW u \in Tasks, top[u] = m
        PROVE  (Pending(u) <=> Pending(u)') /\ stop'[u] = stop[u]
    BY <1>0, <1>1, <1>4, <2>1, Zenon DEF Pending
  <2> QED BY <1>0, <1>4, <2>1, UndoneSame, Zenon DEF RInv
<1>5. Undone[top[t]] = todo[top[t]]
  <2>1. ~Pending(t)
    BY <1>2, Zenon DEF Pending
  <2> QED BY <1>0, <1>3, <2>1, UndoneBefore, Zenon DEF RInv
<1>6. CASE todo' = todo /\ stop'[t] = Recalled
  <2>1. ~Pending(t)'
    BY <1>2, <1>6, Zenon DEF Pending
  <2>2. Undone'[top[t]] = todo'[top[t]]
    BY <1>0, <1>3, <2>1, UndoneAfter, Zenon
  <2>3. Undone' = Undone
    BY <1>4, <1>5, <1>6, <2>2, UndoneFunction, Zenon
  <2> QED BY <1>0, <2>3, Zenon DEF SerialStep, Serial!worldVars
<1>7. CASE Asked(top[t]) /\ stop'[t] = Ask(top[t])
  <2>1. \A n \in Machines : n # top[t] => todo'[n] = todo[n]
    BY <1>0, <1>7, AskPlain, Zenon DEF RInv
  <2>2. Undone'[top[t]] = todo[top[t]]
    <3>1. CASE todo[top[t]] = <<>>
      <4>1. ~Counts(stop'[t]) /\ todo'[top[t]] = todo[top[t]]
        BY <1>0, <1>7, <3>1, SMTT(30) DEF Ask, Asked, Counts, Req
      <4>2. ~Pending(t)'
        BY <4>1, Zenon DEF Pending
      <4> QED BY <1>0, <1>3, <4>1, <4>2, UndoneAfter, ZenonT(30)
    <3>2. CASE todo[top[t]] # <<>>
      <4>1. /\ stop'[t] = Head(todo[top[t]]) /\ todo'[top[t]] = Tail(todo[top[t]])
        BY <1>0, <1>7, <3>2, Zenon DEF Ask, Asked
      <4>2. stop'[t] \in Request /\ Plain(top[t], stop'[t])
        BY <1>0, <1>7, <3>2, AskPlain, Zenon DEF RInv
      <4>3. Counts(stop'[t])
        BY <4>2, Zenon DEF Counts, Plain, Allowed, Request
      <4>4. Pending(t)'
        BY <1>0, <4>3, Zenon DEF Pending
      <4>5. Undone'[top[t]] = <<stop'[t]>> \o todo'[top[t]]
        BY <1>0, <1>3, <4>4, UndoneAfter, Zenon
      <4>6. todo[top[t]] \in Seq(Request)
        BY <1>0, Zenon
      <4> QED BY <3>2, <4>1, <4>2, <4>5, <4>6, PrependTakes, Zenon
    <3> QED BY <3>1, <3>2, Zenon
  <2>3. Undone' = Undone
    BY <1>4, <1>5, <2>1, <2>2, UndoneFunction, Zenon
  <2> QED BY <1>0, <2>3, Zenon DEF SerialStep, Serial!worldVars
<1> QED BY <1>1, <1>6, <1>7, Zenon

(* Only the machine on top of the stack of t has another program. *)
LEMMA UndoneElsewhere ==
  ASSUME StackShape, NEW t \in Tasks, ~Pending(t)',
         \A u \in Tasks : u # t =>
             top'[u] = top[u] /\ stop'[u] = stop[u] /\ where'[u] = where[u],
         NEW m \in Machines, m # top[t], todo'[m] = todo[m]
  PROVE  Undone'[m] = Undone[m]
<1>1. ASSUME NEW u \in Tasks
      PROVE  /\ top[u] = m /\ Pending(u) <=> top'[u] = m /\ Pending(u)'
             /\ top[u] = m /\ Pending(u) => stop'[u] = stop[u]
  <2>1. CASE u = t
    BY <2>1, Zenon
  <2>2. CASE u # t
    BY <2>2, Zenon DEF Pending
  <2> QED BY <2>1, <2>2, Zenon
<1> QED BY <1>1, UndoneSame, Zenon

(* The top machine of t asks for r, and r takes effect. *)
LEMMA SerialPerforms ==
  ASSUME NEW t \in Tasks, paused = {}, state[top[t]] = "ready", top[t] \in Machines,
         NEW r, NEW u \in BOOLEAN, Does(t, top[t], r, u),
         r = IF Undone[top[t]] = <<>> THEN Req("end", Root) ELSE Head(Undone[top[t]]),
         \A m \in Machines : m # top[t] => Undone'[m] = Undone[m],
         Undone'[top[t]] = IF Undone[top[t]] = <<>> THEN Undone[top[t]] ELSE Tail(Undone[top[t]])
  PROVE  SerialStep
<1>1. Serial!Ask(top[t]) = r
  BY Zenon DEF Serial!Ask, Serial!Req, Serial!Root, Req, Root
<1>2. Serial!Asked(top[t])
  <2>1. Undone = [m \in Machines |-> Undone[m]] /\ Undone' = [m \in Machines |-> Undone'[m]]
    BY SMTT(30) DEF Undone
  <2> QED BY <2>1, ZenonT(30) DEF Serial!Asked
<1>3. Serial!Does(t, top[t], r, u)
  BY SerialDoes, Zenon
<1>4. Serial!Performs(t)
  BY <1>1, <1>2, <1>3, Zenon DEF Serial!Performs
<1> QED BY <1>4, SerialNames, Zenon DEF SerialStep, Serial!SerialNext

LEMMA CommitsSerial ==
  ASSUME GInv, RInv, NEW t \in Tasks, where[t] = "returned", Commits(t)
  PROVE  SerialStep
<1>0. /\ where \in [Tasks -> Places] /\ top[t] \in Machines
      /\ stop \in [Tasks -> Request \cup {Fresh, Spent, Recalled}]
      /\ todo \in [Machines -> Seq(Request)] /\ paused = {}
      /\ where'[t] = "cont"
      /\ \A u \in Tasks : u # t => stop'[u] = stop[u] /\ where'[u] = where[u]
  BY Zenon DEF GInv, Placed, Guests, WorldTypeOK, Commits, RInv, PlainWorld
<1>1. ~Pending(t)'
  BY <1>0, Zenon DEF Pending
<1>2. CASE Quiet(t)
  <2>1. ~Pending(t)
    BY <1>2 DEF Pending, Quiet, Counts, Recalled, Req
  <2>2. ASSUME NEW u \in Tasks
        PROVE  (Pending(u) <=> Pending(u)') /\ (Pending(u) => stop'[u] = stop[u])
    <3>1. CASE u = t
      BY <1>1, <2>1, <3>1, Zenon
    <3>2. CASE u # t
      BY <1>0, <3>2, Zenon DEF Pending
    <3> QED BY <3>1, <3>2, Zenon
  <2>3. UNCHANGED worldVars
    BY <1>2, Zenon DEF Commits
  <2> QED BY <2>2, <2>3, Unseen, ZenonT(30)
<1>3. CASE ~Quiet(t)
  <2>1. Operates(t, stop[t]) /\ todo' = todo
    BY <1>3, Zenon DEF Commits
  <2>2. state[top[t]] = "ready"
    BY Zenon DEF RInv, Executing
  <2>3. \/ stop[t] = Req("end", Root) /\ todo[top[t]] = <<>>
        \/ stop[t] \in Request /\ Plain(top[t], stop[t])
    BY <1>3, ZenonT(30) DEF RInv, StopShape, Quiet
  <2>4. /\ stop[t] \in Operation /\ stop[t].op \notin {"pause", "resume"}
        /\ stop[t].op = "run" => stop[t].to \in Held /\ Holder[stop[t].to] = top[t]
    BY <1>0, <2>3, OperationTypes, SMTT(30) DEF Plain, Allowed, Req
  <2>5. \A u \in Tasks : u # t => top'[u] = top[u]
    BY <2>1, <2>2, <2>4, PlainOperates, Zenon DEF RInv
  <2>6. \A m \in Machines : m # top[t] => Undone'[m] = Undone[m]
    BY <1>0, <1>1, <2>1, <2>5, UndoneElsewhere, Zenon DEF RInv
  <2>7. Undone'[top[t]] = todo[top[t]]
    <3>1. \A u \in Tasks : top'[u] = top[t] => ~Pending(u)'
      <4>1. \A u \in Tasks : u # t => top[u] # top[t]
        BY TopsApart, Zenon DEF RInv
      <4> QED BY <1>1, <2>5, <4>1, Zenon
    <3> QED BY <1>0, <2>1, <3>1, UndoneAfter, Zenon
  <2>8. /\ stop[t] = IF Undone[top[t]] = <<>> THEN Req("end", Root) ELSE Head(Undone[top[t]])
        /\ todo[top[t]] = IF Undone[top[t]] = <<>> THEN Undone[top[t]] ELSE Tail(Undone[top[t]])
    <3>1. CASE stop[t] = Req("end", Root) /\ todo[top[t]] = <<>>
      <4>1. ~Pending(t)
        BY <3>1 DEF Pending, Counts, Req
      <4>2. \A u \in Tasks : top[u] = top[t] => ~Pending(u)
        BY <4>1, TopsApart, Zenon DEF RInv
      <4>3. Undone[top[t]] = todo[top[t]]
        BY <1>0, <4>2, UndoneBefore, ZenonT(30) DEF RInv
      <4> QED BY <3>1, <4>3, ZenonT(30)
    <3>2. CASE stop[t] \in Request /\ Plain(top[t], stop[t])
      <4>1. Pending(t)
        BY <3>2, Zenon DEF Pending, Counts, Plain, Allowed, Request
      <4>2. Undone[top[t]] = <<stop[t]>> \o todo[top[t]]
        BY <1>0, <4>1, UndoneBefore, Zenon DEF RInv
      <4>3. todo[top[t]] \in Seq(Request)
        BY <1>0, Zenon
      <4> QED BY <3>2, <4>2, <4>3, PrependTakes, SMTT(30)
    <3> QED BY <2>3, <3>1, <3>2, Zenon
  <2>9. Does(t, top[t], stop[t], InUse(stop[t].to)) /\ InUse(stop[t].to) \in BOOLEAN
    BY <2>1, Zenon DEF Operates, InUse
  <2>10. Undone'[top[t]] = IF Undone[top[t]] = <<>> THEN Undone[top[t]] ELSE Tail(Undone[top[t]])
    BY <2>7, <2>8, Zenon
  <2>11. /\ paused = {} /\ top[t] \in Machines
         /\ stop[t] = IF Undone[top[t]] = <<>> THEN Req("end", Root) ELSE Head(Undone[top[t]])
    BY <1>0, <2>8, Zenon
  <2> QED BY <2>2, <2>6, <2>9, <2>10, <2>11, SerialPerforms, Zenon
<1> QED BY <1>2, <1>3, Zenon

(* The block of the top machine of t is over, and its request is answered. *)
LEMMA SerialRetries ==
  ASSUME GInv, RInv, NEW t \in Tasks, state[top[t]] = "blocked", block_ready(top[t]),
         Operates(t, request[top[t]]), todo' = todo, ~Pending(t), ~Pending(t)',
         \A u \in Tasks : u # t => stop'[u] = stop[u] /\ where'[u] = where[u]
  PROVE  SerialStep
<1> DEFINE r == request[top[t]]
<1>0. top[t] \in Machines /\ r \in [op : {"none", "send", "recv", "done"}, to : Machines]
  BY Zenon DEF GInv, Guests, WorldTypeOK
<1>1. r.op \notin {"pause", "resume", "run"}
  BY <1>0, Zenon
<1> HIDE DEF r
<1>2. Does(t, top[t], r, InUse(r.to))
  BY Zenon DEF Operates, r
<1>3. Does(t, top[t], r, FALSE) /\ top' = top
  BY <1>1, <1>2, Zenon DEF Does, proc_send, proc_recv, proc_done, proc_pause, proc_resume, vm_run, collect,
     host_call, ends
<1>4. Serial!Does(t, top[t], r, FALSE)
  BY <1>3, SerialDoes, Zenon
<1>5. Undone' = Undone
  <2>1. ASSUME NEW u \in Tasks
        PROVE  (Pending(u) <=> Pending(u)') /\ (Pending(u) => stop'[u] = stop[u])
    <3>1. CASE u = t
      BY <3>1, Zenon
    <3>2. CASE u # t
      BY <3>2, Zenon DEF Pending
    <3> QED BY <3>1, <3>2, Zenon
  <2> QED BY <1>3, <2>1, UndoneStays, Zenon DEF RInv
<1>6. Serial!BlockOver(top[t])
  BY Zenon DEF block_ready, BlockOver, HasRoom, Terminal, Serial!BlockOver, Serial!HasRoom, Serial!Terminal
<1>7. Serial!Retries(t)
  BY <1>4, <1>5, <1>6, Zenon DEF Serial!Retries, RInv, PlainWorld, r
<1> QED BY <1>7, SerialNames, Zenon DEF SerialStep, Serial!SerialNext

LEMMA AdvanceSerial ==
  ASSUME GInv, RInv, AdvanceCompletes \/ InlinePerforms \/ AdvanceAnswers
  PROVE  SerialStep
<1>0. PICK t \in Tasks : t = cur /\ where[t] = "cur" /\ top[t] = Top /\ top[t] \in Machines
  BY CurShape, Zenon DEF AdvanceCompletes, InlinePerforms, AdvanceAnswers, Advancing, Top
<1>a. UNCHANGED <<where, stop>>
  BY Zenon DEF AdvanceCompletes, InlinePerforms, AdvanceAnswers
<1>1. ~Pending(t) /\ ~Pending(t)'
  BY <1>0, <1>a, Zenon DEF Pending
<1>2. \A u \in Tasks : top[u] = top[t] => u = t
  BY <1>0, TopsApart, Zenon DEF RInv
<1>3. CASE AdvanceCompletes
  <2>1. /\ state[top[t]] = "blocked" /\ block_ready(top[t])
        /\ Operates(t, request[top[t]]) /\ todo' = todo
    BY <1>0, <1>3, Zenon DEF AdvanceCompletes
  <2> QED BY <1>1, <1>a, <2>1, SerialRetries, Zenon
<1>4. CASE AdvanceAnswers
  <2>1. /\ top' = [top EXCEPT ![t] = t] /\ top \in [Tasks -> Machines]
        /\ Terminal(top[t]) /\ top[t] # t
        /\ UNCHANGED <<state, request, box, paused, todo>>
    BY <1>0, <1>4, Zenon DEF AdvanceAnswers, GInv, Guests, WorldTypeOK
  <2>2. Undone' = Undone
    <3>1. ASSUME NEW u \in Tasks
          PROVE  (Pending(u) <=> Pending(u)') /\ (Pending(u) => top'[u] = top[u] /\ stop'[u] = stop[u])
      BY <1>0, <1>a, <1>1, <2>1, Zenon DEF Pending
    <3> QED BY <2>1, <3>1, UndoneStays, Zenon DEF RInv
  <2>3. Serial!RunAnswers(t)
    BY <2>1, <2>2, ZenonT(30) DEF Serial!RunAnswers, Serial!Terminal, Terminal
  <2> QED BY <2>3, SerialNames, Zenon DEF SerialStep, Serial!SerialNext
<1>5. CASE InlinePerforms
  <2> DEFINE r == Ask(top[t])
  <2>1. Operates(t, r) /\ Asked(top[t]) /\ state[top[t]] = "ready"
    BY <1>0, <1>5, ZenonT(30) DEF InlinePerforms, RInv, Executing
  <2>2. /\ r \in Operation /\ r.op \notin {"pause", "resume"}
        /\ r.op = "run" => r.to \in Held /\ Holder[r.to] = top[t]
    <3>1. r \in Operation
      BY <1>0, AskTypes, OperationTypes, Zenon
    <3>2. r = Req("end", Root) \/ Plain(top[t], r)
      BY <1>0, <2>1, AskPlain, Zenon DEF RInv
    <3> QED BY <3>1, <3>2, SMTT(30) DEF Plain, Allowed, Req
  <2>3. \A u \in Tasks : u # t => top'[u] = top[u]
    BY <2>1, <2>2, PlainOperates, Zenon DEF RInv
  <2>4. \A m \in Machines : m # top[t] => todo'[m] = todo[m]
    BY <1>0, <2>1, AskPlain, Zenon DEF RInv
  <2>5. \A m \in Machines : m # top[t] => Undone'[m] = Undone[m]
    BY <1>a, <1>1, <2>3, <2>4, UndoneElsewhere, Zenon DEF RInv
  <2>6. Undone[top[t]] = todo[top[t]]
    BY <1>0, <1>1, <1>2, UndoneBefore, Zenon DEF RInv
  <2>7. Undone'[top[t]] = todo'[top[t]]
    <3>1. \A u \in Tasks : top'[u] = top[t] => ~Pending(u)'
      BY <1>1, <1>2, <2>3, ZenonT(30)
    <3> QED BY <1>0, <3>1, UndoneAfter, Zenon
  <2>8. todo'[top[t]] = IF todo[top[t]] = <<>> THEN todo[top[t]] ELSE Tail(todo[top[t]])
    BY <1>0, <2>1, Zenon DEF Asked, GInv, Guests, WorldTypeOK
  <2>9. /\ Does(t, top[t], r, InUse(r.to)) /\ InUse(r.to) \in BOOLEAN
        /\ r = IF todo[top[t]] = <<>> THEN Req("end", Root) ELSE Head(todo[top[t]])
    BY <2>1, Zenon DEF Operates, InUse, Ask
  <2> HIDE DEF r
  <2> QED BY <1>0, <2>1, <2>5, <2>6, <2>7, <2>8, <2>9, SerialPerforms, SMTT(30) DEF RInv, PlainWorld
<1> QED BY <1>3, <1>4, <1>5, Zenon

LEMMA BeginsSerial ==
  ASSUME GInv, RInv, NEW t \in Tasks, Begins(t)
  PROVE  SerialStep
<1>0. /\ where' = [where EXCEPT ![t] = "cur"] /\ where \in [Tasks -> Places]
      /\ stop' = [stop EXCEPT ![t] = Fresh]
      /\ stop \in [Tasks -> Request \cup {Fresh, Spent, Recalled}]
  BY Zenon DEF Begins, Takes, GInv, Placed, Guests
<1>1. where[t] \in {"none", "saved"} /\ (state[top[t]] = "blocked" => block_ready(top[t]))
  BY ReadyTask, Zenon DEF Begins
<1>2. /\ \A u \in Tasks : u # t => stop'[u] = stop[u] /\ where'[u] = where[u]
      /\ ~Pending(t) /\ ~Pending(t)'
  BY <1>0, <1>1, Zenon DEF Pending
<1>3. CASE state[t] = "blocked" /\ where[t] = "none"
  <2>1. top[t] = t
    BY <1>3, Zenon DEF RInv, StackShape
  <2>2. Operates(t, request[top[t]]) /\ todo' = todo
    BY <1>3, <2>1, Zenon DEF Begins
  <2> QED BY <1>1, <1>2, <1>3, <2>1, <2>2, SerialRetries, Zenon
<1>4. CASE ~(state[t] = "blocked" /\ where[t] = "none")
  <2>1. UNCHANGED worldVars
    BY <1>4, Zenon DEF Begins
  <2>2. ASSUME NEW u \in Tasks
        PROVE  (Pending(u) <=> Pending(u)') /\ (Pending(u) => stop'[u] = stop[u])
    <3>1. CASE u = t
      BY <1>2, <3>1, Zenon
    <3>2. CASE u # t
      BY <1>2, <3>2, Zenon DEF Pending
    <3> QED BY <3>1, <3>2, Zenon
  <2> QED BY <2>1, <2>2, Unseen, Zenon
<1> QED BY <1>3, <1>4, Zenon

LEMMA HostSerial ==
  ASSUME GInv, RInv, NEW t \in Tasks, HostCompletes(t)
  PROVE  SerialStep
<1>0. /\ UNCHANGED <<box, paused, top, todo, where, stop>>
      /\ state[top[t]] = "waiting" /\ top[t] \in Machines
  BY Zenon DEF HostCompletes, GInv, Guests, WorldTypeOK
<1>1. Undone' = Undone
  BY <1>0, UndoneStays, Zenon DEF RInv, Pending
<1>2. CASE Answers(top[t])
  <2>1. Serial!HostAnswers(top[t])
    BY <1>0, <1>1, <1>2, Zenon
       DEF Serial!HostAnswers, Serial!Answers, Serial!Req, Serial!Root, Answers, Req, Root
  <2> QED BY <1>0, <2>1, SerialNames, Zenon DEF SerialStep, Serial!SerialNext
<1>3. CASE state' = [state EXCEPT ![top[t]] = "faulted"] /\ UNCHANGED request
  <2>1. state' = [m \in Machines |-> IF m \in {top[t]} THEN "faulted" ELSE state[m]]
    BY <1>0, <1>3, Zenon DEF GInv, Guests, WorldTypeOK
  <2>2. Serial!CallsFail({top[t]})
    BY <1>0, Zenon DEF Serial!CallsFail
  <2>3. Serial!Fails({top[t]})
    BY <1>0, <1>1, <1>3, <2>1, <2>2, SerialNames, Zenon DEF Serial!Fails
  <2> QED BY <1>0, <2>3, SerialNames, Zenon DEF SerialStep, Serial!SerialNext
<1> QED BY <1>2, <1>3, Zenon DEF HostCompletes, InstallsCompletion

(* The tasks of S fail, with their calls or in a deadlock. *)
LEMMA FailuresSerial ==
  ASSUME GInv, RInv, NEW S \in SUBSET Tasks, S # {}, FailTasks(S),
         Serial!CallsFail({top[t] : t \in S}) \/ Serial!Deadlock({top[t] : t \in S})
  PROVE  SerialStep
<1> DEFINE F == {top[t] : t \in S}
<1>1. F \in SUBSET Machines /\ F # {}
  BY DEF GInv, Guests, WorldTypeOK
<1>2. /\ UNCHANGED <<request, box, paused, top, todo, where, stop>>
      /\ state' = [m \in Machines |-> IF m \in F THEN "faulted" ELSE state[m]]
  BY Zenon DEF FailTasks
<1>3. Undone' = Undone
  BY <1>2, UndoneStays, Zenon DEF RInv, Pending
<1>4. Serial!CallsFail(F) \/ Serial!Deadlock(F)
  BY Zenon
<1> HIDE DEF F
<1>5. Serial!Fails(F)
  BY <1>1, <1>2, <1>3, <1>4, SerialNames, Zenon DEF Serial!Fails
<1> QED BY <1>1, <1>5, SerialNames, Zenon DEF SerialStep, Serial!SerialNext

(* At rest the index is up to date, so the calls that fail are under way. *)
LEMMA FailsWaitingSerial ==
  ASSUME GInv, RInv, FailsWaiting
  PROVE  SerialStep
<1>1. Indexed("waiting") \in SUBSET Tasks /\ Indexed("waiting") # {}
  BY Zenon DEF FailsWaiting, Indexed
<1>2. ASSUME NEW t \in Indexed("waiting")
      PROVE  state[top[t]] = "waiting"
  <2>1. t \in Tasks /\ idx[t] = "waiting" /\ idx[t] = index_status(t)
    BY Zenon DEF FailsWaiting, Stale, Indexed
  <2> QED BY <2>1, Zenon DEF index_status, task_status
<1>3. Serial!CallsFail({top[t] : t \in Indexed("waiting")})
  BY <1>2, Zenon DEF Serial!CallsFail
<1> QED BY <1>1, <1>3, FailuresSerial, Zenon DEF FailsWaiting

(* A deadlock is declared only when no task can move: the index is up to    *)
(* date, nothing is away, and every task that has not ended is blocked.     *)
LEMMA NobodyMoves ==
  ASSUME GInv, RInv, AtRest, Stale = {}, Indexed("waiting") = {}, NEW t \in Tasks
  PROVE  ~Serial!CanMove(t)
<1>0. /\ pc = "idle" /\ Queued = {} /\ where[t] \in {"none", "saved"}
      /\ \A m \in Machines : ~Away(m)
  BY RestShape, Zenon DEF AtRest, Idle, RInv, Indexes
<1>1. CASE idx[t] = "none"
  <2>1. Terminal(t)
    BY <1>0, <1>1, Zenon DEF RInv, Indexes
  <2>2. top[t] = t
    BY <2>1, Zenon DEF RInv, StackShape, Terminal
  <2> QED BY <2>1, <2>2, Zenon DEF Serial!CanMove, Terminal
<1>2. CASE idx[t] # "none"
  <2>1. idx[t] = index_status(t)
    BY <1>2, Zenon DEF Stale
  <2>2. index_status(t) = "blocked"
    BY <1>0, <1>2, <2>1, IndexTyped, Zenon DEF Queued, Indexed
  <2>3. state[top[t]] = "blocked" /\ ~block_ready(top[t])
    BY <2>2, Zenon DEF index_status, task_status
  <2>4. request[top[t]].to \in Machines /\ top[t] \in Machines
    BY Zenon DEF GInv, Guests, WorldTypeOK
  <2>5. ~BlockOver(top[t])
    BY <1>0, <2>3, <2>4, Zenon DEF block_ready
  <2>6. ~Serial!BlockOver(top[t])
    BY <2>5, Zenon DEF BlockOver, HasRoom, Terminal, Serial!BlockOver, Serial!HasRoom, Serial!Terminal
  <2> QED BY <2>3, <2>6, Zenon DEF Serial!CanMove, Serial!Terminal
<1> QED BY <1>1, <1>2, Zenon

LEMMA DeadlockSerial ==
  ASSUME GInv, RInv, DeclaresDeadlock
  PROVE  SerialStep
<1>1. AtRest /\ Stale = {} /\ Indexed("waiting") = {}
  BY Zenon DEF DeclaresDeadlock
<1>2. \A t \in Serial!Tasks : ~Serial!CanMove(t)
  BY <1>1, NobodyMoves, SerialNames, Zenon
<1>3. ASSUME NEW S \in SUBSET Tasks, S # {}, FailTasks(S)
      PROVE  SerialStep
  <2>1. Serial!Deadlock({top[t] : t \in S})
    BY <1>2, SerialNames, Zenon DEF Serial!Deadlock
  <2> QED BY <1>3, <2>1, FailuresSerial, Zenon
<1>4. CASE UNCHANGED <<worldVars, where, stop>>
  BY <1>4, Unseen, Zenon DEF Pending
<1>5. Indexed("blocked") \in SUBSET Tasks /\ {Root} \in SUBSET Tasks
  BY OperationTypes, Zenon DEF Indexed
<1> QED BY <1>3, <1>4, <1>5, Zenon DEF DeclaresDeadlock

LEMMA DiscardsSerial ==
  ASSUME GInv, RInv, SettleDiscards
  PROVE  SerialStep
<1>1. PICK t \in Tasks : t = Oldest /\ where[t] = "returned"
  BY ReturnedPlace, Zenon DEF SettleDiscards, RInv, Loop
<1>2. /\ UNCHANGED <<request, box, paused, todo>>
      /\ state' = [state EXCEPT ![t] = "faulted"] /\ top' = [top EXCEPT ![t] = t]
      /\ where' = [where EXCEPT ![t] = "none"] /\ stop' = [stop EXCEPT ![t] = Fresh]
  BY <1>1, Zenon DEF SettleDiscards
<1>3. /\ where \in [Tasks -> Places] /\ top \in [Tasks -> Machines]
      /\ stop \in [Tasks -> Request \cup {Fresh, Spent, Recalled}]
      /\ state \in [Machines -> {"ready", "blocked", "waiting", "done", "faulted"}]
      /\ todo \in [Machines -> Seq(Request)] /\ t \in Machines /\ top[t] \in Machines
  BY OperationTypes, Zenon DEF GInv, Placed, Guests, WorldTypeOK
<1>4. /\ ~Pending(t)'
      /\ \A u \in Tasks : u # t => top'[u] = top[u] /\ stop'[u] = stop[u] /\ where'[u] = where[u]
  BY <1>2, <1>3, Zenon DEF Pending
<1>5. \A m \in Machines : m # top[t] => Undone'[m] = Undone[m]
  BY <1>2, <1>4, UndoneElsewhere, Zenon DEF RInv
<1>6. Undone'[top[t]] = todo[top[t]]
  <2>1. \A u \in Tasks : u # t => top[u] # top[t]
    BY TopsApart, Zenon DEF RInv
  <2>2. \A u \in Tasks : top'[u] = top[t] => ~Pending(u)'
    BY <1>4, <2>1, Zenon
  <2> QED BY <1>2, <1>3, <2>2, UndoneAfter, Zenon
<1>7. Undone[top[t]] = todo[top[t]] \/ todo[top[t]] = Tail(Undone[top[t]])
  <2>1. CASE Pending(t)
    <3>1. Undone[top[t]] = <<stop[t]>> \o todo[top[t]]
      BY <1>3, <2>1, UndoneBefore, Zenon DEF RInv
    <3>2. stop[t] \in Request /\ todo[top[t]] \in Seq(Request)
      BY <1>3, <2>1, SMTT(30) DEF Pending, Counts, Fresh, Spent, Recalled, Req
    <3> QED BY <3>1, <3>2, PrependTakes, SMTT(30)
  <2>2. CASE ~Pending(t)
    <3>1. \A u \in Tasks : top[u] = top[t] => ~Pending(u)
      BY <2>2, TopsApart, Zenon DEF RInv
    <3> QED BY <1>3, <3>1, UndoneBefore, Zenon DEF RInv
  <2> QED BY <2>1, <2>2, ZenonT(30)
<1>8. \A m \in Machines : Undone'[m] # Undone[m] => Undone'[m] = Tail(Undone[m])
  BY <1>5, <1>6, <1>7, Zenon
<1>9. Terminal(Root)
  BY Zenon DEF SettleDiscards, RInv, Loop, Settling
<1>10. /\ state' = [m \in Machines |-> IF m \in {t} THEN "faulted" ELSE state[m]]
       /\ top' = [u \in Tasks |-> IF u \in {t} THEN u ELSE top[u]]
  BY <1>2, <1>3, Zenon
<1>11. Serial!PutAway({t})
  BY <1>9, SerialNames, Zenon DEF Serial!PutAway, Serial!Terminal, Terminal
<1>12. Serial!Fails({t})
  BY <1>2, <1>8, <1>10, <1>11, SerialNames, Zenon DEF Serial!Fails
<1> QED BY <1>3, <1>12, SerialNames, Zenon DEF SerialStep, Serial!SerialNext

LEMMA SerialInit ==
  ASSUME Init
  PROVE  Serial!WorldInit
<1>1. \A t \in Tasks : ~Pending(t)
  BY Zenon DEF Init, Pending
<1>2. StackShape
  BY Zenon DEF Init, WorldInit, StackShape
<1>3. \A m \in Machines : Undone[m] = todo[m]
  BY <1>1, <1>2, UndoneBefore, Zenon
<1>4. todo \in Programs /\ todo \in [Machines -> Seq(Request)]
  BY WorldAssumption, Zenon DEF Init, WorldInit
<1>5. Undone = [m \in Machines |-> Undone[m]]
  BY DEF Undone
<1>6. Undone = todo
  BY <1>3, <1>4, <1>5, Zenon
<1> QED BY <1>4, <1>6, SerialNames, Zenon DEF Init, WorldInit, Serial!WorldInit, Serial!Req, Req

LEMMA StepSerial ==
  ASSUME GInv, RInv, [Next]_vars
  PROVE  SerialStep
<1>1. ASSUME NEW t \in Tasks, WorkerReports(t) \/ HostCompletes(t)
      PROVE  SerialStep
  BY <1>1, ReportUnseen, HostSerial, Zenon
<1>2. CASE CommitParks
  BY <1>2, CommitShape, Zenon DEF CommitParks
<1>3. ASSUME NEW t \in Tasks, Begins(t) \/ Reindexes(t)
      PROVE  SerialStep
  BY <1>3, BeginsSerial, LoopUnseen, Zenon
<1>4. CASE CommitReport
  BY <1>4, ReportsAccepted, CommitsSerial, Zenon
<1>5. CASE SettleCommits
  <2>1. PICK t \in Tasks : t = Oldest /\ where[t] = "returned"
    BY <1>5, ReturnedPlace, Zenon DEF SettleCommits, RInv, Loop
  <2>2. ~Refused(t)
    <3>1. parallel_requirement(t) = Ready
      BY <1>5, <2>1, SMTT(30) DEF SettleCommits, Quiet, parallel_requirement, Recalled, Req
    <3> QED BY <3>1, SMTT(30) DEF Refused, Ready, Collection, IsNeed
  <2>3. Commits(t)
    BY <1>5, <2>1, <2>2, Zenon DEF Commits, SettleCommits, commit_parallel_report, loopVars, stopVars
  <2> QED BY <2>1, <2>3, CommitsSerial, Zenon
<1>6. CASE CoordinatorStep
  BY <1>2, <1>3, <1>4, <1>5, <1>6, LoopUnseen, StacksUnseen, AdvanceSerial,
     FailsWaitingSerial, DeadlockSerial, DiscardsSerial, Zenon
     DEF CoordinatorStep
<1> QED BY <1>1, <1>6, LoopUnseen, Zenon DEF Next, Returned

(* Whatever the workers do, guests that never pause a proc see a serial     *)
(* world.                                                                   *)
THEOREM SerialWorldImplemented == Spec /\ NoPauses => ImplementsSerialWorld
<1>1. Init /\ NoPauses => GInv /\ RInv
  BY GInvInit, RInvInit, Zenon
<1>2. GInv /\ RInv /\ [Next]_vars => (GInv /\ RInv)'
  BY GInvNext, RInvNext, Zenon
<1>3. Init => Serial!WorldInit
  BY SerialInit, Zenon
<1>4. GInv /\ RInv /\ [Next]_vars => [Serial!SerialNext]_(Serial!worldVars)
  BY StepSerial, Zenon DEF SerialStep
<1> QED BY <1>1, <1>2, <1>3, <1>4, PTL DEF Spec, ImplementsSerialWorld, Serial!SerialSpec

---------------------------------------------------------------------------
(* Commits are accepted.  P is the set of procs that guests pause or resume. *)

(* The machines that may be on top of the stack of t. *)
Own(t) == {t} \cup {h \in Held : Holder[h] = t}

(* What the guest of m asks for when those procs need no other machine. *)
Fit(P, m, r) ==
    /\ Allowed(m, r)
    /\ r.op \in {"pause", "resume"} => r.to \in P
    /\ m \in P => r.op \in {"recv", "host"}

(* Why a lease of m ends in such a world. *)
Stops(P, m, r) == r.op \in {"fresh", "spent", "recalled", "end"} \/ Fit(P, m, r)

SInv(P) ==
    /\ \A t \in Tasks : top[t] \in Own(t)
    /\ \A m \in Machines : \A i \in DOMAIN todo[m] : Fit(P, m, todo[m][i])
    /\ \A t \in Tasks : Stops(P, top[t], stop[t])
    /\ \A t \in Tasks : where[t] \in {"out", "returned"} \/ stop[t] \in {Fresh, Spent}
    /\ CommitsAccepted

LEMMA OwnApart ==
  ASSUME NEW t \in Tasks, NEW u \in Tasks
  PROVE  /\ Own(t) \cap Own(u) # {} => t = u
         /\ u \in Own(t) => t = u
<1>1. Held \cap Tasks = {}
  BY WorldAssumption, Zenon
<1> QED BY <1>1 DEF Own

LEMMA SharedStays ==
  ASSUME NEW P, SInv(P), UNCHANGED <<top, todo, stop>>, pc' # "invalid",
         \A t \in Tasks : where'[t] \in {"out", "returned"} \/ where[t] \notin {"out", "returned"}
  PROVE  SInv(P)'
BY Zenon DEF SInv, Stops, Fit, Allowed, CommitsAccepted, Own

LEMMA OneStackMoves ==
  ASSUME NEW P, SInv(P), NEW t \in Tasks, pc' # "invalid",
         \A u \in Tasks : u # t => top'[u] = top[u] /\ stop'[u] = stop[u] /\ where'[u] = where[u],
         top'[t] \in Own(t),
         \/ stop'[t] \in {Fresh, Spent}
         \/ where'[t] \in {"out", "returned"} /\ Stops(P, top'[t], stop'[t]),
         \A m \in Machines : \A i \in DOMAIN todo'[m] : Fit(P, m, todo'[m][i])
  PROVE  SInv(P)'
<1>1. ASSUME NEW u \in Tasks
      PROVE  /\ top'[u] \in Own(u) /\ Stops(P, top'[u], stop'[u])
             /\ where'[u] \in {"out", "returned"} \/ stop'[u] \in {Fresh, Spent}
  <2>1. CASE u = t
    BY <2>1, SMTT(30) DEF Stops, Fresh, Spent, Req
  <2>2. CASE u # t
    BY <2>2, Zenon DEF SInv
  <2> QED BY <2>1, <2>2, Zenon
<1> QED BY <1>1, Zenon DEF SInv, Stops, Fit, Allowed, CommitsAccepted, Own

LEMMA AskFits ==
  ASSUME GInv, NEW P, SInv(P), NEW m \in Machines, Asked(m)
  PROVE  /\ Stops(P, m, Ask(m)) /\ Ask(m) \in Request
         /\ \A n \in Machines : \A i \in DOMAIN todo'[n] : Fit(P, n, todo'[n][i])
<1>1. /\ todo \in [Machines -> Seq(Request)] /\ todo[m] \in Seq(Request)
      /\ \A n \in Machines : \A i \in DOMAIN todo[n] : Fit(P, n, todo[n][i])
  BY Zenon DEF GInv, Guests, WorldTypeOK, SInv
<1>2. /\ \A n \in Machines : n # m => todo'[n] = todo[n]
      /\ todo'[m] = IF todo[m] = <<>> THEN todo[m] ELSE Tail(todo[m])
  BY <1>1, Zenon DEF Asked
<1>3. Ask(m) \in Request
  BY AskTypes, Zenon
<1>4. CASE todo[m] = <<>>
  BY <1>1, <1>2, <1>3, <1>4, Zenon DEF Ask, Stops, Req
<1>5. CASE todo[m] # <<>>
  <2>1. /\ Ask(m) = todo[m][1] /\ 1 \in DOMAIN todo[m]
        /\ \A i \in DOMAIN Tail(todo[m]) : i + 1 \in DOMAIN todo[m] /\ Tail(todo[m])[i] = todo[m][i + 1]
    BY <1>1, <1>5 DEF Ask
  <2>2. \A i \in DOMAIN todo'[m] : Fit(P, m, todo'[m][i])
    BY <1>1, <1>2, <1>5, <2>1, Zenon
  <2> QED BY <1>1, <1>2, <1>3, <2>1, <2>2, Zenon DEF Stops
<1> QED BY <1>4, <1>5, Zenon

(* Only Vm.Run changes the top of a stack, and only the holder runs. *)
LEMMA OwnOperates ==
  ASSUME GInv, NEW P, SInv(P), NEW t \in Tasks, NEW r, Operates(t, r),
         r.op = "run" => r.to \in Held /\ Holder[r.to] = top[t]
  PROVE  /\ top'[t] \in Own(t)
         /\ \A u \in Tasks : u # t => top'[u] = top[u]
<1>0. top \in [Tasks -> Machines] /\ top[t] \in Own(t)
  BY Zenon DEF GInv, Guests, WorldTypeOK, SInv
<1>1. Does(t, top[t], r, InUse(r.to))
  BY Zenon DEF Operates
<1>2. CASE r.op = "run"
  <2>1. vm_run(t, r)
    BY <1>1, <1>2, Zenon DEF Does, proc_send, proc_recv, proc_done, proc_pause, proc_resume, collect,
       host_call, ends
  <2>2. top[t] = t
    <3>1. top[t] \in Tasks
      BY <1>2, WorldAssumption, Zenon
    <3> QED BY <1>0, <3>1, OwnApart, Zenon
  <2>3. r.to \in Own(t)
    BY <1>2, <2>2, Zenon DEF Own
  <2> QED BY <1>0, <2>1, <2>3, Zenon DEF vm_run
<1>3. CASE r.op # "run"
  <2>1. top' = top
    BY <1>1, <1>3, Zenon DEF Does, proc_send, proc_recv, proc_done, proc_pause, proc_resume, vm_run, collect,
       host_call, ends
  <2> QED BY <1>0, <2>1, Zenon
<1> QED BY <1>2, <1>3, Zenon

(* The heart of it: a report picked out of turn brings the machine that the *)
(* oldest one needs, and its own operation needs no other.                  *)
LEMMA PickedAccepted ==
  ASSUME GInv, NEW P, SInv(P), returned # <<>>, NEW i \in Candidates
  PROVE  i \in DOMAIN returned /\ ~Refused(returned[i])
<1>1. /\ returned \in Seq(Tasks) /\ IsInjective(returned) /\ DOMAIN returned = 1..Len(returned)
      /\ Len(returned) \in Nat \ {0}
  <2>1. returned \in Seq(Tasks) /\ IsInjective(returned)
    BY Zenon DEF GInv, Placed, Queue, SInv
  <2> QED BY <2>1
<1>2. i \in DOMAIN returned /\ 1 \in DOMAIN returned /\ Oldest = returned[1]
  BY <1>1, FirstReport DEF Candidates
<1>3. PICK t \in Tasks, u \in Tasks :
        /\ t = Oldest /\ u = returned[i]
        /\ where[t] = "returned" /\ where[u] = "returned"
  BY <1>2, ReturnedPlace, Zenon DEF SInv
<1>a. ASSUME NEW v \in Tasks, where[v] = "returned"
      PROVE  ~Away(top[v])
  <2>1. ASSUME NEW w \in Tasks, top[w] = top[v]
        PROVE  w = v
    BY <2>1, OwnApart DEF SInv
  <2> QED BY <1>a, <2>1, Zenon DEF Away, Active
<1>4. CASE OldestReady
  <2>1. i = 1
    BY <1>4, Zenon DEF Candidates
  <2> QED BY <1>2, <1>4, <2>1, SMTT(30) DEF OldestReady, OldestNeeds, Refused, IsNeed, Ready, Collection
<1>5. CASE Quiet(u)
  <2>1. parallel_requirement(u) = Ready
    BY <1>5, SMTT(30) DEF Quiet, Recalled, Req, parallel_requirement
  <2> QED BY <1>2, <1>3, <2>1, SMTT(30) DEF Refused, IsNeed, Ready, Collection
<1>6. CASE ~OldestReady /\ ~Quiet(u)
  <2>1. IsNeed(OldestNeeds) /\ top[u] = OldestNeeds.key /\ i # 1
    BY <1>1, <1>3, <1>6 DEF Candidates
  <2>2. u # t
    BY <1>1, <1>2, <1>3, <2>1, Zenon DEF IsInjective
  <2>3. ~Away(OldestNeeds.key)
    BY <1>3, <1>a, <2>1, Zenon
  <2>4. /\ stop[t].op \in {"run", "pause", "resume"} /\ OldestNeeds.key = stop[t].to
        /\ ~policy_requirement(top[t])
    BY <1>3, <2>1, <2>3, Zenon
       DEF OldestNeeds, parallel_requirement, perform_machine_requirement, machine_requirement, policy_requirement,
           machine_safepoint_requirement, operation_needs_idle_target, Needs, Ready, Collection, IsNeed
  <2>5. Fit(P, top[t], stop[t]) /\ top[t] \in Own(t) /\ top[u] \in Own(u)
    BY <2>4, Zenon DEF SInv, Stops
  <2>6. stop[t].op # "run"
    <3>1. SUFFICES ASSUME stop[t].op = "run"
                   PROVE  FALSE
      BY Zenon
    <3>2. top[u] \in Held /\ Holder[top[u]] = top[t]
      BY <2>1, <2>4, <2>5, <3>1, Zenon DEF Fit, Allowed
    <3>3. top[u] \notin Tasks /\ top[t] \in Tasks
      BY <3>2, WorldAssumption, Zenon
    <3>4. Holder[top[u]] = u
      BY <2>5, <3>3, Zenon DEF Own
    <3>5. top[t] = t
      BY <2>5, <3>3, OwnApart, Zenon
    <3> QED BY <2>2, <3>2, <3>4, <3>5, Zenon
  <2>7. top[u] \in P /\ top[u] \in Procs
    BY <2>1, <2>4, <2>5, <2>6, Zenon DEF Fit, Allowed
  <2>8. stop[u].op \in {"fresh", "spent", "recalled", "end", "recv", "host"}
    BY <2>7, Zenon DEF SInv, Stops, Fit
  <2>9. ~Away(Root)
    BY <1>3, <1>a, <2>4, Zenon DEF policy_requirement
  <2>10. parallel_requirement(u) = Ready
    BY <2>8, <2>9, Zenon DEF parallel_requirement, policy_requirement, perform_machine_requirement
  <2> QED BY <1>2, <1>3, <2>10, SMTT(30) DEF Refused, IsNeed, Ready, Collection
<1> QED BY <1>4, <1>5, <1>6, Zenon

LEMMA CommitsShared ==
  ASSUME GInv, NEW P, SInv(P), NEW t \in Tasks, where[t] = "returned", ~Refused(t),
         commit_parallel_report(t)
  PROVE  SInv(P)'
<1>0. /\ where \in [Tasks -> Places] /\ stop \in [Tasks -> Request \cup {Fresh, Spent, Recalled}]
      /\ where' = [where EXCEPT ![t] = "cont"] /\ pc' = pc
      /\ stop' = [stop EXCEPT ![t] = IF @ = Recalled THEN Spent ELSE Fresh]
      /\ todo' = todo
  BY Zenon DEF GInv, Placed, Guests, commit_parallel_report, worldVars, loopVars
<1>1. stop'[t] \in {Fresh, Spent} /\ pc' # "invalid"
  BY <1>0, Zenon DEF SInv, CommitsAccepted
<1>2. top'[t] \in Own(t) /\ \A u \in Tasks : u # t => top'[u] = top[u]
  <2>1. CASE Quiet(t)
    BY <2>1, Zenon DEF commit_parallel_report, worldVars, SInv
  <2>2. CASE ~Quiet(t)
    <3>1. Operates(t, stop[t])
      BY <2>2, Zenon DEF commit_parallel_report
    <3>2. stop[t].op = "run" => stop[t].to \in Held /\ Holder[stop[t].to] = top[t]
      BY Zenon DEF SInv, Stops, Fit, Allowed
    <3> QED BY <3>1, <3>2, OwnOperates, Zenon
  <2> QED BY <2>1, <2>2, Zenon
<1>3. \A m \in Machines : \A i \in DOMAIN todo'[m] : Fit(P, m, todo'[m][i])
  BY <1>0, Zenon DEF SInv
<1> QED BY <1>0, <1>1, <1>2, <1>3, OneStackMoves, Zenon

LEMMA ReportsShared ==
  ASSUME GInv, NEW P, SInv(P), CommitReport \/ SettleCommits
  PROVE  SInv(P)'
<1>1. CASE CommitReport
  <2>1. returned # <<>> /\ \E i \in Candidates : commit_parallel_report(returned[i])
    BY <1>1, Zenon DEF CommitReport
  <2>2. PICK i \in Candidates : commit_parallel_report(returned[i])
    BY <2>1, Zenon
  <2>3. i \in DOMAIN returned /\ ~Refused(returned[i])
    BY <2>1, PickedAccepted, Zenon
  <2>4. returned[i] \in Tasks /\ where[returned[i]] = "returned"
    BY <2>3, ReturnedPlace, Zenon DEF SInv
  <2> QED BY <2>2, <2>3, <2>4, CommitsShared, Zenon
<1>2. CASE SettleCommits
  <2>1. Oldest \in Tasks /\ where[Oldest] = "returned" /\ Quiet(Oldest)
    BY <1>2, ReturnedPlace, Zenon DEF SettleCommits, SInv
  <2>2. parallel_requirement(Oldest) = Ready
    BY <2>1, SMTT(30) DEF Quiet, Recalled, Req, parallel_requirement
  <2>3. ~Refused(Oldest)
    BY <2>2, SMTT(30) DEF Refused, IsNeed, Ready, Collection
  <2> QED BY <1>2, <2>1, <2>3, CommitsShared, Zenon DEF SettleCommits
<1> QED BY <1>1, <1>2, Zenon

LEMMA WorkerReportsShared ==
  ASSUME GInv, NEW P, SInv(P), NEW t \in Tasks, WorkerReports(t)
  PROVE  SInv(P)'
<1>0. /\ where'[t] = "out" /\ top' = top /\ where' = where /\ pc' = pc /\ top[t] \in Machines
      /\ stop \in [Tasks -> Request \cup {Fresh, Spent, Recalled}]
      /\ top[t] \in Own(t) /\ pc # "invalid"
  BY Zenon DEF WorkerReports, GInv, Guests, WorldTypeOK, SInv, CommitsAccepted, loopVars
<1>1. CASE stop' = [stop EXCEPT ![t] = Ask(top[t])] /\ Asked(top[t])
  <2>1. /\ Stops(P, top[t], Ask(top[t]))
        /\ \A n \in Machines : \A i \in DOMAIN todo'[n] : Fit(P, n, todo'[n][i])
    BY <1>0, <1>1, AskFits, Zenon
  <2>2. Stops(P, top'[t], stop'[t]) /\ \A u \in Tasks : u # t => stop'[u] = stop[u]
    BY <1>0, <1>1, <2>1, Zenon
  <2> QED BY <1>0, <2>1, <2>2, OneStackMoves, Zenon
<1>2. CASE stop' = [stop EXCEPT ![t] = Recalled] /\ UNCHANGED todo
  <2>1. Stops(P, top'[t], stop'[t]) /\ \A u \in Tasks : u # t => stop'[u] = stop[u]
    BY <1>0, <1>2, Zenon DEF Stops, Recalled, Req
  <2>2. \A n \in Machines : \A i \in DOMAIN todo'[n] : Fit(P, n, todo'[n][i])
    BY <1>2, Zenon DEF SInv
  <2> QED BY <1>0, <2>1, <2>2, OneStackMoves, Zenon
<1> QED BY <1>1, <1>2, Zenon DEF WorkerReports

(* The stack of cur, or of a task that begins its slice. *)
LEMMA AdvanceShared ==
  ASSUME GInv, NEW P, SInv(P), AdvanceCompletes \/ AdvanceAnswers \/ InlinePerforms \/ InlineYields
  PROVE  SInv(P)'
<1>0. /\ cur \in Tasks /\ where[cur] = "cur" /\ stop[cur] \in {Fresh, Spent} /\ top[cur] \in Machines
      /\ where' = where /\ pc' # "invalid" /\ top \in [Tasks -> Machines]
      /\ stop \in [Tasks -> Request \cup {Fresh, Spent, Recalled}]
  BY Zenon DEF GInv, Placed, CurPlace, Guests, WorldTypeOK, SInv, Advancing, Goto, loopVars, CommitsAccepted,
     AdvanceCompletes, AdvanceAnswers, InlinePerforms, InlineYields
<1>1. todo' = todo => \A n \in Machines : \A i \in DOMAIN todo'[n] : Fit(P, n, todo'[n][i])
  BY Zenon DEF SInv
<1>2. CASE AdvanceCompletes
  <2>1. request[Top].op # "run"
    BY <1>0, Zenon DEF Top, GInv, Guests, WorldTypeOK
  <2>2. top'[cur] \in Own(cur) /\ \A u \in Tasks : u # cur => top'[u] = top[u]
    BY <1>0, <1>2, <2>1, OwnOperates, Zenon DEF AdvanceCompletes
  <2> QED BY <1>0, <1>1, <1>2, <2>2, OneStackMoves, Zenon DEF AdvanceCompletes
<1>3. CASE AdvanceAnswers
  <2>1. top'[cur] \in Own(cur) /\ \A u \in Tasks : u # cur => top'[u] = top[u]
    BY <1>0, <1>3, Zenon DEF AdvanceAnswers, Own
  <2> QED BY <1>0, <1>1, <1>3, <2>1, OneStackMoves, Zenon DEF AdvanceAnswers
<1>4. CASE InlinePerforms
  <2>1. /\ Stops(P, Top, Ask(Top))
        /\ \A n \in Machines : \A i \in DOMAIN todo'[n] : Fit(P, n, todo'[n][i])
    BY <1>0, <1>4, AskFits, Zenon DEF InlinePerforms, Top
  <2>2. top'[cur] \in Own(cur) /\ \A u \in Tasks : u # cur => top'[u] = top[u]
    BY <1>0, <1>4, <2>1, OwnOperates, Zenon DEF InlinePerforms, Top, Stops, Fit, Allowed
  <2> QED BY <1>0, <1>4, <2>1, <2>2, OneStackMoves, Zenon DEF InlinePerforms
<1>5. CASE InlineYields
  <2>1. stop'[cur] = Spent /\ \A u \in Tasks : u # cur => stop'[u] = stop[u]
    BY <1>0, <1>5, Zenon DEF InlineYields
  <2>2. UNCHANGED <<top, todo>> /\ top[cur] \in Own(cur)
    BY <1>0, <1>5, Zenon DEF InlineYields, worldVars, SInv
  <2> QED BY <1>0, <1>1, <2>1, <2>2, OneStackMoves, Zenon
<1> QED BY <1>2, <1>3, <1>4, <1>5, Zenon

LEMMA BeginsShared ==
  ASSUME GInv, NEW P, SInv(P), NEW t \in Tasks, Begins(t)
  PROVE  SInv(P)'
<1>0. /\ where \in [Tasks -> Places] /\ stop \in [Tasks -> Request \cup {Fresh, Spent, Recalled}]
      /\ where' = [where EXCEPT ![t] = "cur"] /\ stop' = [stop EXCEPT ![t] = Fresh] /\ pc' = "advance"
      /\ todo' = todo /\ t \in Machines
  BY OperationTypes, Zenon DEF Begins, Takes, GInv, Placed, Guests, worldVars
<1>1. top'[t] \in Own(t) /\ \A u \in Tasks : u # t => top'[u] = top[u]
  <2>1. CASE UNCHANGED worldVars
    BY <2>1, Zenon DEF worldVars, SInv
  <2>2. CASE Operates(t, request[t])
    <3>1. request[t].op # "run"
      BY <1>0, Zenon DEF GInv, Guests, WorldTypeOK
    <3> QED BY <2>2, <3>1, OwnOperates, Zenon
  <2> QED BY <2>1, <2>2, Zenon DEF Begins
<1>2. \A m \in Machines : \A i \in DOMAIN todo'[m] : Fit(P, m, todo'[m][i])
  BY <1>0, Zenon DEF SInv
<1>3. stop'[t] = Fresh /\ \A u \in Tasks : u # t => stop'[u] = stop[u] /\ where'[u] = where[u]
  BY <1>0, Zenon
<1> QED BY <1>0, <1>1, <1>2, <1>3, OneStackMoves, Zenon

LEMMA SettleDiscardsShared ==
  ASSUME GInv, NEW P, SInv(P), SettleDiscards
  PROVE  SInv(P)'
<1>1. PICK t \in Tasks : t = Oldest
  BY ReturnedPlace, Zenon DEF SettleDiscards, SInv
<1>2. /\ stop'[t] = Fresh /\ top'[t] = t /\ pc' = "finish" /\ todo' = todo
      /\ \A u \in Tasks : u # t => top'[u] = top[u] /\ stop'[u] = stop[u] /\ where'[u] = where[u]
  BY <1>1, Zenon DEF SettleDiscards, GInv, Guests, WorldTypeOK, Placed
<1>3. \A m \in Machines : \A i \in DOMAIN todo'[m] : Fit(P, m, todo'[m][i])
  BY <1>2, Zenon DEF SInv
<1>4. top'[t] \in Own(t)
  BY <1>2, Zenon DEF Own
<1> QED BY <1>2, <1>3, <1>4, OneStackMoves, Zenon

(* The other steps leave requests alone, and put no report away. *)
LEMMA TakesUpShared ==
  ASSUME GInv, NEW P, SInv(P), CommitParks \/ Continues \/ SettleParks
  PROVE  SInv(P)'
<1>1. PICK i \in DOMAIN continuations : where' = [where EXCEPT ![continuations[i]] = "cur"]
  BY FirstOut, Zenon DEF CommitParks, Retained, Continues, SettleParks, Takes
<1>2. where[continuations[i]] = "cont"
  <2>1. Queue(continuations, At("cont"))
    BY Zenon DEF GInv, Placed
  <2>2. continuations[i] \in At("cont")
    BY <2>1, QueueLeaves, Zenon
  <2> QED BY <2>2, Zenon DEF At
<1>3. UNCHANGED <<top, todo, stop>> /\ pc' = "advance"
  BY Zenon DEF CommitParks, Continues, SettleParks, Takes, worldVars
<1>4. \A t \in Tasks : where'[t] \in {"out", "returned"} \/ where[t] \notin {"out", "returned"}
  BY <1>1, <1>2, Zenon DEF GInv, Placed
<1> QED BY <1>3, <1>4, SharedStays, Zenon

LEMMA StacksShared ==
  ASSUME GInv, NEW P, SInv(P),
         \/ AdvanceBlocks \/ AdvanceWaits \/ AdvanceEnds \/ AdvanceYields \/ AdvanceExecutes
         \/ drain_worker_reports
  PROVE  SInv(P)'
<1>1. UNCHANGED <<top, todo, stop>> /\ pc' # "invalid"
  BY Zenon DEF AdvanceBlocks, AdvanceWaits, AdvanceEnds, AdvanceYields, AdvanceExecutes, Rests, Goto, Release,
     drain_worker_reports, worldVars, loopVars, SInv, CommitsAccepted
<1>2. CASE drain_worker_reports
  <2>1. \A t \in Tasks : where'[t] = where[t] \/ where'[t] = "returned"
    BY <1>2, Zenon DEF drain_worker_reports, GInv, Placed
  <2> QED BY <1>1, <2>1, SharedStays, Zenon
<1>3. CASE ~drain_worker_reports
  <2>1. where[cur] = "cur" /\ \A t \in Tasks : t # cur => where'[t] = where[t]
    BY <1>3, Zenon DEF AdvanceBlocks, AdvanceWaits, AdvanceEnds, AdvanceYields, AdvanceExecutes, Rests, Advancing,
       GInv, Placed, CurPlace
  <2>2. \A t \in Tasks : where'[t] \in {"out", "returned"} \/ where[t] \notin {"out", "returned"}
    BY <2>1, Zenon
  <2> QED BY <1>1, <2>2, SharedStays, Zenon
<1> QED BY <1>2, <1>3, Zenon

LEMMA LoopShared ==
  ASSUME GInv, NEW P, SInv(P),
         \/ UNCHANGED vars \/ Returned \/ LoopStarts \/ CommitsEnd \/ finish_slice
         \/ RootStops \/ Quiesces \/ Dispatches \/ DispatchEnds \/ Parks \/ Unparks
         \/ reconcile_parallel_states \/ WaitsForHost \/ FailsWaiting \/ DeclaresDeadlock \/ Settled
         \/ \E t \in Tasks : HostCompletes(t) \/ Reindexes(t)
  PROVE  SInv(P)'
<1>1. UNCHANGED <<top, todo, stop, where>>
  BY Zenon DEF vars, Returned, LoopStarts, CommitsEnd, finish_slice, RootStops, Quiesces, Dispatches, DispatchEnds,
     Parks, Unparks, reconcile_parallel_states, WaitsForHost, FailsWaiting, DeclaresDeadlock, FailTasks, Settled,
     HostCompletes, Reindexes, worldVars
<1>2. pc' # "invalid"
  <2>1. pc # "invalid" /\ back # "invalid"
    BY Zenon DEF SInv, CommitsAccepted, GInv, Points
  <2> QED BY <2>1, Zenon
          DEF vars, loopVars, Returned, LoopStarts, CommitsEnd, AfterCommits, finish_slice, Release, RootStops,
              Quiesces, Dispatches, DispatchEnds, Parks, Unparks, reconcile_parallel_states, WaitsForHost,
              FailsWaiting, DeclaresDeadlock, Settled, HostCompletes, Reindexes, Goto
<1> QED BY <1>1, <1>2, SharedStays, Zenon

LEMMA SharedNext ==
  ASSUME GInv, NEW P, SInv(P), [Next]_vars
  PROVE  SInv(P)'
<1>1. ASSUME NEW t \in Tasks, WorkerReports(t) \/ HostCompletes(t) \/ Begins(t) \/ Reindexes(t)
      PROVE  SInv(P)'
  BY <1>1, WorkerReportsShared, BeginsShared, LoopShared, Zenon
<1>2. CASE CoordinatorStep
  BY <1>1, <1>2, ReportsShared, AdvanceShared, SettleDiscardsShared, TakesUpShared, StacksShared, LoopShared,
     Zenon DEF CoordinatorStep
<1> QED BY <1>1, <1>2, LoopShared, Zenon DEF Next

LEMMA SharedInit ==
  ASSUME Init, PausesReceivers
  PROVE  \E P \in SUBSET Procs : SInv(P)
<1> DEFINE Q == {u \in Procs : \E m \in Machines : \E i \in DOMAIN todo[m] :
                   todo[m][i].op \in {"pause", "resume"} /\ todo[m][i].to = u}
<1>1. /\ todo \in Programs /\ Procs \subseteq Machines
      /\ \A m \in Machines : \A i \in DOMAIN todo[m] : Allowed(m, todo[m][i])
  BY WorldAssumption, OperationTypes, Zenon DEF Init, WorldInit
<1>2. ASSUME NEW m \in Machines, NEW i \in DOMAIN todo[m]
      PROVE  Fit(Q, m, todo[m][i])
  <2>1. todo[m][i].op \in {"pause", "resume"} => todo[m][i].to \in Q
    BY <1>1, Zenon DEF Allowed
  <2>2. m \in Q => todo[m][i].op \in {"recv", "host"}
    BY <1>1, Zenon DEF PausesReceivers
  <2> QED BY <1>1, <2>1, <2>2, Zenon DEF Fit
<1> HIDE DEF Q
<1>3. SInv(Q)
  BY <1>2, Zenon DEF Init, WorldInit, SInv, Own, Stops, Fresh, Req, CommitsAccepted
<1>4. Q \in SUBSET Procs
  BY Zenon DEF Q
<1> QED BY <1>3, <1>4, Zenon

LEMMA SafeNext ==
  ASSUME GInv /\ \E P \in SUBSET Procs : SInv(P), [Next]_vars
  PROVE  (GInv /\ \E P \in SUBSET Procs : SInv(P))'
<1>1. GInv'
  BY GInvNext, Zenon
<1>2. PICK P \in SUBSET Procs : SInv(P)
  BY Zenon
<1>3. SInv(P)'
  BY <1>2, SharedNext, Zenon
<1> QED BY <1>1, <1>3, Zenon

(* For every world whose guests pause and resume only procs that need no    *)
(* other machine, commit_parallel_report refuses no report: the coordinator *)
(* has recalled what the operation needs, in whatever order it commits.     *)
THEOREM NoCommitRefused == Spec => []NeverRefused
<1> DEFINE Inv == GInv /\ \E P \in SUBSET Procs : SInv(P)
<1>1. Init => ~PausesReceivers \/ Inv
  BY GInvInit, SharedInit, Zenon
<1>2. (~PausesReceivers \/ Inv) /\ [Next]_vars => (~PausesReceivers \/ Inv)'
  BY SafeNext, Zenon DEF PausesReceivers
<1>3. ~PausesReceivers \/ Inv => NeverRefused
  BY Zenon DEF SInv, NeverRefused
<1> QED BY <1>1, <1>2, <1>3, PTL DEF Spec

(* In such a world every stack is in one place, always: no report and no    *)
(* continuation is lost, queued twice, or queued beside a lease.            *)
THEOREM StacksAlwaysInOnePlace == Spec /\ PausesReceivers => []OnePlace
<1> DEFINE Inv == GInv /\ \E P \in SUBSET Procs : SInv(P)
<1>1. Init /\ PausesReceivers => Inv
  BY GInvInit, SharedInit, Zenon
<1>2. Inv /\ [Next]_vars => Inv'
  BY SafeNext, Zenon
<1>3. Inv => OnePlace
  BY GInvImplies, Zenon DEF SInv
<1> QED BY <1>1, <1>2, <1>3, PTL DEF Spec
============================================================================
