-------------------------- MODULE WorkerPoolProofs --------------------------
(***************************************************************************)
(* For any number of workers, coordinators and jobs: the pool never loses  *)
(* or duplicates a lease, a recall is never forgotten, and no wake-up is   *)
(* lost.                                                                   *)
(***************************************************************************)
EXTENDS WorkerPool, FiniteSetTheorems, TLAPS

Elems(q) == {q[i] : i \in DOMAIN q}
Once(q) == \A i, k \in DOMAIN q : q[i] = q[k] => i = k

(* The queue names a job once. *)
QueueOnce == Once(queue)

(* A worker's locals match its place in worker_loop. *)
WorkerLocals ==
  \A w \in Workers :
    /\ held[w] # NoJob <=> wpc[w] \in {"turn", "report"}
    /\ wpc[w] = "turn" => running[w] = held[w]
    /\ stranded[w] # {} => wpc[w] = "strand"

CoordLocals ==
  \A c \in Coordinators :
    /\ drawn[c] # {} => cpc[c] \in {"recalled", "aborting"}
    /\ asked[c] \subseteq active[c]
    /\ active[c] \subseteq Issued

(* No two places hold one job. *)
HeldApart ==
  \A w \in Workers :
    /\ held[w] \notin Queued \cup reported
    /\ \A v \in Workers : held[v] = held[w] /\ held[w] # NoJob => v = w
    /\ \A v \in Workers : held[w] \notin stranded[v]
    /\ \A c \in Coordinators : held[w] \notin drawn[c]

StrandedApart ==
  \A w \in Workers : \A j \in stranded[w] :
    /\ j \notin Queued \cup reported
    /\ \A v \in Workers : j \in stranded[v] => v = w
    /\ \A c \in Coordinators : j \notin drawn[c]

DrawnApart ==
  \A c \in Coordinators : \A j \in drawn[c] :
    /\ j \notin Queued \cup reported
    /\ \A d \in Coordinators : j \in drawn[d] => d = c

QueuedApart == Queued \cap reported = {}

(* Every issued job has a place, and only issued jobs have one. *)
Somewhere(j) ==
  \/ j \in Queued \cup reported
  \/ \E w \in Workers : held[w] = j \/ j \in stranded[w]
  \/ \E c \in Coordinators : j \in drawn[c]

Covered == \A j \in Jobs : j \in Issued <=> Somewhere(j)

Apart == HeldApart /\ StrandedApart /\ DrawnApart /\ QueuedApart

IInv ==
  /\ TypeOK
  /\ QueueOnce
  /\ WorkerLocals
  /\ CoordLocals
  /\ Apart
  /\ Covered
  /\ RecallSticks

-----------------------------------------------------------------------------
(***************************************************************************)
(* Lemmas about the queue operations: pop_front, push_back and the split   *)
(* that recall makes.                                                      *)
(***************************************************************************)
LEMMA PopFront ==
  ASSUME NEW q \in Seq(Jobs), q # <<>>
  PROVE  /\ Head(q) \in Elems(q)
         /\ Head(q) \in Jobs
         /\ Tail(q) \in Seq(Jobs)
         /\ Elems(q) = Elems(Tail(q)) \cup {Head(q)}
         /\ Once(q) => Once(Tail(q)) /\ Head(q) \notin Elems(Tail(q))
<1>1. /\ Len(q) \in Nat /\ Len(q) > 0 /\ DOMAIN q = 1..Len(q)
      /\ Head(q) = q[1]
  OBVIOUS
<1>2. /\ Tail(q) \in Seq(Jobs) /\ Len(Tail(q)) = Len(q) - 1
      /\ DOMAIN Tail(q) = 1..(Len(q) - 1)
      /\ \A i \in 1..(Len(q) - 1) : Tail(q)[i] = q[i + 1]
  BY <1>1
<1>3. 1 \in DOMAIN q
  BY <1>1
<1>4. Head(q) \in Elems(q) /\ Head(q) \in Jobs
  BY <1>1, <1>3 DEF Elems
<1>5. ASSUME NEW j \in Elems(q) PROVE j \in Elems(Tail(q)) \cup {Head(q)}
  <2>1. PICK i \in 1..Len(q) : j = q[i]
    BY <1>1, <1>5, Zenon DEF Elems
  <2>2. CASE i = 1
    BY <2>1, <2>2, <1>1, Zenon
  <2>3. CASE i # 1
    <3>1. i - 1 \in 1..(Len(q) - 1) /\ Tail(q)[i - 1] = q[i]
      BY <1>1, <1>2, <2>1, <2>3
    <3> QED BY <3>1, <2>1, <1>2, Zenon DEF Elems
  <2> QED BY <2>2, <2>3, Zenon
<1>6. ASSUME NEW j \in Elems(Tail(q)) PROVE \E i \in 2..Len(q) : j = q[i]
  <2>1. PICK i \in 1..(Len(q) - 1) : j = q[i + 1]
    BY <1>2, <1>6, Zenon DEF Elems
  <2>2. i + 1 \in 2..Len(q)
    BY <1>1, <2>1
  <2> QED BY <2>1, <2>2, Zenon
<1>7. Elems(q) = Elems(Tail(q)) \cup {Head(q)}
  <2>1. Elems(Tail(q)) \subseteq Elems(q)
    BY <1>6, <1>1 DEF Elems
  <2> QED BY <2>1, <1>4, <1>5, Zenon
<1>8. ASSUME Once(q) PROVE Once(Tail(q)) /\ Head(q) \notin Elems(Tail(q))
  <2>1. Once(Tail(q))
    BY <1>8, <1>1, <1>2 DEF Once
  <2>2. Head(q) \notin Elems(Tail(q))
    BY <1>8, <1>1, <1>3, <1>6 DEF Once
  <2> QED BY <2>1, <2>2, Zenon
<1> QED BY <1>2, <1>4, <1>7, <1>8, Zenon

LEMMA PushBack ==
  ASSUME NEW q \in Seq(Jobs), NEW j \in Jobs
  PROVE  /\ Append(q, j) \in Seq(Jobs)
         /\ Elems(Append(q, j)) = Elems(q) \cup {j}
         /\ Once(q) /\ j \notin Elems(q) => Once(Append(q, j))
<1> DEFINE r == Append(q, j)
<1>1. /\ r \in Seq(Jobs) /\ Len(q) \in Nat
      /\ DOMAIN q = 1..Len(q) /\ DOMAIN r = 1..(Len(q) + 1)
      /\ \A i \in 1..Len(q) : r[i] = q[i]
      /\ r[Len(q) + 1] = j
  OBVIOUS
<1>2. Elems(r) = Elems(q) \cup {j}
  <2>1. ASSUME NEW x \in Elems(r) PROVE x \in Elems(q) \cup {j}
    <3>1. PICK i \in 1..(Len(q) + 1) : x = r[i]
      BY <1>1, <2>1, Zenon DEF Elems
    <3>2. i \in 1..Len(q) \/ i = Len(q) + 1
      BY <1>1, <3>1
    <3> QED BY <1>1, <3>1, <3>2, Zenon DEF Elems
  <2>2. ASSUME NEW x \in Elems(q) \cup {j} PROVE x \in Elems(r)
    <3>1. CASE x = j
      <4>1. Len(q) + 1 \in DOMAIN r
        BY <1>1
      <4> QED BY <1>1, <3>1, <4>1, Zenon DEF Elems
    <3>2. CASE x \in Elems(q)
      <4>1. PICK i \in 1..Len(q) : x = q[i]
        BY <1>1, <3>2, Zenon DEF Elems
      <4>2. i \in DOMAIN r /\ r[i] = x
        BY <1>1, <4>1
      <4> QED BY <4>2, Zenon DEF Elems
    <3> QED BY <2>2, <3>1, <3>2, Zenon
  <2> QED BY <2>1, <2>2, Zenon
<1>3. ASSUME Once(q), j \notin Elems(q) PROVE Once(r)
  <2> SUFFICES ASSUME NEW i \in DOMAIN r, NEW k \in DOMAIN r, r[i] = r[k]
               PROVE  i = k
    BY Zenon DEF Once
  <2>1. \A m \in 1..Len(q) : r[m] \in Elems(q)
    BY <1>1, Zenon DEF Elems
  <2> QED BY <1>1, <1>3, <2>1 DEF Once
<1> HIDE DEF r
<1> QED BY <1>1, <1>2, <1>3, Zenon DEF r

LEMMA SplitByRecall ==
  ASSUME NEW q \in Seq(Jobs), NEW S, NEW r \in Retained(q, S), Once(q)
  PROVE  /\ r \in Seq(Jobs)
         /\ Elems(r) = Elems(q) \ S
         /\ Once(r)
<1> DEFINE kept == {i \in DOMAIN q : q[i] \notin S}
           n == Cardinality(kept)
           T == {q[i] : i \in kept}
           At(i) == Cardinality({k \in kept : k <= i})
<1>1. DOMAIN q = 1..Len(q) /\ Len(q) \in Nat
  OBVIOUS
<1>2. IsFiniteSet(DOMAIN q)
  BY <1>1, FS_Interval
<1>3. IsFiniteSet(kept) /\ n \in Nat
  BY <1>2, FS_Subset, FS_CardinalityType, Zenon
<1>4. r \in [1..n -> T] /\ \A i \in kept : r[At(i)] = q[i]
  BY Zenon DEF Retained
<1>5. ASSUME NEW i \in kept PROVE At(i) \in 1..n
  <2> DEFINE below == {k \in kept : k <= i}
  <2>1. IsFiniteSet(below) /\ Cardinality(below) \in Nat
        /\ Cardinality(below) <= n
    BY <1>3, FS_Subset, FS_CardinalityType, Zenon
  <2>2. i \in below
    BY <1>1, <1>5
  <2>3. Cardinality(below) # 0
    BY <2>1, <2>2, FS_EmptySet, Zenon
  <2> QED BY <2>1, <2>3, <1>3
<1>6. T \subseteq Jobs
  BY <1>1
<1>7. r \in Seq(Jobs) /\ DOMAIN r = 1..n
  <2> HIDE DEF n, T
  <2>1. r \in [1..n -> Jobs]
    BY <1>4, <1>6, Zenon
  <2> QED BY <1>3, <2>1
<1>8. Elems(r) = T
  BY <1>4, <1>5, <1>7, Zenon DEF Elems
<1>9. T = Elems(q) \ S
  BY Zenon DEF Elems
<1>10. Once(r)
  <2> DEFINE g == [i \in kept |-> q[i]]
  <2>1. g \in Bijection(kept, T)
    BY <1>1, Zenon DEF Bijection, Injection, Surjection, Once, IsInjective
  <2>2. IsFiniteSet(T) /\ Cardinality(T) = n
    BY <1>3, <2>1, FS_Bijection, Zenon DEF ExistsBijection
  <2>3. IsFiniteSet(1..n) /\ Cardinality(1..n) = n
    BY <1>3, FS_Interval
  <2>4. r \in Surjection(1..n, T)
    BY <1>4, <1>5, Zenon DEF Surjection
  <2>5. r \in Injection(1..n, T)
    BY <2>2, <2>3, <2>4, FS_SurjSameCardinalityImpliesInj, Zenon
  <2> QED BY <2>5, <1>7, Zenon DEF Injection, Once, IsInjective
<1> QED BY <1>7, <1>8, <1>9, <1>10, Zenon

-----------------------------------------------------------------------------
LEMMA NoJobNotJob == NoJob \notin Jobs
BY NoJobIsOther, MaxJobsIsNat DEF Jobs

LEMMA InitIInv == Init => IInv
<1> SUFFICES ASSUME Init PROVE IInv
  BY Zenon
<1>1. Queued = {} /\ Issued = {}
  BY DEF Init, Queued, Issued
<1>2. TypeOK
  <2>1. PoolTypes
    <3>1. <<>> \in Seq(Jobs) /\ 1 \in 1..(MaxJobs + 1)
      BY MaxJobsIsNat
    <3> QED BY <3>1, Zenon DEF Init, PoolTypes
  <2>2. WorkTypes /\ CoordTypes /\ ChanTypes
    BY Zenon DEF Init, WorkTypes, CoordTypes, ChanTypes
  <2> QED BY <2>1, <2>2, Zenon DEF TypeOK
<1>3. QueueOnce /\ WorkerLocals /\ CoordLocals
  BY DEF Init, QueueOnce, Once, WorkerLocals, CoordLocals
<1>4. Apart
  BY <1>1, Zenon DEF Init, Apart, HeldApart, StrandedApart, DrawnApart, QueuedApart
<1>5. Covered
  BY <1>1, NoJobNotJob, Zenon DEF Init, Covered, Somewhere
<1>6. RecallSticks
  BY Zenon DEF Init, RecallSticks
<1> QED BY <1>2, <1>3, <1>4, <1>5, <1>6, Zenon DEF IInv

(* The queue's elements, under its own name. *)
LEMMA QueuedIsElems == Queued = Elems(queue)
BY Zenon DEF Queued, Elems

(***************************************************************************)
(* Type correctness, action by action.                                     *)
(***************************************************************************)
LEMMA SendTypes ==
  ASSUME TypeOK, NEW S \in SUBSET Jobs, NEW kind \in {"Report", "Failed"},
         Send(S, kind)
  PROVE  /\ inbox' \in [Coordinators ->
                          SUBSET [job : Jobs, kind : {"Report", "Failed"}]]
         /\ reported' \subseteq Jobs
BY DEF TypeOK, ChanTypes, Send, Event

LEMMA WorkerTypes ==
  ASSUME IInv, NEW w \in Workers, WorkerStep(w) \/ SpuriousWake(w)
  PROVE  TypeOK'
<1>0. TypeOK /\ WorkerLocals
  BY Zenon DEF IInv
<1> USE <1>0 DEF WorkerAt
<1> USE DEF TypeOK, PoolTypes, WorkTypes, CoordTypes, ChanTypes
<1>1. CASE TakeJob(w)
  <2>1. Head(queue) \in Jobs /\ Tail(queue) \in Seq(Jobs)
    BY <1>1, PopFront, Zenon DEF TakeJob
  <2> QED BY <1>1, <2>1, Zenon DEF TakeJob, FlagFor, coordVars, chanVars
<1>2. CASE TakeJobShutdown(w)
  BY <1>2, Zenon DEF TakeJobShutdown, coordVars, chanVars
<1>3. CASE TakeJobWait(w)
  BY <1>3, Zenon DEF TakeJobWait, coordVars, chanVars
<1>4. CASE ContinueRecalled(w)
  BY <1>4, Zenon DEF ContinueRecalled, coordVars, chanVars
<1>5. CASE ContinueRotate(w)
  <2>1. Head(queue) \in Jobs /\ Tail(queue) \in Seq(Jobs)
    BY <1>5, PopFront, Zenon DEF ContinueRotate
  <2>2. held[w] \in Jobs
    BY <1>5, Zenon DEF ContinueRotate, WorkerLocals
  <2>3. queue' \in Seq(Jobs)
    BY <1>5, <2>1, <2>2, PushBack, Zenon DEF ContinueRotate
  <2> QED BY <1>5, <2>1, <2>3, Zenon DEF ContinueRotate, FlagFor, coordVars, chanVars
<1>6. CASE ContinueLocal(w)
  BY <1>6, Zenon DEF ContinueLocal, workVars, coordVars, chanVars
<1>7. CASE TurnReports(w)
  BY <1>7, Zenon DEF TurnReports, coordVars, chanVars
<1>8. CASE SendReport(w)
  <2>1. held[w] \in Jobs
    BY <1>8, Zenon DEF SendReport, WorkerLocals
  <2>2. ChanTypes'
    BY <1>8, <2>1, SendTypes, Zenon DEF SendReport
  <2> QED BY <1>8, <2>2, Zenon DEF SendReport, coordVars
<1>9. CASE WakeWaiters(w)
  BY <1>9, Zenon DEF WakeWaiters, WakeAll, AllAwake, poolVars, coordVars
<1>10. CASE TurnPanics(w)
  <2>1. held[w] \in Jobs
    BY <1>10, Zenon DEF TurnPanics, WorkerLocals
  <2>2. ChanTypes'
    BY <1>10, <2>1, SendTypes, Zenon DEF TurnPanics
  <2> QED BY <1>10, <2>2, Zenon DEF TurnPanics, poolVars, coordVars
<1>11. CASE MarkWorkerFailed(w)
  <2>1. Queued \subseteq Jobs
    BY DEF Queued
  <2>2. queue' \in Seq(Jobs) /\ stranded' \in [Workers -> SUBSET Jobs]
    <3>1. CASE AnyLive(live')
      BY <1>11, <3>1, Zenon DEF MarkWorkerFailed
    <3>2. CASE ~AnyLive(live')
      <4>1. <<>> \in Seq(Jobs)
        OBVIOUS
      <4> QED BY <1>11, <2>1, <3>2, <4>1, SMTT(30) DEF MarkWorkerFailed
    <3> QED BY <3>1, <3>2, Zenon
  <2> QED BY <1>11, <2>2, Zenon DEF MarkWorkerFailed, coordVars, chanVars
<1>12. CASE SendStranded(w)
  <2>1. ChanTypes'
    BY <1>12, SendTypes, Zenon DEF SendStranded
  <2> QED BY <1>12, <2>1, Zenon DEF SendStranded, coordVars
<1>13. CASE SpuriousWake(w)
  BY <1>13, Zenon DEF SpuriousWake, poolVars, coordVars, chanVars
<1> QED BY Zenon, <1>1, <1>2, <1>3, <1>4, <1>5, <1>6, <1>7, <1>8, <1>9, <1>10,
           <1>11, <1>12, <1>13 DEF WorkerStep, WorkerGoesOn

LEMMA CoordTypesKept ==
  ASSUME IInv, NEW c \in Coordinators,
         CoordStep(c) \/ RootTerminal(c) \/ ParkTimeout(c) \/ Unwind(c)
  PROVE  TypeOK'
<1>0. TypeOK /\ QueueOnce
  BY Zenon DEF IInv
<1> USE <1>0 DEF CoordAt, poolVars, workVars, chanVars
<1> USE DEF TypeOK, PoolTypes, WorkTypes, CoordTypes, ChanTypes
<1>1. CASE Dispatch(c)
  <2>1. next_job \in Jobs /\ next_job' \in 1..(MaxJobs + 1)
    BY <1>1, MaxJobsIsNat DEF Dispatch, Jobs
  <2>2. queue' \in Seq(Jobs)
    BY <1>1, <2>1, PushBack, Zenon DEF Dispatch
  <2>3. Running \subseteq Jobs
    BY DEF Running
  <2>4. PoolTypes'
    BY <1>1, <2>1, <2>2, <2>3, Zenon DEF Dispatch
  <2> QED BY <1>1, <2>1, <2>4, Zenon DEF Dispatch
<1>2. CASE NotifyOne(c)
  <2>1. wpc' \in [Workers -> {"take", "asleep", "turn", "report", "wake",
                              "failing", "strand", "lastwake", "exited"}]
    BY <1>2 DEF NotifyOne
  <2> QED BY <1>2, <2>1, Zenon DEF NotifyOne
<1>3. CASE DispatchFails(c)
  BY <1>3, Zenon DEF DispatchFails
<1>4. ASSUME NEW S \in SUBSET active[c], Recall(c, S),
             \E p \in {"recalled", "aborting"} : cpc' = [cpc EXCEPT ![c] = p]
      PROVE  TypeOK'
  <2>1. queue' \in Seq(Jobs)
    BY <1>4, SplitByRecall, Zenon DEF Recall, QueueOnce
  <2>2. Running \subseteq Jobs /\ S \subseteq Jobs
    BY DEF Running
  <2>3. PoolTypes'
    BY <1>4, <2>1, <2>2, Zenon DEF Recall
  <2> QED BY <1>4, <2>2, <2>3 DEF Recall
<1>5. CASE RecallSome(c)
  <2>1. PICK S \in SUBSET (active[c] \ asked[c]) : Recall(c, S)
    BY <1>5, Zenon DEF RecallSome
  <2> QED BY <1>4, <1>5, <2>1, Zenon DEF RecallSome
<1>6. CASE RecallAll(c)
  BY <1>4, <1>6, Zenon DEF RecallAll
<1>7. CASE ReportDrawn(c)
  <2>1. inbox' \in [Coordinators ->
                      SUBSET [job : Jobs, kind : {"Report", "Failed"}]]
        /\ reported' \subseteq Jobs
    BY <1>7, SendTypes, Zenon DEF ReportDrawn
  <2> QED BY <1>7, <2>1, Zenon DEF ReportDrawn, WakeAll
<1>8. CASE DrainMarkers(c)
  BY <1>8, Zenon DEF DrainMarkers
<1>9. CASE DrainReport(c)
  BY <1>9, SMTT(30) DEF DrainReport, Receive
<1>10. CASE Drained(c) \/ NoJobsOut(c) \/ Park(c) \/ Unpark(c) \/ ParkTimeout(c)
  BY <1>10 DEF Drained, NoJobsOut, Park, Unpark, ParkTimeout
<1>11. CASE AbortReceive(c)
  BY <1>11 DEF AbortReceive, Receive
<1>12. CASE Leave(c)
  BY <1>12, Zenon DEF Leave
<1>13. CASE RootTerminal(c)
  BY <1>13, Zenon DEF RootTerminal
<1>14. CASE Unwind(c)
  BY <1>14, Zenon DEF Unwind
<1> QED BY Zenon, <1>1, <1>2, <1>3, <1>5, <1>6, <1>7, <1>8, <1>9, <1>10, <1>11,
           <1>12, <1>13, <1>14 DEF CoordStep

LEMMA DropTypes ==
  ASSUME IInv, DropStep
  PROVE  TypeOK'
<1>0. TypeOK
  BY Zenon DEF IInv
<1> USE <1>0 DEF TypeOK, PoolTypes, WorkTypes, CoordTypes, ChanTypes
<1> USE DEF poolVars, workVars, coordVars, chanVars
<1>1. CASE DropPool
  <2>1. Queued \subseteq Jobs /\ Running \subseteq Jobs /\ <<>> \in Seq(Jobs)
    BY DEF Queued, Running
  <2>2. inbox' \in [Coordinators ->
                      SUBSET [job : Jobs, kind : {"Report", "Failed"}]]
        /\ reported' \subseteq Jobs
    BY <1>1, <2>1, SendTypes, Zenon DEF DropPool
  <2> QED BY <1>1, <2>1, <2>2, Zenon DEF DropPool
<1>2. CASE DropNotifies
  BY <1>2, Zenon DEF DropNotifies, AllAwake
<1>3. CASE DropJoins
  BY <1>3, Zenon DEF DropJoins
<1> QED BY <1>1, <1>2, <1>3, Zenon DEF DropStep

(***************************************************************************)
(* Steps that move no lease keep every statement about places.             *)
(***************************************************************************)
LEMMA PlacesStay ==
  ASSUME IInv,
         UNCHANGED <<queue, held, stranded, drawn, reported, next_job>>
  PROVE  QueueOnce' /\ Apart' /\ Covered'
<1>1. Queued' = Queued /\ Issued' = Issued
  BY Zenon DEF Queued, Issued
<1>2. QueueOnce'
  BY Zenon DEF IInv, QueueOnce, Once
<1>3. Apart'
  BY <1>1, Zenon DEF IInv, Apart, HeldApart, StrandedApart, DrawnApart, QueuedApart
<1>4. Covered'
  BY <1>1, Zenon DEF IInv, Covered, Somewhere
<1> QED BY <1>2, <1>3, <1>4, Zenon

(***************************************************************************)
(* The worker steps that move a lease.                                     *)
(***************************************************************************)
LEMMA TakeJobKeeps ==
  ASSUME IInv, TypeOK', NEW w \in Workers, TakeJob(w)
  PROVE  IInv'
<1> USE DEF WorkerAt, coordVars, chanVars
<1>0. TypeOK /\ QueueOnce /\ WorkerLocals /\ CoordLocals /\ Apart /\ Covered
      /\ RecallSticks
  BY Zenon DEF IInv
<1> DEFINE j == Head(queue)
<1>1. /\ j \in Jobs /\ Once(queue')
      /\ Queued = Queued' \cup {j} /\ j \notin Queued'
  <2>1. Queued' = Elems(queue') /\ queue' = Tail(queue)
    BY Zenon DEF TakeJob, Queued, Elems
  <2> QED BY <1>0, <2>1, PopFront, QueuedIsElems DEF TakeJob, TypeOK, PoolTypes, QueueOnce
<1>2. /\ held' = [held EXCEPT ![w] = j] /\ held[w] = NoJob /\ j # NoJob
      /\ running' = [running EXCEPT ![w] = j]
      /\ wpc' = [wpc EXCEPT ![w] = "turn"] /\ wpc[w] = "take"
      /\ held \in [Workers -> Jobs \cup {NoJob}]
      /\ running \in [Workers -> Jobs \cup {NoJob}]
      /\ DOMAIN wpc = Workers
  BY <1>0, <1>1, NoJobNotJob, Zenon DEF TakeJob, WorkerLocals, TypeOK, PoolTypes, WorkTypes
<1>3. UNCHANGED <<recalls, next_job, stranded, cpc, active, asked, drawn, reported, Issued>>
  BY Zenon DEF TakeJob, Issued
<1> HIDE DEF j
<1>4. WorkerLocals'
  BY <1>0, <1>2, <1>3, Zenon DEF WorkerLocals
<1>5. CoordLocals'
  BY <1>0, <1>3, Zenon DEF CoordLocals
<1>6. Apart'
  BY <1>0, <1>1, <1>2, <1>3, SMTT(30) DEF Apart, HeldApart, StrandedApart, DrawnApart, QueuedApart
<1>7. Covered'
  BY <1>0, <1>1, <1>2, <1>3, NoJobNotJob, Zenon DEF Covered, Somewhere
<1>8. RecallSticks'
  BY <1>0, <1>1, <1>2, <1>3, Zenon DEF RecallSticks
<1> QED BY <1>1, <1>4, <1>5, <1>6, <1>7, <1>8, Zenon DEF IInv, QueueOnce

LEMMA RotateKeeps ==
  ASSUME IInv, TypeOK', NEW w \in Workers, ContinueRotate(w)
  PROVE  IInv'
<1> USE DEF coordVars, chanVars
<1>0. TypeOK /\ QueueOnce /\ WorkerLocals /\ CoordLocals /\ Apart /\ Covered
      /\ RecallSticks
  BY Zenon DEF IInv
<1> DEFINE j == Head(queue)
           h == held[w]
<1>1. /\ j \in Jobs /\ Once(Tail(queue)) /\ Tail(queue) \in Seq(Jobs)
      /\ Queued = Elems(Tail(queue)) \cup {j} /\ j \notin Elems(Tail(queue))
  BY <1>0, PopFront, QueuedIsElems, Zenon DEF ContinueRotate, TypeOK, PoolTypes, QueueOnce
<1>2. h \in Jobs /\ h \notin Queued
  BY <1>0 DEF ContinueRotate, WorkerLocals, TypeOK, WorkTypes, Apart, HeldApart
<1>3. /\ Queued' = (Queued \ {j}) \cup {h} /\ Once(queue')
  <2>1. /\ Elems(queue') = Elems(Tail(queue)) \cup {h} /\ Once(queue')
    BY <1>1, <1>2, PushBack, Zenon DEF ContinueRotate
  <2>2. Queued' = Elems(queue')
    BY Zenon DEF Queued, Elems
  <2> QED BY <1>1, <2>1, <2>2, Zenon
<1>4. /\ held' = [held EXCEPT ![w] = j] /\ j # NoJob /\ h # NoJob /\ j # h
      /\ running' = [running EXCEPT ![w] = j]
      /\ wpc' = wpc /\ wpc[w] = "turn" /\ h \notin recalls
      /\ held \in [Workers -> Jobs \cup {NoJob}]
      /\ running \in [Workers -> Jobs \cup {NoJob}]
  BY <1>0, <1>1, <1>2, NoJobNotJob, Zenon DEF ContinueRotate, TypeOK, PoolTypes, WorkTypes
<1>5. UNCHANGED <<recalls, next_job, stranded, cpc, active, asked, drawn, reported, Issued>>
  BY Zenon DEF ContinueRotate, Issued
<1>6. j \in Queued /\ h = held[w]
  BY <1>1, Zenon
<1> HIDE DEF j, h
<1>7. WorkerLocals'
  BY <1>0, <1>4, <1>5, <1>6, Zenon DEF WorkerLocals
<1>8. CoordLocals'
  BY <1>0, <1>5, Zenon DEF CoordLocals
<1>9. Apart'
  BY <1>0, <1>2, <1>3, <1>4, <1>5, <1>6 DEF Apart, HeldApart, StrandedApart, DrawnApart, QueuedApart
<1>10. Covered'
  BY <1>0, <1>2, <1>3, <1>4, <1>5, <1>6, NoJobNotJob, Zenon DEF Covered, Somewhere
<1>11. RecallSticks'
  BY <1>0, <1>3, <1>4, <1>5, <1>6, Zenon DEF RecallSticks
<1> QED BY <1>3, <1>7, <1>8, <1>9, <1>10, <1>11, Zenon DEF IInv, QueueOnce

(* SendReport and TurnPanics: the held job becomes a reported one. *)
LEMMA HandOverKeeps ==
  ASSUME IInv, TypeOK', NEW w \in Workers, SendReport(w) \/ TurnPanics(w)
  PROVE  IInv'
<1> USE DEF WorkerAt, coordVars, chanVars, poolVars
<1>0. TypeOK /\ QueueOnce /\ WorkerLocals /\ CoordLocals /\ Apart /\ Covered
      /\ RecallSticks
  BY Zenon DEF IInv
<1>1. /\ held' = [held EXCEPT ![w] = NoJob]
      /\ reported' = reported \cup {held[w]}
      /\ held[w] # NoJob /\ held \in [Workers -> Jobs \cup {NoJob}]
      /\ DOMAIN wpc = Workers
      /\ \E p \in {"wake", "failing"} : wpc' = [wpc EXCEPT ![w] = p]
  BY <1>0, Zenon DEF SendReport, TurnPanics, Send, WorkerLocals, TypeOK, WorkTypes
<1>2. UNCHANGED <<queue, running, recalls, next_job, stranded, cpc, active, asked, drawn>>
  BY Zenon DEF SendReport, TurnPanics
<1>3. Queued' = Queued /\ Issued' = Issued /\ NoJob \notin Queued \cup reported
  BY <1>0, <1>2, NoJobNotJob DEF Queued, Issued, TypeOK, PoolTypes, ChanTypes
<1>4. \A v \in Workers : NoJob \notin stranded[v]
  BY <1>0, NoJobNotJob, Zenon DEF TypeOK, WorkTypes
<1>5. \A c \in Coordinators : NoJob \notin drawn[c]
  BY <1>0, NoJobNotJob, Zenon DEF TypeOK, CoordTypes
<1>6. QueueOnce'
  BY <1>0, <1>2, Zenon DEF QueueOnce, Once
<1>7. WorkerLocals'
  BY <1>0, <1>1, <1>2, Zenon DEF WorkerLocals
<1>8. CoordLocals'
  BY <1>0, <1>2, <1>3, Zenon DEF CoordLocals
<1>9. Apart'
  <2>1. HeldApart /\ StrandedApart /\ DrawnApart /\ QueuedApart
    BY <1>0, Zenon DEF Apart
  <2>2. /\ held'[w] = NoJob
        /\ \A v \in Workers \ {w} : held'[v] = held[v] /\ held[v] # held[w]
    BY <1>1, <2>1, Zenon DEF HeldApart
  <2>3. /\ held[w] \notin Queued
        /\ \A v \in Workers : held[w] \notin stranded[v]
        /\ \A c \in Coordinators : held[w] \notin drawn[c]
    BY <2>1, Zenon DEF HeldApart
  <2>4. HeldApart'
    BY <1>1, <1>2, <1>3, <1>4, <1>5, <2>1, <2>2, SMTT(30) DEF HeldApart
  <2>5. StrandedApart'
    BY <1>1, <1>2, <1>3, <2>1, <2>3 DEF StrandedApart
  <2>6. DrawnApart'
    BY <1>1, <1>2, <1>3, <2>1, <2>3 DEF DrawnApart
  <2>7. QueuedApart'
    BY <1>1, <1>3, <2>1, <2>3, Zenon DEF QueuedApart
  <2> QED BY <2>4, <2>5, <2>6, <2>7, Zenon DEF Apart
<1>10. Covered'
  BY <1>0, <1>1, <1>2, <1>3, NoJobNotJob, Zenon DEF Covered, Somewhere
<1>11. RecallSticks'
  BY <1>0, <1>1, <1>2, <1>3, Zenon DEF RecallSticks
<1> QED BY <1>6, <1>7, <1>8, <1>9, <1>10, <1>11, Zenon DEF IInv

LEMMA MarkFailedKeeps ==
  ASSUME IInv, TypeOK', NEW w \in Workers, MarkWorkerFailed(w)
  PROVE  IInv'
<1> USE DEF WorkerAt, coordVars, chanVars
<1>0. TypeOK /\ QueueOnce /\ WorkerLocals /\ CoordLocals /\ Apart /\ Covered
      /\ RecallSticks
  BY Zenon DEF IInv
<1>1. /\ wpc[w] = "failing" /\ wpc' = [wpc EXCEPT ![w] = "strand"]
      /\ running' = [running EXCEPT ![w] = NoJob]
      /\ DOMAIN wpc = Workers /\ DOMAIN running = Workers
      /\ stranded \in [Workers -> SUBSET Jobs]
      /\ stranded[w] = {}
  BY <1>0, Zenon DEF MarkWorkerFailed, WorkerLocals, TypeOK, PoolTypes, WorkTypes
<1>2. UNCHANGED <<recalls, next_job, held, cpc, active, asked, drawn, reported, Issued>>
  BY Zenon DEF MarkWorkerFailed, Issued
<1>3. CASE UNCHANGED <<queue, stranded>>
  <2>1. QueueOnce' /\ Apart' /\ Covered' /\ Queued' = Queued
    BY <1>2, <1>3, PlacesStay, Zenon DEF Queued
  <2>2. WorkerLocals' /\ CoordLocals'
    BY <1>0, <1>1, <1>2, <1>3, Zenon DEF WorkerLocals, CoordLocals
  <2>3. RecallSticks'
    BY <1>0, <1>1, <1>2, <2>1, Zenon DEF RecallSticks
  <2> QED BY <2>1, <2>2, <2>3, Zenon DEF IInv
<1>4. CASE queue' = <<>> /\ stranded' = [stranded EXCEPT ![w] = Queued]
  <2>1. Queued' = {} /\ QueueOnce'
    BY <1>4 DEF Queued, QueueOnce, Once
  <2>2. WorkerLocals' /\ CoordLocals'
    BY <1>0, <1>1, <1>2, <1>4, Zenon DEF WorkerLocals, CoordLocals
  <2>3. Apart'
    BY <1>0, <1>1, <1>2, <1>4, <2>1, Zenon DEF Apart, HeldApart, StrandedApart, DrawnApart, QueuedApart
  <2>4. Covered'
    BY <1>0, <1>1, <1>2, <1>4, <2>1, Zenon DEF Covered, Somewhere
  <2>5. RecallSticks'
    BY <1>0, <1>1, <1>2, <2>1, Zenon DEF RecallSticks
  <2> QED BY <2>1, <2>2, <2>3, <2>4, <2>5, Zenon DEF IInv
<1> QED BY <1>3, <1>4, Zenon DEF MarkWorkerFailed

LEMMA SendStrandedKeeps ==
  ASSUME IInv, TypeOK', NEW w \in Workers, SendStranded(w)
  PROVE  IInv'
<1> USE DEF WorkerAt, coordVars
<1>0. TypeOK /\ QueueOnce /\ WorkerLocals /\ CoordLocals /\ Apart /\ Covered
      /\ RecallSticks
  BY Zenon DEF IInv
<1>1. /\ wpc[w] = "strand" /\ wpc' = [wpc EXCEPT ![w] = "lastwake"]
      /\ stranded' = [stranded EXCEPT ![w] = {}]
      /\ reported' = reported \cup stranded[w]
      /\ DOMAIN wpc = Workers /\ stranded \in [Workers -> SUBSET Jobs]
  BY <1>0, Zenon DEF SendStranded, Send, TypeOK, WorkTypes
<1>2. UNCHANGED <<queue, running, recalls, next_job, held, cpc, active, asked, drawn, Queued, Issued>>
  BY Zenon DEF SendStranded, Queued, Issued
<1>3. QueueOnce'
  BY <1>0, <1>2, Zenon DEF QueueOnce, Once
<1>4. WorkerLocals' /\ CoordLocals'
  BY <1>0, <1>1, <1>2, Zenon DEF WorkerLocals, CoordLocals
<1>5. Apart'
  BY <1>0, <1>1, <1>2, SMTT(30) DEF Apart, HeldApart, StrandedApart, DrawnApart, QueuedApart
<1>6. Covered'
  BY <1>0, <1>1, <1>2, Zenon DEF Covered, Somewhere
<1>7. RecallSticks'
  BY <1>0, <1>1, <1>2, Zenon DEF RecallSticks
<1> QED BY <1>3, <1>4, <1>5, <1>6, <1>7, Zenon DEF IInv

LEMMA WorkerKeepsIInv ==
  ASSUME IInv, NEW w \in Workers, WorkerStep(w) \/ SpuriousWake(w)
  PROVE  IInv'
<1>0. TypeOK /\ QueueOnce /\ WorkerLocals /\ CoordLocals /\ Apart /\ Covered
      /\ RecallSticks /\ TypeOK'
  BY WorkerTypes, Zenon DEF IInv
<1> USE DEF WorkerAt, poolVars, workVars, coordVars, chanVars
<1>1. ASSUME UNCHANGED <<queue, held, stranded, drawn, reported, next_job>>,
             UNCHANGED <<cpc, active, asked>>, WorkerLocals',
             RecallSticks'
      PROVE  IInv'
  <2>1. Issued' = Issued
    BY <1>1, Zenon DEF Issued
  <2>2. CoordLocals'
    BY <1>0, <1>1, <2>1, Zenon DEF CoordLocals
  <2> QED BY <1>0, <1>1, <2>2, PlacesStay, Zenon DEF IInv
<1>2. CASE TakeJobShutdown(w) \/ TakeJobWait(w)
  <2>1. WorkerLocals'
    BY <1>0, <1>2, SMTT(30) DEF TakeJobShutdown, TakeJobWait, WorkerLocals, TypeOK, PoolTypes, WorkTypes
  <2>2. RecallSticks'
    BY <1>0, <1>2, SMTT(30) DEF TakeJobShutdown, TakeJobWait, RecallSticks, Queued, TypeOK, WorkTypes
  <2> QED BY <1>1, <1>2, <2>1, <2>2, Zenon DEF TakeJobShutdown, TakeJobWait
<1>3. CASE ContinueRecalled(w) \/ TurnReports(w)
  <2>1. WorkerLocals'
    BY <1>0, <1>3, SMTT(30) DEF ContinueRecalled, TurnReports, WorkerLocals, TypeOK, PoolTypes, WorkTypes
  <2>2. /\ recalls' = recalls \/ recalls' = recalls \ {held[w]}
        /\ \A v \in Workers : wpc'[v] = "turn" => wpc[v] = "turn" /\ v # w
        /\ UNCHANGED <<asked, held, Queued>>
    BY <1>0, <1>3, SMTT(30) DEF ContinueRecalled, TurnReports, TypeOK, WorkTypes, Queued
  <2>3. \A v \in Workers : wpc'[v] = "turn" => held[v] # held[w]
    BY <1>0, <2>2, Zenon DEF Apart, HeldApart, WorkerLocals
  <2>4. RecallSticks'
    BY <1>0, <2>2, <2>3, Zenon DEF RecallSticks
  <2> QED BY <1>1, <1>3, <2>1, <2>4, Zenon DEF ContinueRecalled, TurnReports
<1>4. CASE ContinueLocal(w)
  <2>1. WorkerLocals' /\ RecallSticks'
    BY <1>0, <1>4, SMTT(30) DEF ContinueLocal, WorkerLocals, RecallSticks, Queued
  <2> QED BY <1>1, <1>4, <2>1, Zenon DEF ContinueLocal
<1>5. CASE WakeWaiters(w) \/ SpuriousWake(w)
  <2>1. \A v \in Workers :
           \/ wpc'[v] = wpc[v]
           \/ /\ wpc[v] \in {"wake", "lastwake", "asleep"}
              /\ wpc'[v] \in {"take", "exited"}
    BY <1>0, <1>5, Zenon DEF WakeWaiters, SpuriousWake, AllAwake, TypeOK, WorkTypes
  <2>2. UNCHANGED <<queue, held, stranded, drawn, reported, next_job, cpc,
                    active, asked, running, recalls, Queued>>
    BY <1>5, Zenon DEF WakeWaiters, SpuriousWake, Queued
  <2>3. WorkerLocals'
    BY <1>0, <2>1, <2>2, Zenon DEF WorkerLocals
  <2>4. RecallSticks'
    BY <1>0, <2>1, <2>2, Zenon DEF RecallSticks
  <2> QED BY <1>1, <2>2, <2>3, <2>4, Zenon
<1> QED BY <1>0, <1>2, <1>3, <1>4, <1>5, TakeJobKeeps, RotateKeeps,
           HandOverKeeps, MarkFailedKeeps, SendStrandedKeeps, Zenon DEF WorkerStep, WorkerGoesOn

(***************************************************************************)
(* The coordinator steps that move a lease.                                *)
(***************************************************************************)
LEMMA DispatchKeeps ==
  ASSUME IInv, TypeOK', NEW c \in Coordinators, Dispatch(c)
  PROVE  IInv'
<1> USE DEF CoordAt, workVars, chanVars
<1>0. TypeOK /\ QueueOnce /\ WorkerLocals /\ CoordLocals /\ Apart /\ Covered
      /\ RecallSticks
  BY Zenon DEF IInv
<1> DEFINE j == next_job
<1>1. /\ j \in Jobs /\ j \notin Issued /\ Issued' = Issued \cup {j}
  BY <1>0, MaxJobsIsNat DEF Dispatch, Jobs, Issued, TypeOK, PoolTypes
<1>2. ~Somewhere(j)
  BY <1>0, <1>1, Zenon DEF Covered
<1>3. Queued' = Queued \cup {j} /\ Once(queue')
  <2>1. Queued' = Elems(queue') /\ j \notin Elems(queue)
    BY <1>2, QueuedIsElems, Zenon DEF Queued, Elems, Somewhere
  <2> QED BY <1>0, <1>1, <2>1, PushBack, QueuedIsElems, Zenon DEF Dispatch, TypeOK, PoolTypes, QueueOnce
<1>4. /\ active' = [active EXCEPT ![c] = @ \cup {j}]
      /\ cpc[c] = "decide" /\ cpc' = [cpc EXCEPT ![c] = "notify"]
      /\ DOMAIN active = Coordinators /\ DOMAIN cpc = Coordinators
      /\ UNCHANGED <<running, recalls, wpc, held, stranded, asked, drawn, reported>>
  BY <1>0, Zenon DEF Dispatch, TypeOK, CoordTypes
<1> HIDE DEF j
<1>5. WorkerLocals'
  BY <1>0, <1>4, Zenon DEF WorkerLocals
<1>6. CoordLocals'
  BY <1>0, <1>1, <1>4, Zenon DEF CoordLocals
<1>7. Apart'
  <2>1. HeldApart /\ StrandedApart /\ DrawnApart /\ QueuedApart
    BY <1>0, Zenon DEF Apart
  <2>2. /\ j \notin reported
        /\ \A v \in Workers : held[v] # j /\ j \notin stranded[v]
        /\ \A d \in Coordinators : j \notin drawn[d]
    BY <1>2, Zenon DEF Somewhere
  <2>3. /\ Queued' = Queued \cup {j}
        /\ held' = held /\ stranded' = stranded /\ drawn' = drawn /\ reported' = reported
    BY <1>3, <1>4, Zenon
  <2>4. HeldApart'
    BY <2>1, <2>2, <2>3, Zenon DEF HeldApart
  <2>5. StrandedApart'
    BY <2>1, <2>2, <2>3 DEF StrandedApart
  <2>6. DrawnApart'
    <3> SUFFICES ASSUME NEW d \in Coordinators, NEW k \in drawn[d]
                 PROVE  /\ k \notin Queued' \cup reported'
                        /\ \A e \in Coordinators : k \in drawn[e] => e = d
      BY <2>3, Zenon DEF DrawnApart
    <3>1. /\ k \notin Queued \cup reported /\ k # j
          /\ \A e \in Coordinators : k \in drawn[e] => e = d
      BY <2>1, <2>2 DEF DrawnApart
    <3> QED BY <3>1, <2>3, Zenon
  <2>7. QueuedApart'
    BY <2>1, <2>2, <2>3, Zenon DEF QueuedApart
  <2> QED BY <2>4, <2>5, <2>6, <2>7, Zenon DEF Apart
<1>8. Covered'
  BY <1>0, <1>1, <1>3, <1>4, Zenon DEF Covered, Somewhere
<1>9. RecallSticks'
  <2>1. \A d \in Coordinators : j \notin asked[d]
    BY <1>0, <1>1, Zenon DEF CoordLocals
  <2> QED BY <1>0, <1>3, <1>4, <2>1, Zenon DEF RecallSticks
<1> QED BY <1>3, <1>5, <1>6, <1>7, <1>8, <1>9, Zenon DEF IInv, QueueOnce

LEMMA RecallKeeps ==
  ASSUME IInv, TypeOK', NEW c \in Coordinators,
         NEW S \in SUBSET active[c], Recall(c, S),
         cpc[c] \in {"decide", "abort"},
         \E p \in {"recalled", "aborting"} : cpc' = [cpc EXCEPT ![c] = p]
  PROVE  IInv'
<1> USE DEF workVars, chanVars
<1>0. TypeOK /\ QueueOnce /\ WorkerLocals /\ CoordLocals /\ Apart /\ Covered
      /\ RecallSticks
  BY Zenon DEF IInv
<1>1. Queued' = Queued \ S /\ Once(queue')
  <2>1. Queued' = Elems(queue')
    BY Zenon DEF Queued, Elems
  <2> QED BY <1>0, <2>1, SplitByRecall, QueuedIsElems, Zenon DEF Recall, TypeOK, PoolTypes, QueueOnce
<1>2. /\ drawn[c] = {} /\ drawn' = [drawn EXCEPT ![c] = Queued \cap S]
      /\ asked' = [asked EXCEPT ![c] = @ \cup S]
      /\ recalls' = recalls \cup (Running \cap S)
      /\ DOMAIN drawn = Coordinators /\ DOMAIN asked = Coordinators
      /\ DOMAIN cpc = Coordinators
      /\ UNCHANGED <<running, next_job, wpc, held, stranded, active, reported, Issued>>
  BY <1>0, Zenon DEF Recall, TypeOK, CoordTypes, CoordLocals, Issued
<1>3. WorkerLocals'
  BY <1>0, <1>2, Zenon DEF WorkerLocals
<1>4. CoordLocals'
  BY <1>0, <1>2, Zenon DEF CoordLocals
<1>5. Apart'
  BY <1>0, <1>1, <1>2, Zenon DEF Apart, HeldApart, StrandedApart, DrawnApart, QueuedApart
<1>6. Covered'
  BY <1>0, <1>1, <1>2, Zenon DEF Covered, Somewhere
<1>7. RecallSticks'
  <2>1. \A w \in Workers :
          wpc[w] = "turn" /\ held[w] \in S => held[w] \in Running \cap S
    BY <1>0, Zenon DEF WorkerLocals, Running
  <2> QED BY <1>0, <1>1, <1>2, <2>1, SMTT(30) DEF RecallSticks
<1> QED BY <1>1, <1>3, <1>4, <1>5, <1>6, <1>7, Zenon DEF IInv, QueueOnce

LEMMA ReportDrawnKeeps ==
  ASSUME IInv, TypeOK', NEW c \in Coordinators, ReportDrawn(c)
  PROVE  IInv'
<1> USE DEF CoordAt, workVars
<1>0. TypeOK /\ QueueOnce /\ WorkerLocals /\ CoordLocals /\ Apart /\ Covered
      /\ RecallSticks
  BY Zenon DEF IInv
<1>1. /\ drawn' = [drawn EXCEPT ![c] = {}]
      /\ reported' = reported \cup drawn[c]
      /\ DOMAIN drawn = Coordinators /\ DOMAIN cpc = Coordinators
      /\ \E p \in {"decide", "abort"} : cpc' = [cpc EXCEPT ![c] = p]
  BY <1>0, Zenon DEF ReportDrawn, Send, TypeOK, CoordTypes
<1>2. UNCHANGED <<queue, running, recalls, next_job, wpc, held, stranded, active, asked, Queued, Issued>>
  BY Zenon DEF ReportDrawn, Queued, Issued
<1>3. QueueOnce' /\ WorkerLocals' /\ CoordLocals'
  BY <1>0, <1>1, <1>2, Zenon DEF QueueOnce, Once, WorkerLocals, CoordLocals
<1>4. Apart'
  BY <1>0, <1>1, <1>2, Zenon DEF Apart, HeldApart, StrandedApart, DrawnApart, QueuedApart
<1>5. Covered'
  BY <1>0, <1>1, <1>2, Zenon DEF Covered, Somewhere
<1>6. RecallSticks'
  BY <1>0, <1>2, Zenon DEF RecallSticks
<1> QED BY <1>3, <1>4, <1>5, <1>6, Zenon DEF IInv

(* Receiving an event only forgets the job it is about. *)
LEMMA ReceiveKeeps ==
  ASSUME IInv, TypeOK', NEW c \in Coordinators, NEW e \in inbox[c],
         Receive(c, e), drawn[c] = {},
         \E p \in {"drain", "abort"} : cpc' = [cpc EXCEPT ![c] = p]
  PROVE  IInv'
<1> USE DEF poolVars, workVars
<1>0. TypeOK /\ QueueOnce /\ WorkerLocals /\ CoordLocals /\ RecallSticks
  BY Zenon DEF IInv
<1>1. QueueOnce' /\ Apart' /\ Covered' /\ Issued' = Issued /\ Queued' = Queued
  BY PlacesStay, Zenon DEF Receive, Issued, Queued
<1>2. WorkerLocals'
  BY <1>0, Zenon DEF Receive, WorkerLocals
<1>3. CoordLocals'
  BY <1>0, <1>1, SMTT(30) DEF Receive, CoordLocals, TypeOK, CoordTypes
<1>4. RecallSticks'
  BY <1>0, <1>1, SMTT(30) DEF Receive, RecallSticks, TypeOK, CoordTypes
<1> QED BY <1>1, <1>2, <1>3, <1>4, Zenon DEF IInv

LEMMA CoordKeepsIInv ==
  ASSUME IInv, NEW c \in Coordinators,
         CoordStep(c) \/ RootTerminal(c) \/ ParkTimeout(c) \/ Unwind(c)
  PROVE  IInv'
<1>0. TypeOK /\ QueueOnce /\ WorkerLocals /\ CoordLocals /\ Apart /\ Covered
      /\ RecallSticks /\ TypeOK'
  BY CoordTypesKept, Zenon DEF IInv
<1> USE DEF CoordAt, poolVars, workVars, chanVars
<1>1. CASE RecallSome(c)
  <2>1. PICK S \in SUBSET (active[c] \ asked[c]) : Recall(c, S)
    BY <1>1, Zenon DEF RecallSome
  <2> QED BY <1>0, <1>1, <2>1, RecallKeeps, Zenon DEF RecallSome
<1>2. CASE RecallAll(c)
  BY <1>0, <1>2, RecallKeeps, Zenon DEF RecallAll
<1>3. CASE DrainReport(c) \/ AbortReceive(c)
  <2>1. PICK e \in inbox[c] : Receive(c, e)
    BY <1>3, Zenon DEF DrainReport, AbortReceive
  <2>2. drawn[c] = {}
    BY <1>0, <1>3, Zenon DEF DrainReport, AbortReceive, CoordLocals
  <2>3. \E p \in {"drain", "abort"} : cpc' = [cpc EXCEPT ![c] = p]
    BY <1>0, <1>3, Zenon DEF DrainReport, AbortReceive, TypeOK, CoordTypes
  <2> QED BY <1>0, <2>1, <2>2, <2>3, ReceiveKeeps, Zenon
<1>4. CASE NotifyOne(c)
  <2>1. \A v \in Workers :
          wpc'[v] = wpc[v] \/ (wpc[v] = "asleep" /\ wpc'[v] = "take")
    BY <1>0, <1>4, Zenon DEF NotifyOne, TypeOK, WorkTypes
  <2>2. QueueOnce' /\ Apart' /\ Covered' /\ Issued' = Issued /\ Queued' = Queued
    BY <1>4, PlacesStay, Zenon DEF NotifyOne, Issued, Queued
  <2>3. WorkerLocals'
    BY <1>0, <1>4, <2>1, SMTT(30) DEF NotifyOne, WorkerLocals
  <2>4. CoordLocals'
    BY <1>0, <1>4, <2>2, Zenon DEF NotifyOne, CoordLocals, TypeOK, CoordTypes
  <2>5. RecallSticks'
    BY <1>0, <1>4, <2>1, <2>2, SMTT(30) DEF NotifyOne, RecallSticks
  <2> QED BY <1>0, <2>2, <2>3, <2>4, <2>5, Zenon DEF IInv
<1>5. ASSUME UNCHANGED <<poolVars, workVars, drawn, reported>>,
             drawn[c] = {},
             \/ UNCHANGED <<active, asked>>
             \/ active' = [active EXCEPT ![c] = {}] /\ asked' = [asked EXCEPT ![c] = {}],
             UNCHANGED cpc \/ \E p : cpc' = [cpc EXCEPT ![c] = p]
      PROVE  IInv'
  <2>1. QueueOnce' /\ Apart' /\ Covered' /\ Issued' = Issued /\ Queued' = Queued
    BY <1>5, PlacesStay, ZenonT(30) DEF Issued, Queued
  <2>2. WorkerLocals'
    BY <1>0, <1>5, Zenon DEF WorkerLocals
  <2>3. CoordLocals'
    BY <1>0, <1>5, <2>1, SMTT(30) DEF CoordLocals, TypeOK, CoordTypes
  <2>4. RecallSticks'
    BY <1>0, <1>5, <2>1, Zenon DEF RecallSticks, TypeOK, CoordTypes
  <2> QED BY <1>0, <2>1, <2>2, <2>3, <2>4, Zenon DEF IInv
<1>6. CASE DispatchFails(c) \/ DrainMarkers(c) \/ Drained(c) \/ NoJobsOut(c)
           \/ Park(c) \/ Unpark(c) \/ Leave(c) \/ RootTerminal(c)
           \/ ParkTimeout(c) \/ Unwind(c)
  <2>1. drawn[c] = {}
    BY <1>0, <1>6, Zenon DEF DispatchFails, DrainMarkers, Drained, NoJobsOut, Park,
      Unpark, Leave, RootTerminal, ParkTimeout, Unwind, CoordLocals
  <2> QED BY <1>5, <1>6, <2>1, Zenon DEF DispatchFails, DrainMarkers, Drained,
      NoJobsOut, Park, Unpark, Leave, RootTerminal, ParkTimeout, Unwind
<1> QED BY <1>0, <1>1, <1>2, <1>3, <1>4, <1>6, DispatchKeeps,
           ReportDrawnKeeps, Zenon DEF CoordStep

LEMMA DropKeepsIInv ==
  ASSUME IInv, DropStep
  PROVE  IInv'
<1>0. TypeOK /\ QueueOnce /\ WorkerLocals /\ CoordLocals /\ Apart /\ Covered
      /\ RecallSticks /\ TypeOK'
  BY DropTypes, Zenon DEF IInv
<1> USE DEF poolVars, workVars, coordVars, chanVars
<1>1. CASE DropPool
  <2>1. /\ Queued' = {} /\ Issued' = Issued
        /\ reported' = reported \cup Queued
        /\ UNCHANGED <<running, recalls, wpc, held, stranded, cpc, active, asked, drawn>>
    BY <1>1, SMTT(30) DEF DropPool, Send, Queued, Issued
  <2>2. QueueOnce'
    BY <1>1 DEF DropPool, QueueOnce, Once
  <2>3. WorkerLocals' /\ CoordLocals'
    BY <1>0, <2>1, Zenon DEF WorkerLocals, CoordLocals
  <2>4. Apart'
    BY <1>0, <2>1, Zenon DEF Apart, HeldApart, StrandedApart, DrawnApart, QueuedApart
  <2>5. Covered' /\ RecallSticks'
    BY <1>0, <2>1, Zenon DEF Covered, Somewhere, RecallSticks
  <2> QED BY <1>0, <2>2, <2>3, <2>4, <2>5, ZenonT(30) DEF IInv
<1>2. CASE DropNotifies \/ DropJoins
  <2>1. \A v \in Workers :
          wpc'[v] = wpc[v] \/ (wpc[v] = "asleep" /\ wpc'[v] = "take")
    BY <1>0, <1>2, Zenon DEF DropNotifies, DropJoins, AllAwake
  <2>2. QueueOnce' /\ Apart' /\ Covered' /\ Issued' = Issued /\ Queued' = Queued
    BY <1>2, PlacesStay, Zenon DEF DropNotifies, DropJoins, Issued, Queued
  <2>3. WorkerLocals'
    BY <1>0, <1>2, <2>1, Zenon DEF DropNotifies, DropJoins, WorkerLocals
  <2>4. CoordLocals'
    BY <1>0, <1>2, <2>2, Zenon DEF DropNotifies, DropJoins, CoordLocals
  <2>5. RecallSticks'
    BY <1>0, <1>2, <2>1, <2>2, Zenon DEF DropNotifies, DropJoins, RecallSticks
  <2> QED BY <1>0, <2>2, <2>3, <2>4, <2>5, Zenon DEF IInv
<1> QED BY <1>1, <1>2, Zenon DEF DropStep

(***************************************************************************)
(* A job with a place has exactly one.                                     *)
(***************************************************************************)
LEMMA OnePlace == IInv => JobsAccounted
<1> SUFFICES ASSUME IInv, NEW j \in Issued PROVE Cardinality(Places(j)) = 1
  BY Zenon DEF JobsAccounted
<1>0. TypeOK /\ QueueOnce /\ Apart /\ Covered
  BY Zenon DEF IInv
<1>1. j \in Jobs /\ Somewhere(j) /\ j # NoJob
  BY <1>0, NoJobNotJob, MaxJobsIsNat DEF Covered, Issued, Jobs, TypeOK, PoolTypes
<1>2. \E p : Places(j) = {p}
  <2>1. CASE j \in Queued
    <3>1. PICK i \in DOMAIN queue : queue[i] = j
      BY <2>1, Zenon DEF Queued
    <3>2. {k \in DOMAIN queue : queue[k] = j} = {i}
      BY <1>0, <3>1, Zenon DEF QueueOnce, Once
    <3>3. /\ {w \in Workers : held[w] = j} = {}
          /\ {w \in Workers : j \in stranded[w]} = {}
          /\ {c \in Coordinators : j \in drawn[c]} = {}
      BY <1>0, <2>1, SMTT(30) DEF Apart, HeldApart, StrandedApart, DrawnApart
    <3>4. {j} \cap reported = {}
      BY <1>0, <2>1, Zenon DEF Apart, QueuedApart
    <3>5. Places(j) = {<<"queue", i>>}
      BY <3>2, <3>3, <3>4, Zenon DEF Places
    <3> QED BY <3>5, Zenon
  <2>2. CASE j \in reported
    <3>1. j \notin Queued
      BY <1>0, <2>2, Zenon DEF Apart, QueuedApart
    <3>2. Places(j) = {<<"reported", 0>>}
      BY <1>0, <1>1, <2>2, <3>1, SMTT(30) DEF Places, Queued, Apart, HeldApart,
        StrandedApart, DrawnApart
    <3> QED BY <3>2, Zenon
  <2>3. ASSUME NEW w \in Workers, held[w] = j PROVE \E p : Places(j) = {p}
    <3>1. Places(j) = {<<"worker", w>>}
      BY <1>0, <1>1, <2>3, SMTT(30) DEF Places, Queued, Apart, HeldApart
    <3> QED BY <3>1, Zenon
  <2>4. ASSUME NEW w \in Workers, j \in stranded[w] PROVE \E p : Places(j) = {p}
    <3>1. Places(j) = {<<"stranded", w>>}
      BY <1>0, <1>1, <2>4, SMTT(30) DEF Places, Queued, Apart, HeldApart, StrandedApart
    <3> QED BY <3>1, Zenon
  <2>5. ASSUME NEW c \in Coordinators, j \in drawn[c] PROVE \E p : Places(j) = {p}
    <3>1. Places(j) = {<<"drawn", c>>}
      BY <1>0, <1>1, <2>5, SMTT(30) DEF Places, Queued, Apart, HeldApart, StrandedApart, DrawnApart
    <3> QED BY <3>1, Zenon
  <2> QED BY <1>1, <2>1, <2>2, <2>3, <2>4, <2>5, Zenon DEF Somewhere
<1> QED BY <1>2, FS_Singleton, Zenon

(***************************************************************************)
(* The inductive invariant holds in every reachable state.                 *)
(***************************************************************************)
LEMMA PoolInvariant == Spec => []IInv
<1>1. IInv /\ [Next]_vars => IInv'
  <2> SUFFICES ASSUME IInv, [Next]_vars PROVE IInv'
    BY Zenon
  <2>1. CASE UNCHANGED vars
    <3>1. UNCHANGED <<queue, running, live, recalls, next_job, shutdown, yield,
                      wpc, held, stranded, cpc, active, asked, drawn, terminal,
                      inbox, marker, reported, joining>>
      BY <2>1, Zenon DEF vars, poolVars, workVars, coordVars, chanVars
    <3>2. QueueOnce' /\ Apart' /\ Covered' /\ Issued' = Issued /\ Queued' = Queued
      BY <3>1, PlacesStay, Zenon DEF Issued, Queued
    <3>3. TypeOK'
      BY <3>1, Zenon DEF IInv, TypeOK, PoolTypes, WorkTypes, CoordTypes, ChanTypes
    <3>4. WorkerLocals' /\ CoordLocals' /\ RecallSticks'
      BY <3>1, <3>2, Zenon DEF IInv, WorkerLocals, CoordLocals, RecallSticks
    <3> QED BY <3>2, <3>3, <3>4, Zenon DEF IInv
  <2> QED BY <2>1, WorkerKeepsIInv, CoordKeepsIInv, DropKeepsIInv, Zenon DEF Next
<1> QED BY <1>1, InitIInv, PTL DEF Spec

(***************************************************************************)
(* Whatever the number of workers, coordinators and jobs, every lease that *)
(* was dispatched is in exactly one place of the pool or has been reported *)
(* exactly once (dispatch, take_job, worker_loop, recall, drop).           *)
(***************************************************************************)
THEOREM NoLeaseLost == Spec => [](TypeOK /\ JobsAccounted)
<1>1. IInv => TypeOK /\ JobsAccounted
  BY OnePlace, Zenon DEF IInv
<1> QED BY <1>1, PoolInvariant, PTL

(***************************************************************************)
(* One recall is enough: a recalled job never returns to the queue, and    *)
(* the turn that runs it finds it in recalls when it ends.                 *)
(***************************************************************************)
THEOREM RecallNeverForgotten == Spec => []RecallSticks
<1>1. IInv => RecallSticks
  BY Zenon DEF IInv
<1> QED BY <1>1, PoolInvariant, PTL

------------------------------------------------------------------------------
(* Wakes. *)

-----------------------------------------------------------------------------
(***************************************************************************)
(* Wake markers.  From the moment a coordinator has found its channel of   *)
(* reports empty until it parks, each report it has not received is        *)
(* followed by a marker.                                                   *)
(***************************************************************************)
Attentive == {"decide", "notify", "recalled", "parked"}
Announcing == {"wake", "failing", "strand", "lastwake"}

MarkerFollows ==
  \A c \in Coordinators :
    cpc[c] \in Attentive /\ inbox[c] # {} =>
      marker[c] \/ \E w \in Workers : wpc[w] \in Announcing

LEMMA WorkerKeepsMarkers ==
  ASSUME TypeOK, MarkerFollows, NEW w \in Workers,
         WorkerStep(w) \/ SpuriousWake(w)
  PROVE  MarkerFollows'
<1> USE DEF WorkerAt, TypeOK, WorkTypes, CoordTypes, ChanTypes
<1> USE DEF poolVars, workVars, coordVars, chanVars
<1>1. CASE WakeWaiters(w)
  BY <1>1, Zenon DEF WakeWaiters, WakeAll, MarkerFollows, Attentive
<1>2. ASSUME UNCHANGED <<cpc, marker>>, wpc'[w] \in Announcing
      PROVE  MarkerFollows'
  BY <1>2, Zenon DEF MarkerFollows
<1>3. ASSUME UNCHANGED <<cpc, marker, inbox>>,
             \A v \in Workers : wpc[v] \in Announcing => wpc'[v] \in Announcing
      PROVE  MarkerFollows'
  BY <1>3, Zenon DEF MarkerFollows
<1>4. CASE SendReport(w) \/ TurnPanics(w) \/ MarkWorkerFailed(w) \/ SendStranded(w)
  BY <1>2, <1>4, Zenon DEF SendReport, TurnPanics, MarkWorkerFailed, SendStranded, Announcing
<1>5. CASE TakeJob(w) \/ TakeJobShutdown(w) \/ TakeJobWait(w) \/ SpuriousWake(w)
           \/ ContinueRecalled(w) \/ ContinueRotate(w) \/ ContinueLocal(w)
           \/ TurnReports(w)
  <2>1. UNCHANGED <<cpc, marker, inbox>>
    BY <1>5, Zenon DEF TakeJob, TakeJobShutdown, TakeJobWait, SpuriousWake,
      ContinueRecalled, ContinueRotate, ContinueLocal, TurnReports
  <2>2. wpc[w] \notin Announcing
    BY <1>5, Zenon DEF TakeJob, TakeJobShutdown, TakeJobWait, SpuriousWake, Announcing,
      ContinueRecalled, ContinueRotate, ContinueLocal, TurnReports
  <2>3. \A v \in Workers \ {w} : wpc'[v] = wpc[v]
    BY <1>5, Zenon DEF TakeJob, TakeJobShutdown, TakeJobWait, SpuriousWake,
      ContinueRecalled, ContinueRotate, ContinueLocal, TurnReports
  <2> QED BY <1>3, <2>1, <2>2, <2>3, Zenon
<1> QED BY <1>1, <1>4, <1>5, Zenon DEF WorkerStep, WorkerGoesOn

LEMMA CoordKeepsMarkers ==
  ASSUME TypeOK, MarkerFollows, NEW c \in Coordinators,
         CoordStep(c) \/ RootTerminal(c) \/ ParkTimeout(c) \/ Unwind(c)
  PROVE  MarkerFollows'
<1> USE DEF CoordAt, TypeOK, WorkTypes, CoordTypes, ChanTypes
<1> USE DEF poolVars, workVars, coordVars, chanVars
<1>1. ASSUME \A d \in Coordinators \ {c} :
               cpc'[d] = cpc[d] /\ inbox'[d] = inbox[d] /\ marker'[d] = marker[d],
             \A v \in Workers : wpc[v] \in Announcing => wpc'[v] \in Announcing,
             \/ cpc'[c] \notin Attentive
             \/ inbox'[c] = {}
             \/ cpc[c] \in Attentive /\ inbox'[c] = inbox[c] /\ marker'[c] = marker[c]
      PROVE  MarkerFollows'
  BY <1>1, Zenon DEF MarkerFollows
<1>2. CASE ReportDrawn(c)
  BY <1>2, Zenon DEF ReportDrawn, WakeAll, MarkerFollows, Attentive
<1>3. CASE NotifyOne(c)
  <2>1. \A v \in Workers : wpc[v] \in Announcing => wpc'[v] \in Announcing
    BY <1>3, Zenon DEF NotifyOne, Announcing
  <2> QED BY <1>1, <1>3, <2>1, Zenon DEF NotifyOne, Attentive
<1>4. CASE RecallSome(c) \/ RecallAll(c)
  <2>1. UNCHANGED <<wpc, inbox, marker>>
    BY <1>4, Zenon DEF RecallSome, RecallAll, Recall
  <2>2. \/ cpc' = [cpc EXCEPT ![c] = "recalled"] /\ cpc[c] = "decide"
        \/ cpc' = [cpc EXCEPT ![c] = "aborting"]
    BY <1>4, Zenon DEF RecallSome, RecallAll
  <2> QED BY <1>1, <2>1, <2>2, Zenon DEF Attentive
<1>5. CASE DrainReport(c) \/ AbortReceive(c)
  <2>1. UNCHANGED <<wpc, marker>>
    BY <1>5, Zenon DEF DrainReport, AbortReceive, Receive
  <2>2. \A d \in Coordinators \ {c} : cpc'[d] = cpc[d] /\ inbox'[d] = inbox[d]
    BY <1>5, SMTT(30) DEF DrainReport, AbortReceive, Receive
  <2>3. cpc'[c] \notin Attentive
    BY <1>5, SMTT(30) DEF DrainReport, AbortReceive, Receive, Attentive
  <2> QED BY <1>1, <2>1, <2>2, <2>3, Zenon
<1>6. CASE DrainMarkers(c) \/ NoJobsOut(c) \/ Unpark(c) \/ ParkTimeout(c)
           \/ DispatchFails(c) \/ Leave(c) \/ Unwind(c)
  <2>1. UNCHANGED wpc
    BY <1>6, Zenon DEF DrainMarkers, NoJobsOut, Unpark, ParkTimeout, DispatchFails, Leave, Unwind
  <2>2. \A d \in Coordinators \ {c} :
          cpc'[d] = cpc[d] /\ inbox'[d] = inbox[d] /\ marker'[d] = marker[d]
    BY <1>6, Zenon DEF DrainMarkers, NoJobsOut, Unpark, ParkTimeout, DispatchFails, Leave, Unwind
  <2>3. cpc'[c] \notin Attentive
    BY <1>6, Zenon DEF DrainMarkers, NoJobsOut, Unpark, ParkTimeout, DispatchFails,
      Leave, Unwind, Attentive
  <2> QED BY <1>1, <2>1, <2>2, <2>3, Zenon
<1>7. CASE Dispatch(c) \/ Park(c) \/ RootTerminal(c)
  BY <1>1, <1>7, Zenon DEF Dispatch, Park, RootTerminal, Attentive
<1>8. CASE Drained(c)
  BY <1>1, <1>8, Zenon DEF Drained
<1> QED BY <1>2, <1>3, <1>4, <1>5, <1>6, <1>7, <1>8, Zenon DEF CoordStep

LEMMA DropKeepsMarkers ==
  ASSUME TypeOK, MarkerFollows, DropStep
  PROVE  MarkerFollows'
<1> USE DEF TypeOK, WorkTypes, poolVars, workVars, coordVars, chanVars
<1>1. CASE DropPool
  BY <1>1, Zenon DEF DropPool, MarkerFollows, Attentive
<1>2. CASE DropNotifies \/ DropJoins
  <2>1. \A v \in Workers : wpc[v] \in Announcing => wpc'[v] \in Announcing
    BY <1>2, Zenon DEF DropNotifies, DropJoins, AllAwake, Announcing
  <2> QED BY <1>2, <2>1, Zenon DEF DropNotifies, DropJoins, MarkerFollows
<1> QED BY <1>1, <1>2, Zenon DEF DropStep

(***************************************************************************)
(* A parked coordinator never sleeps on beside a report: the report's      *)
(* wake marker is on its channel or a worker is about to put it there      *)
(* (drain_wake_markers before drain_worker_reports; report before marker). *)
(***************************************************************************)
THEOREM MarkerNeverLost == Spec => []NoLostMarker
<1>1. Init => MarkerFollows
  BY Zenon DEF Init, MarkerFollows
<1>2. TypeOK /\ MarkerFollows /\ [Next]_vars => MarkerFollows'
  <2> SUFFICES ASSUME TypeOK, MarkerFollows, [Next]_vars PROVE MarkerFollows'
    BY Zenon
  <2>1. CASE UNCHANGED vars
    BY <2>1, Zenon DEF vars, workVars, coordVars, chanVars, MarkerFollows
  <2> QED BY <2>1, WorkerKeepsMarkers, CoordKeepsMarkers, DropKeepsMarkers, Zenon DEF Next
<1>3. IInv => TypeOK
  BY Zenon DEF IInv
<1>4. MarkerFollows => NoLostMarker
  BY Zenon DEF MarkerFollows, NoLostMarker, Attentive, Announcing
<1> QED BY <1>1, <1>2, <1>3, <1>4, PoolInvariant, PTL DEF Spec

-----------------------------------------------------------------------------
(***************************************************************************)
(* Notifications.  Only finitely many coordinators owe a notification (one *)
(* step adds one), and a pool that shuts down has no queue.                *)
(***************************************************************************)
Coming == {w \in Workers : wpc[w] = "take"}
Owed == {c \in Coordinators : cpc[c] = "notify"}
Asleep == {w \in Workers : wpc[w] = "asleep"}
Alarming == {w \in Workers : wpc[w] \in {"report", "wake"}}
Enough == Len(queue) <= Cardinality(Coming) + Cardinality(Owed)

Notified ==
  /\ IsFiniteSet(Owed)
  /\ shutdown => queue = <<>>
  /\ Asleep # {} /\ Alarming = {} => Enough

LEMMA Counts ==
  ASSUME TypeOK, IsFiniteSet(Owed)
  PROVE  /\ IsFiniteSet(Coming)
         /\ Cardinality(Coming) \in Nat /\ Cardinality(Owed) \in Nat
         /\ Len(queue) \in Nat
<1>1. IsFiniteSet(Coming)
  BY WorkersFinite, FS_Subset, Zenon DEF Coming
<1>2. Cardinality(Coming) \in Nat /\ Cardinality(Owed) \in Nat
  BY <1>1, FS_CardinalityType, Zenon
<1>3. Len(queue) \in Nat
  BY DEF TypeOK, PoolTypes
<1> QED BY <1>1, <1>2, <1>3, Zenon

LEMMA OneMore ==
  ASSUME NEW S, NEW T, NEW x, IsFiniteSet(S), x \notin S, T = S \cup {x}
  PROVE  IsFiniteSet(T) /\ Cardinality(T) = Cardinality(S) + 1
BY FS_AddElement, Zenon

LEMMA OneFewer ==
  ASSUME NEW S, NEW T, NEW x, IsFiniteSet(S), x \in S, T = S \ {x}
  PROVE  IsFiniteSet(T) /\ Cardinality(T) = Cardinality(S) - 1
BY FS_RemoveElement, Zenon

(* What recall leaves in the queue is no longer than the queue. *)
LEMMA RetainedShorter ==
  ASSUME NEW q \in Seq(Jobs), NEW S, NEW r \in Retained(q, S)
  PROVE  Len(r) \in Nat /\ Len(r) <= Len(q)
<1> DEFINE kept == {i \in DOMAIN q : q[i] \notin S}
           n == Cardinality(kept)
<1>1. DOMAIN q = 1..Len(q) /\ Len(q) \in Nat
  OBVIOUS
<1>2. IsFiniteSet(1..Len(q)) /\ Cardinality(1..Len(q)) = Len(q)
  BY <1>1, FS_Interval, SMTT(30)
<1>3. n \in Nat /\ n <= Len(q)
  BY <1>1, <1>2, FS_Subset, FS_CardinalityType
<1>4. r \in [1..n -> {q[i] : i \in kept}]
  BY Zenon DEF Retained
<1>5. Len(r) = n
  <2> HIDE DEF n, kept
  <2> DEFINE T == {q[i] : i \in kept}
  <2>1. r \in [1..n -> T]
    BY <1>4, Zenon
  <2> HIDE DEF T
  <2> QED BY <1>3, <2>1
<1> QED BY <1>3, <1>5, Zenon

(* A step that leaves the numbers alone, or shortens the queue. *)
LEMMA StaysEnough ==
  ASSUME TypeOK, TypeOK', Notified, Owed' = Owed, Coming' = Coming,
         Asleep' = {} \/ Asleep # {},
         Alarming' # {} \/ Alarming = {},
         Len(queue') <= Len(queue),
         (shutdown => queue = <<>>)'
  PROVE  Notified'
<1>1. Enough => Enough'
  <2>1. /\ Cardinality(Coming) \in Nat /\ Cardinality(Owed) \in Nat
        /\ Len(queue) \in Nat
    BY Counts, Zenon DEF Notified
  <2>2. Len(queue') \in Nat
    BY DEF TypeOK, PoolTypes
  <2>3. Cardinality(Coming') = Cardinality(Coming) /\ Cardinality(Owed') = Cardinality(Owed)
    BY Zenon
  <2> HIDE DEF Coming, Owed
  <2> QED BY <2>1, <2>2, <2>3 DEF Enough
<1> QED BY <1>1, Zenon DEF Notified

(* A step after which nobody sleeps, or everybody is about to be woken, or  *)
(* no job is left.                                                          *)
LEMMA NothingToDo ==
  ASSUME TypeOK', IsFiniteSet(Owed'), (shutdown => queue = <<>>)',
         Asleep' = {} \/ Alarming' # {} \/ queue' = <<>>
  PROVE  Notified'
<1>1. ASSUME queue' = <<>> PROVE Enough'
  <2>1. Cardinality(Coming') \in Nat /\ Cardinality(Owed') \in Nat
    <3>1. IsFiniteSet(Coming')
      BY WorkersFinite, FS_Subset, Zenon DEF Coming
    <3> QED BY <3>1, FS_CardinalityType, Zenon
  <2>2. Len(queue') = 0
    BY <1>1, Zenon
  <2> QED BY <2>1, <2>2 DEF Enough
<1> QED BY <1>1, Zenon DEF Notified

LEMMA WorkerKeepsNotified ==
  ASSUME IInv, Notified, NEW w \in Workers, WorkerStep(w) \/ SpuriousWake(w)
  PROVE  Notified'
<1>0. TypeOK /\ TypeOK'
  BY WorkerTypes, Zenon DEF IInv
<1> USE DEF WorkerAt, poolVars, workVars, coordVars, chanVars
<1>1. Owed' = Owed /\ IsFiniteSet(Owed')
  <2>1. UNCHANGED cpc
    BY Zenon DEF WorkerStep, WorkerGoesOn, SpuriousWake, TakeJob, TakeJobShutdown, TakeJobWait,
      ContinueRecalled, ContinueRotate, ContinueLocal, TurnReports, SendReport,
      WakeWaiters, TurnPanics, MarkWorkerFailed, SendStranded
  <2> QED BY <2>1, Zenon DEF Owed, Notified
<1>2. (shutdown => queue = <<>>)'
  BY Zenon DEF Notified, WorkerStep, WorkerGoesOn, SpuriousWake, TakeJob, TakeJobShutdown, TakeJobWait,
    ContinueRecalled, ContinueRotate, ContinueLocal, TurnReports, SendReport,
    WakeWaiters, TurnPanics, MarkWorkerFailed, SendStranded
<1>3. CASE TakeJobShutdown(w) \/ TakeJobWait(w)
  <2>1. queue' = <<>>
    BY <1>3, Zenon DEF TakeJobShutdown, TakeJobWait, Notified
  <2> QED BY <1>0, <1>1, <1>2, <2>1, NothingToDo, Zenon
<1>4. CASE ContinueRecalled(w) \/ TurnReports(w) \/ SendReport(w)
  <2>1. w \in Alarming'
    BY <1>0, <1>4, Zenon DEF ContinueRecalled, TurnReports, SendReport, Alarming,
      TypeOK, WorkTypes
  <2> QED BY <1>0, <1>1, <1>2, <2>1, NothingToDo, Zenon
<1>5. CASE WakeWaiters(w)
  <2>1. Asleep' = {}
    BY <1>0, <1>5, Zenon DEF WakeWaiters, AllAwake, Asleep, TypeOK, WorkTypes
  <2> QED BY <1>0, <1>1, <1>2, <2>1, NothingToDo, Zenon
<1>6. CASE ContinueRotate(w) \/ ContinueLocal(w)
  <2>1. Coming' = Coming /\ Asleep' = Asleep /\ Alarming' = Alarming
    BY <1>6, Zenon DEF ContinueRotate, ContinueLocal, Coming, Asleep, Alarming
  <2>2. Len(queue') <= Len(queue)
    <3>1. CASE ContinueRotate(w)
      <4>1. queue \in Seq(Jobs) /\ queue # <<>> /\ queue' = Append(Tail(queue), held[w])
        BY <1>0, <3>1, Zenon DEF ContinueRotate, TypeOK, PoolTypes
      <4>2. Tail(queue) \in Seq(Jobs) /\ Len(Tail(queue)) = Len(queue) - 1
        BY <4>1
      <4> QED BY <4>1, <4>2
    <3>2. CASE ContinueLocal(w)
      BY <1>0, <3>2, SMTT(30) DEF ContinueLocal, TypeOK, PoolTypes
    <3> QED BY <1>6, <3>1, <3>2, Zenon
  <2> QED BY <1>0, <1>1, <1>2, <2>1, <2>2, StaysEnough, Zenon
<1>7. CASE TurnPanics(w) \/ MarkWorkerFailed(w) \/ SendStranded(w)
  <2>1. Coming' = Coming /\ Asleep' = Asleep /\ Alarming' = Alarming
    BY <1>0, <1>7, SMTT(30) DEF TurnPanics, MarkWorkerFailed, SendStranded, Coming, Asleep,
      Alarming, TypeOK, WorkTypes
  <2>2. queue' = queue \/ queue' = <<>>
    BY <1>7, Zenon DEF TurnPanics, MarkWorkerFailed, SendStranded
  <2>3. Len(queue') <= Len(queue)
    BY <1>0, <2>2 DEF TypeOK, PoolTypes
  <2> QED BY <1>0, <1>1, <1>2, <2>1, <2>3, StaysEnough, Zenon
<1>8. CASE TakeJob(w)
  <2>1. Asleep' = Asleep /\ Alarming' = Alarming
    BY <1>0, <1>8, Zenon DEF TakeJob, Asleep, Alarming, TypeOK, WorkTypes
  <2>2. w \in Coming /\ Coming' = Coming \ {w}
    BY <1>0, <1>8, Zenon DEF TakeJob, Coming, TypeOK, WorkTypes
  <2>3. Cardinality(Coming') = Cardinality(Coming) - 1
    BY <1>0, <2>2, Counts, OneFewer, Zenon DEF Notified
  <2>4. Len(queue') = Len(queue) - 1
    BY <1>0, <1>8 DEF TakeJob, TypeOK, PoolTypes
  <2>5. Enough => Enough'
    BY <1>0, <1>1, <2>3, <2>4, Counts DEF Enough, Notified
  <2> QED BY <1>1, <1>2, <2>1, <2>5, Zenon DEF Notified
<1>9. CASE SpuriousWake(w)
  <2>1. w \in Asleep /\ Alarming' = Alarming
    BY <1>0, <1>9, Zenon DEF SpuriousWake, Asleep, Alarming, TypeOK, WorkTypes
  <2>2. w \notin Coming /\ Coming' = Coming \cup {w}
    BY <1>0, <1>9, SMTT(30) DEF SpuriousWake, Coming, TypeOK, WorkTypes
  <2>3. Cardinality(Coming') = Cardinality(Coming) + 1
    BY <1>0, <2>2, Counts, OneMore, Zenon DEF Notified
  <2>4. Len(queue') = Len(queue)
    BY <1>9, Zenon DEF SpuriousWake
  <2>5. Enough => Enough'
    BY <1>0, <1>1, <2>3, <2>4, Counts DEF Enough, Notified
  <2> QED BY <1>1, <1>2, <2>1, <2>5, Zenon DEF Notified
<1> QED BY <1>3, <1>4, <1>5, <1>6, <1>7, <1>8, <1>9, Zenon DEF WorkerStep, WorkerGoesOn

LEMMA CoordKeepsNotified ==
  ASSUME IInv, Notified, NEW c \in Coordinators,
         CoordStep(c) \/ RootTerminal(c) \/ ParkTimeout(c) \/ Unwind(c)
  PROVE  Notified'
<1>0. TypeOK /\ TypeOK' /\ IsFiniteSet(Owed)
  BY CoordTypesKept, Zenon DEF IInv, Notified
<1> USE DEF CoordAt, poolVars, workVars, coordVars, chanVars
<1>1. CASE Dispatch(c)
  <2>1. Asleep' = Asleep /\ Alarming' = Alarming /\ Coming' = Coming
    BY <1>1, Zenon DEF Dispatch, Asleep, Alarming, Coming
  <2>2. c \notin Owed /\ Owed' = Owed \cup {c}
    BY <1>0, <1>1, SMTT(30) DEF Dispatch, Owed, TypeOK, CoordTypes
  <2>3. IsFiniteSet(Owed') /\ Cardinality(Owed') = Cardinality(Owed) + 1
    BY <1>0, <2>2, OneMore, Zenon
  <2>4. Len(queue') = Len(queue) + 1 /\ ~shutdown'
    BY <1>0, <1>1, SMTT(30) DEF Dispatch, TypeOK, PoolTypes
  <2>5. Enough => Enough'
    BY <1>0, <2>1, <2>3, <2>4, Counts, SMTT(30) DEF Enough
  <2> QED BY <2>1, <2>3, <2>4, <2>5, Zenon DEF Notified
<1>2. CASE NotifyOne(c)
  <2>1. c \in Owed /\ Owed' = Owed \ {c} /\ UNCHANGED <<queue, shutdown>>
    BY <1>0, <1>2, Zenon DEF NotifyOne, Owed, TypeOK, CoordTypes
  <2>2. IsFiniteSet(Owed') /\ Cardinality(Owed') = Cardinality(Owed) - 1
    BY <1>0, <2>1, OneFewer, Zenon
  <2>3. CASE Asleep = {}
    <3>1. Asleep' = {}
      BY <1>2, <2>3, Zenon DEF NotifyOne, Asleep
    <3> QED BY <1>0, <2>1, <2>2, <3>1, NothingToDo, Zenon DEF Notified
  <2>4. CASE Asleep # {}
    <3>1. PICK w \in Asleep : wpc' = [wpc EXCEPT ![w] = "take"]
      BY <1>2, <2>4, Zenon DEF NotifyOne, Asleep
    <3>2. w \notin Coming /\ Coming' = Coming \cup {w} /\ Alarming' = Alarming
      BY <1>0, <3>1 DEF Asleep, Coming, Alarming, TypeOK, WorkTypes
    <3>3. Cardinality(Coming') = Cardinality(Coming) + 1
      BY <1>0, <3>2, Counts, OneMore, Zenon
    <3>4. Enough => Enough'
      BY <1>0, <2>1, <2>2, <3>3, Counts DEF Enough
    <3> QED BY <2>1, <2>2, <2>4, <3>2, <3>4, Zenon DEF Notified
  <2> QED BY <2>3, <2>4, Zenon
<1>3. ASSUME UNCHANGED <<wpc, shutdown>>, Owed' = Owed, Len(queue') <= Len(queue)
      PROVE  Notified'
  <2>1. Asleep' = Asleep /\ Alarming' = Alarming /\ Coming' = Coming
    BY <1>3, Zenon DEF Asleep, Alarming, Coming
  <2>2. (shutdown => queue = <<>>)'
    BY <1>0, <1>3 DEF Notified, TypeOK, PoolTypes
  <2> QED BY <1>0, <1>3, <2>1, <2>2, StaysEnough, Zenon
<1>4. CASE RecallSome(c) \/ RecallAll(c)
  <2>1. PICK S : Recall(c, S)
    BY <1>4, Zenon DEF RecallSome, RecallAll
  <2>2. Len(queue') <= Len(queue)
    BY <1>0, <2>1, RetainedShorter, Zenon DEF Recall, TypeOK, PoolTypes
  <2>3. Owed' = Owed
    BY <1>0, <1>4, Zenon DEF RecallSome, RecallAll, Owed, TypeOK, CoordTypes
  <2> QED BY <1>3, <2>1, <2>2, <2>3, Zenon DEF Recall
<1>5. CASE DrainReport(c) \/ AbortReceive(c)
  <2>1. UNCHANGED <<wpc, shutdown, queue>>
    BY <1>5, Zenon DEF DrainReport, AbortReceive, Receive
  <2>2. Owed' = Owed
    BY <1>0, <1>5, SMTT(30) DEF DrainReport, AbortReceive, Receive, Owed, TypeOK, CoordTypes
  <2> QED BY <1>0, <1>3, <2>1, <2>2 DEF TypeOK, PoolTypes
<1>6. CASE \/ DispatchFails(c) \/ ReportDrawn(c) \/ DrainMarkers(c) \/ Drained(c)
           \/ NoJobsOut(c) \/ Park(c) \/ Unpark(c) \/ Leave(c) \/ RootTerminal(c)
           \/ ParkTimeout(c) \/ Unwind(c)
  <2>1. UNCHANGED <<wpc, shutdown, queue>>
    BY <1>6, Zenon DEF DispatchFails, ReportDrawn, DrainMarkers, Drained, NoJobsOut, Park,
      Unpark, Leave, RootTerminal, ParkTimeout, Unwind
  <2>2. \/ UNCHANGED cpc
        \/ /\ cpc[c] # "notify"
           /\ \E p \in {"loop", "drain", "decide", "parked", "abort", "gone"} :
                cpc' = [cpc EXCEPT ![c] = p]
    BY <1>6, Zenon DEF DispatchFails, ReportDrawn, DrainMarkers, Drained, NoJobsOut,
      Park, Unpark, Leave, RootTerminal, ParkTimeout, Unwind
  <2>3. Owed' = Owed
    BY <1>0, <2>2, Zenon DEF Owed, TypeOK, CoordTypes
  <2> QED BY <1>0, <1>3, <2>1, <2>3 DEF TypeOK, PoolTypes
<1> QED BY <1>1, <1>2, <1>4, <1>5, <1>6, Zenon DEF CoordStep

LEMMA DropKeepsNotified ==
  ASSUME IInv, Notified, DropStep
  PROVE  Notified'
<1>0. TypeOK /\ TypeOK'
  BY DropTypes, Zenon DEF IInv
<1> USE DEF poolVars, workVars, coordVars, chanVars
<1>1. Owed' = Owed /\ IsFiniteSet(Owed')
  <2>1. UNCHANGED cpc
    BY Zenon DEF DropStep, DropPool, DropNotifies, DropJoins
  <2> QED BY <2>1, Zenon DEF Owed, Notified
<1>2. (shutdown => queue = <<>>)'
  BY Zenon DEF DropStep, DropPool, DropNotifies, DropJoins, Notified
<1>3. CASE DropPool
  BY <1>0, <1>1, <1>2, <1>3, NothingToDo, Zenon DEF DropPool
<1>4. CASE DropNotifies
  <2>1. Asleep' = {}
    BY <1>0, <1>4, Zenon DEF DropNotifies, AllAwake, Asleep, TypeOK, WorkTypes
  <2> QED BY <1>0, <1>1, <1>2, <2>1, NothingToDo, Zenon
<1>5. CASE DropJoins
  BY <1>5, Zenon DEF DropJoins, Notified, Enough, Owed, Coming, Asleep, Alarming
<1> QED BY <1>3, <1>4, <1>5, Zenon DEF DropStep

(***************************************************************************)
(* No worker sleeps on beside a queued job that nobody is coming for: the  *)
(* one notification that follows each dispatch is enough, whatever the     *)
(* workers and the other coordinators do between unlock and notify_one.    *)
(***************************************************************************)
THEOREM NotificationNeverLost == Spec => []NoIdleBesideWork
<1>1. Init => Notified
  <2> SUFFICES ASSUME Init PROVE Notified
    BY Zenon
  <2>1. Owed = {} /\ Asleep = {} /\ queue = <<>>
    BY Zenon DEF Init, Owed, Asleep
  <2> QED BY <2>1, FS_EmptySet, Zenon DEF Notified
<1>2. IInv /\ Notified /\ [Next]_vars => Notified'
  <2> SUFFICES ASSUME IInv, Notified, [Next]_vars PROVE Notified'
    BY Zenon
  <2>1. CASE UNCHANGED vars
    BY <2>1, Zenon DEF vars, poolVars, workVars, coordVars, Notified, Enough, Owed,
      Coming, Asleep, Alarming
  <2> QED BY <2>1, WorkerKeepsNotified, CoordKeepsNotified, DropKeepsNotified, Zenon DEF Next
<1>3. Notified => NoIdleBesideWork
  BY Zenon DEF Notified, NoIdleBesideWork, Enough, Owed, Coming, Asleep, Alarming
<1> QED BY <1>1, <1>2, <1>3, PoolInvariant, PTL DEF Spec

-----------------------------------------------------------------------------
(***************************************************************************)
(* Yield flags: WaitingJobIsNoticed is preserved beside IInv as it stands. *)
(***************************************************************************)
LEMMA WorkerKeepsNotice ==
  ASSUME IInv, WaitingJobIsNoticed, NEW w \in Workers,
         WorkerStep(w) \/ SpuriousWake(w)
  PROVE  WaitingJobIsNoticed'
<1>0. TypeOK /\ WorkerLocals
  BY Zenon DEF IInv
<1> USE DEF WorkerAt, poolVars, workVars, coordVars, chanVars
<1>1. CASE TakeJob(w) \/ ContinueRotate(w)
  <2>1. held'[w] \in yield' \/ queue' = <<>>
    BY <1>0, <1>1, Zenon DEF TakeJob, ContinueRotate, FlagFor, TypeOK, WorkTypes
  <2> QED BY <2>1, Zenon DEF WaitingJobIsNoticed
<1>2. CASE ContinueLocal(w)
  BY <1>2, Zenon DEF ContinueLocal, WaitingJobIsNoticed
<1>3. CASE ~(TakeJob(w) \/ ContinueRotate(w) \/ ContinueLocal(w))
  <2>1. wpc'[w] # "turn"
    BY <1>0, <1>3, Zenon DEF WorkerStep, WorkerGoesOn, SpuriousWake, TakeJobShutdown, TakeJobWait,
      ContinueRecalled, TurnReports, SendReport, WakeWaiters, AllAwake,
      TurnPanics, MarkWorkerFailed, SendStranded, TypeOK, WorkTypes
  <2> QED BY <2>1, Zenon DEF WaitingJobIsNoticed
<1> QED BY <1>1, <1>2, <1>3, Zenon

LEMMA CoordKeepsNotice ==
  ASSUME IInv, WaitingJobIsNoticed, NEW c \in Coordinators,
         CoordStep(c) \/ RootTerminal(c) \/ ParkTimeout(c) \/ Unwind(c)
  PROVE  WaitingJobIsNoticed'
<1>0. TypeOK /\ WorkerLocals /\ HeldApart
  BY Zenon DEF IInv, Apart
<1> USE DEF CoordAt, poolVars, workVars, coordVars, chanVars
<1>1. CASE Dispatch(c)
  <2> SUFFICES ASSUME \A w \in Workers : live[w] /\ wpc[w] = "turn"
               PROVE  \E w \in Workers : held[w] \in yield'
    BY <1>1, Zenon DEF Dispatch, WaitingJobIsNoticed
  <2>1. \A w \in Workers : running[w] = held[w] /\ held[w] # NoJob
    BY <1>0, Zenon DEF WorkerLocals
  <2>2. yield' = yield \cup Running
    BY <1>1, <2>1, Zenon DEF Dispatch
  <2>3. PICK w \in Workers : live[w]
    BY <1>1, Zenon DEF Dispatch, AnyLive
  <2> QED BY <2>1, <2>2, <2>3, Zenon DEF Running
<1>2. ASSUME UNCHANGED <<live, held>>,
             queue # <<>> \/ queue' = <<>>,
             \A v \in Workers : wpc'[v] = "turn" => wpc[v] = "turn",
             \A v \in Workers : held[v] \in yield => held[v] \in yield'
      PROVE  WaitingJobIsNoticed'
  BY <1>2, Zenon DEF WaitingJobIsNoticed
<1>3. CASE NotifyOne(c)
  <2>1. \A v \in Workers : wpc'[v] = "turn" => wpc[v] = "turn"
    BY <1>0, <1>3, Zenon DEF NotifyOne, TypeOK, WorkTypes
  <2> QED BY <1>2, <1>3, <2>1, Zenon DEF NotifyOne
<1>4. CASE RecallSome(c) \/ RecallAll(c)
  <2>1. PICK S : Recall(c, S)
    BY <1>4, Zenon DEF RecallSome, RecallAll
  <2>2. queue # <<>> \/ queue' = <<>>
    <3>1. Len(queue') \in Nat /\ Len(queue') <= Len(queue)
      BY <1>0, <2>1, RetainedShorter, Zenon DEF Recall, TypeOK, PoolTypes
    <3>2. queue' \in Seq(Jobs)
      BY CoordTypesKept, Zenon DEF TypeOK, PoolTypes
    <3> QED BY <3>1, <3>2
  <2> QED BY <1>2, <2>1, <2>2, Zenon DEF Recall
<1>5. CASE ReportDrawn(c)
  <2>1. \A v \in Workers : held[v] \in yield => held[v] \in yield'
    BY <1>0, <1>5, Zenon DEF ReportDrawn, HeldApart
  <2> QED BY <1>2, <1>5, <2>1, Zenon DEF ReportDrawn
<1>6. CASE DrainReport(c) \/ AbortReceive(c)
  BY <1>2, <1>6, Zenon DEF DrainReport, AbortReceive, Receive
<1>7. CASE \/ DispatchFails(c) \/ DrainMarkers(c) \/ Drained(c) \/ NoJobsOut(c)
           \/ Park(c) \/ Unpark(c) \/ Leave(c) \/ RootTerminal(c)
           \/ ParkTimeout(c) \/ Unwind(c)
  <2>1. UNCHANGED <<poolVars, workVars>>
    BY <1>7, Zenon DEF DispatchFails, DrainMarkers, Drained, NoJobsOut, Park, Unpark,
      Leave, RootTerminal, ParkTimeout, Unwind
  <2> QED BY <1>2, <2>1, Zenon
<1> QED BY <1>1, <1>3, <1>4, <1>5, <1>6, <1>7, Zenon DEF CoordStep

(***************************************************************************)
(* While every worker is alive and busy and a job waits, some running job  *)
(* has been asked to yield (dispatch, take_job, rotation, recall).         *)
(***************************************************************************)
THEOREM WaitingJobAlwaysNoticed == Spec => []WaitingJobIsNoticed
<1>1. Init => WaitingJobIsNoticed
  BY Zenon DEF Init, WaitingJobIsNoticed
<1>2. IInv /\ WaitingJobIsNoticed /\ [Next]_vars => WaitingJobIsNoticed'
  <2> SUFFICES ASSUME IInv, WaitingJobIsNoticed, [Next]_vars
               PROVE  WaitingJobIsNoticed'
    BY Zenon
  <2>1. CASE UNCHANGED vars
    BY <2>1, Zenon DEF vars, poolVars, workVars, WaitingJobIsNoticed
  <2>2. CASE DropStep
    <3>1. CASE DropPool
      BY <3>1, Zenon DEF DropPool, WaitingJobIsNoticed
    <3>2. CASE DropNotifies \/ DropJoins
      BY <3>2 DEF DropNotifies, DropJoins, AllAwake, WaitingJobIsNoticed, IInv,
        TypeOK, WorkTypes, poolVars, workVars
    <3> QED BY <2>2, <3>1, <3>2, Zenon DEF DropStep
  <2> QED BY <2>1, <2>2, WorkerKeepsNotice, CoordKeepsNotice, Zenon DEF Next
<1> QED BY <1>1, <1>2, PoolInvariant, PTL DEF Spec
=============================================================================
