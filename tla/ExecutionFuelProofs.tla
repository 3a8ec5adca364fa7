------------------------- MODULE ExecutionFuelProofs -------------------------
(***************************************************************************)
(* ExecutionFuel for any number of workers and any budget: the variables   *)
(* keep their types, and active_claims is exactly the number of claims in  *)
(* progress, so none of the counter assertions of claim and finish_claim   *)
(* can fail.                                                               *)
(***************************************************************************)
EXTENDS ExecutionFuel, FiniteSetTheorems, TLAPS

InClaim == {"load", "swap", "withdraw", "held", "release", "finish"}

\* What a claim takes is at most what it saw (the arithmetic of claim).
LEMMA PortionBound ==
  ASSUME NEW cur \in Nat, NEW lim \in 1..MaxLimit
  PROVE  Portion(cur, lim) \in Nat /\ Portion(cur, lim) <= cur
  BY MaxLimitIsPos DEF Portion

\* The set of claims in progress is finite and its size is a number.
LEMMA ClaimingFinite == IsFiniteSet(Claiming) /\ Cardinality(Claiming) \in Nat
<1>1. Claiming \subseteq Workers
  BY Zenon DEF Claiming
<1> QED
  BY <1>1, WorkersFinite, FS_Subset, FS_CardinalityType, Zenon

\* add_active_claim: the counter and the set of claims grow together.
LEMMA ClaimEnters ==
  ASSUME TypeOK, ClaimCountExact, NEW w \in Workers, NEW l \in InClaim,
         pc[w] \notin InClaim, pc' = [pc EXCEPT ![w] = l],
         active_claims' = active_claims + 1
  PROVE  ClaimCountExact' /\ active_claims' \in Nat
<1>1. Claiming' = Claiming \cup {w} /\ w \notin Claiming
  BY Zenon DEF Claiming, InClaim, TypeOK, Threads
<1>2. Cardinality(Claiming \cup {w}) = Cardinality(Claiming) + 1
  BY <1>1, ClaimingFinite, FS_AddElement, Zenon
<1> QED
  BY <1>1, <1>2, ClaimingFinite DEF ClaimCountExact

\* fetch_sub in claim and finish_claim: the counter and the set shrink
\* together, and the counter was not zero.
LEMMA ClaimLeaves ==
  ASSUME TypeOK, ClaimCountExact, NEW w \in Workers, NEW l,
         l \notin InClaim, pc[w] \in InClaim, pc' = [pc EXCEPT ![w] = l],
         active_claims' = active_claims - 1
  PROVE  ClaimCountExact' /\ active_claims' \in Nat
<1>1. Claiming' = Claiming \ {w} /\ w \in Claiming
  BY Zenon DEF Claiming, InClaim, TypeOK, Threads
<1>2. /\ Cardinality(Claiming \ {w}) = Cardinality(Claiming) - 1
      /\ Cardinality(Claiming \ {w}) \in Nat
  BY <1>1, ClaimingFinite, FS_RemoveElement, FS_CardinalityType, Zenon
<1> QED
  BY <1>1, <1>2, Zenon DEF ClaimCountExact

\* A step inside or outside a claim changes neither counter nor set.
LEMMA ClaimStays ==
  ASSUME TypeOK, ClaimCountExact, NEW t \in Threads, NEW l,
         (l \in InClaim) <=> (pc[t] \in InClaim),
         pc' = [pc EXCEPT ![t] = l], active_claims' = active_claims
  PROVE  ClaimCountExact' /\ active_claims' \in Nat
<1>1. Claiming' = Claiming
  BY Zenon DEF Claiming, InClaim, TypeOK, Threads
<1> QED
  BY <1>1, Zenon DEF ClaimCountExact, TypeOK

\* The type invariant and the exact claim count are inductive together: a
\* withdrawal keeps the counter in Nat only because the counter includes it.
IInv == TypeOK /\ ClaimCountExact

LEMMA WorkerKeepsIInv ==
  ASSUME IInv, NEW w \in Workers, WorkerStep(w)
  PROVE  IInv'
<1> USE DEF IInv
<1>0. w \in Threads /\ w # Driver
  BY DriverIsOther, Zenon DEF Threads
<1>a. \A x \in Nat : AfterRead(w, x) \in {"withdraw", "swap"}
  BY Zenon DEF AfterRead
<1>1. CASE BeginClaim(w)
  <2>1. ClaimCountExact' /\ active_claims' \in Nat
    BY <1>1, ClaimEnters, Zenon DEF BeginClaim, Goto, InClaim
  <2> QED
    BY <1>1, <1>0, <2>1, Zenon DEF BeginClaim, Goto, TypeOK, Threads, Labels
<1>2. CASE RetryClaim(w)
  <2>1. ClaimCountExact' /\ active_claims' \in Nat
    BY <1>2, ClaimEnters, Zenon DEF RetryClaim, Goto, InClaim
  <2> QED
    BY <1>2, <1>0, <2>1, Zenon DEF RetryClaim, Goto, TypeOK, Threads, Labels
<1>3. CASE LoadRemaining(w)
  <2>1. AfterRead(w, remaining) \in {"withdraw", "swap"}
    BY <1>a, Zenon DEF TypeOK
  <2>2. ClaimCountExact' /\ active_claims' \in Nat
    BY <1>3, <1>0, <2>1, ClaimStays, Zenon DEF LoadRemaining, Goto, InClaim
  <2> QED
    BY <1>3, <1>0, <2>1, <2>2, Zenon DEF LoadRemaining, Goto, TypeOK, Threads, Labels
<1>4. CASE SwapOk(w)
  <2>1. ClaimCountExact' /\ active_claims' \in Nat
    BY <1>4, <1>0, ClaimStays, Zenon DEF SwapOk, Goto, InClaim
  <2> DEFINE amount == Portion(current[w], limit[w])
  <2>2. amount \in Nat /\ amount <= current[w]
    BY <1>0, PortionBound, Zenon DEF TypeOK
  <2> HIDE DEF amount
  <2>3. /\ remaining' = remaining - amount /\ remaining = current[w]
        /\ claimed' = [claimed EXCEPT ![w] = amount]
    BY <1>4, Zenon DEF SwapOk, amount
  <2>4. remaining' \in Nat
    BY <2>2, <2>3, <1>0 DEF TypeOK
  <2> QED
    BY <1>4, <1>0, <2>1, <2>2, <2>3, <2>4, Zenon
       DEF SwapOk, Goto, TypeOK, Threads, Labels
<1>5. CASE SwapFail(w)
  <2>1. AfterRead(w, remaining) \in {"withdraw", "swap"}
    BY <1>a, Zenon DEF TypeOK
  <2>2. ClaimCountExact' /\ active_claims' \in Nat
    BY <1>5, <1>0, <2>1, ClaimStays, Zenon DEF SwapFail, Goto, InClaim
  <2> QED
    BY <1>5, <1>0, <2>1, <2>2, Zenon DEF SwapFail, Goto, TypeOK, Threads, Labels
<1>6. CASE WithdrawClaim(w)
  <2>0. PICK l \in {"idle", "status1"} :
          pc[w] = "withdraw" /\ pc' = [pc EXCEPT ![w] = l]
    BY <1>6, Zenon DEF WithdrawClaim, Goto
  <2>1. ClaimCountExact' /\ active_claims' \in Nat
    BY <1>6, <2>0, ClaimLeaves, Zenon DEF WithdrawClaim, InClaim
  <2> QED
    BY <1>6, <1>0, <2>1, Zenon DEF WithdrawClaim, Goto, TypeOK, Threads, Labels
<1>7. CASE RunTurn(w)
  <2>1. ClaimCountExact' /\ active_claims' \in Nat
    BY <1>7, <1>0, ClaimStays, Zenon DEF RunTurn, Goto, InClaim
  <2>2. PICK r \in 0..claimed[w] :
          claimed' = [claimed EXCEPT ![w] = claimed[w] - r] /\ spent' = spent + r
    BY <1>7, Zenon DEF RunTurn
  <2>3. claimed[w] - r \in Nat /\ spent + r \in Nat
    BY <1>0, <2>2 DEF TypeOK
  <2> QED
    BY <1>7, <1>0, <2>1, <2>2, <2>3, Zenon DEF RunTurn, Goto, TypeOK, Threads, Labels
<1>8. CASE Release(w)
  <2>1. ClaimCountExact' /\ active_claims' \in Nat
    BY <1>8, <1>0, ClaimStays, Zenon DEF Release, Goto, InClaim
  <2> QED
    BY <1>8, <1>0, <2>1 DEF Release, Goto, TypeOK, Threads, Labels
<1>9. CASE FinishClaim(w)
  <2>1. ClaimCountExact' /\ active_claims' \in Nat
    BY <1>9, ClaimLeaves, Zenon DEF FinishClaim, Goto, InClaim
  <2> QED
    BY <1>9, <1>0, <2>1, Zenon DEF FinishClaim, Goto, TypeOK, Threads, Labels
<1> QED
  BY <1>1, <1>2, <1>3, <1>4, <1>5, <1>6, <1>7, <1>8, <1>9, Zenon DEF WorkerStep

LEMMA DriverKeepsIInv ==
  ASSUME IInv, DriverStep(Driver)
  PROVE  IInv'
<1> USE DEF IInv
<1>0. Driver \in Threads /\ Driver \notin Workers
  BY DriverIsOther, Zenon DEF Threads
<1>1. CASE ReadAvailable(Driver)
  <2>1. ClaimCountExact' /\ active_claims' \in Nat
    BY <1>1, <1>0, ClaimStays, Zenon DEF ReadAvailable, Goto, InClaim
  <2> QED
    BY <1>1, <1>0, <2>1, Zenon
       DEF ReadAvailable, Goto, TypeOK, Threads, Labels, DriverLabels
<1>2. CASE RunInline(Driver)
  <2>1. ClaimCountExact' /\ active_claims' \in Nat
    BY <1>2, <1>0, ClaimStays, Zenon DEF RunInline, Goto, InClaim
  <2> QED
    BY <1>2, <1>0, <2>1
       DEF RunInline, Goto, TypeOK, Threads, Labels, DriverLabels
<1>3. CASE Charge(Driver)
  <2>1. ClaimCountExact' /\ active_claims' \in Nat
    BY <1>3, <1>0, ClaimStays, Zenon DEF Charge, Goto, InClaim
  <2> QED
    BY <1>3, <1>0, <2>1
       DEF Charge, Goto, TypeOK, Threads, Labels, DriverLabels
<1>4. CASE ChargeUnderflow(Driver)
  <2>1. ClaimCountExact' /\ active_claims' \in Nat
    BY <1>4, <1>0, ClaimStays, Zenon DEF ChargeUnderflow, Goto, InClaim
  <2> QED
    BY <1>4, <1>0, <2>1, Zenon
       DEF ChargeUnderflow, Goto, TypeOK, Threads, Labels, DriverLabels
<1> QED
  BY <1>1, <1>2, <1>3, <1>4, Zenon DEF DriverStep

LEMMA StatusKeepsIInv ==
  ASSUME IInv, NEW t \in Threads, StatusStep(t)
  PROVE  IInv'
<1> USE DEF IInv
<1> DEFINE To == {"status1", "status2", "status3", "idle", "readd", "exhausted"}
<1>1. PICK l \in To :
        /\ pc' = [pc EXCEPT ![t] = l]
        /\ t = Driver => l # "readd"
        /\ pc[t] \in {"status1", "status2", "status3"}
        /\ UNCHANGED <<remaining, active_claims, current, limit, claimed, spent>>
  BY Zenon DEF StatusStep, Status1, Status2, Status3, Goto
<1>2. ClaimCountExact' /\ active_claims' \in Nat
  BY <1>1, ClaimStays, Zenon DEF InClaim
<1> QED
  BY <1>1, <1>2, DriverIsOther, Zenon DEF TypeOK, Threads, Labels, DriverLabels

\* The units held are finitely many.
LEMMA UnitsFinite ==
  ASSUME NEW f \in [Threads -> Nat]
  PROVE  IsFiniteSet(Units(f)) /\ Cardinality(Units(f)) \in Nat
<1> DEFINE Parts == {{w} \X (1..f[w]) : w \in Workers}
<1>1. ASSUME NEW P \in Parts PROVE IsFiniteSet(P)
  <2>1. PICK w \in Workers : P = {w} \X (1..f[w])
    BY <1>1, Zenon
  <2>2. f[w] \in Int
    BY DEF Threads
  <2>3. IsFiniteSet({w})
    BY FS_Singleton, Zenon
  <2>4. IsFiniteSet(1..f[w])
    BY <2>2, FS_Interval
  <2> QED
    BY <2>1, <2>3, <2>4, FS_Product, Zenon
<1>2. IsFiniteSet(Parts)
  <2> DEFINE part == [w \in Workers |-> {w} \X (1..f[w])]
  <2>1. part \in Surjection(Workers, Parts)
    BY Zenon DEF Surjection
  <2> QED
    BY <2>1, WorkersFinite, FS_Surjection, Zenon
<1>3. IsFiniteSet(UNION Parts)
  BY <1>1, <1>2, FS_UNION, Zenon
<1> QED
  BY <1>3, FS_CardinalityType, Zenon DEF Units

\* A worker's claim of k units accounts for k of the units.
LEMMA UnitsSplit ==
  ASSUME NEW f \in [Threads -> Nat], NEW w \in Workers
  PROVE  LET others == Units(f) \ ({w} \X Nat)
         IN  /\ IsFiniteSet(others) /\ Cardinality(others) \in Nat
             /\ Cardinality(Units(f)) = Cardinality(others) + f[w]
<1> DEFINE others == Units(f) \ ({w} \X Nat)
<1> DEFINE own == {w} \X (1..f[w])
<1>1. f[w] \in Nat
  BY Zenon DEF Threads
<1>2. IsFiniteSet({w}) /\ Cardinality({w}) = 1
  BY FS_Singleton, Zenon
<1>3. IsFiniteSet(1..f[w]) /\ Cardinality(1..f[w]) = f[w]
  <2>1. /\ IsFiniteSet(1..f[w])
        /\ Cardinality(1..f[w]) = IF 1 > f[w] THEN 0 ELSE f[w] - 1 + 1
    BY <1>1, FS_Interval, SMTT(30)
  <2> QED
    BY <1>1, <2>1
<1>4. IsFiniteSet(own) /\ Cardinality(own) = f[w]
  <2>1. IsFiniteSet(own) /\ Cardinality(own) = Cardinality({w}) * Cardinality(1..f[w])
    BY <1>2, <1>3, FS_Product, Zenon
  <2> QED
    BY <2>1, <1>1, <1>2, <1>3
<1>5. IsFiniteSet(others) /\ Cardinality(others) \in Nat
  BY UnitsFinite, FS_Subset, FS_CardinalityType, Zenon
<1>6. Units(f) = others \cup own /\ others \cap own = {}
  <2>1. own \subseteq Units(f)
    BY Zenon DEF Units
  <2>2. ASSUME NEW u \in Units(f), u \in {w} \X Nat PROVE u \in own
    <3>1. PICK v \in Workers : u \in {v} \X (1..f[v])
      BY Zenon DEF Units
    <3>2. v = w
      BY <2>2, <3>1, Zenon
    <3> QED
      BY <3>1, <3>2, Zenon
  <2>3. own \subseteq {w} \X Nat
    BY <1>1
  <2> QED
    BY <2>1, <2>2, <2>3, Zenon
<1>7. Cardinality(others \cup own) = Cardinality(others) + Cardinality(own) - Cardinality({})
  BY <1>4, <1>5, <1>6, FS_Union
<1>8. Cardinality(Units(f)) = Cardinality(others) + f[w]
  <2>1. Cardinality({}) = 0
    BY FS_EmptySet, Zenon
  <2>2. Cardinality(Units(f)) = Cardinality(others) + Cardinality(own) - 0
    BY <1>6, <1>7, <2>1, Zenon
  <2> HIDE DEF others, own
  <2> QED
    BY <1>1, <1>4, <1>5, <2>2
<1> HIDE DEF others
<1> QED
  BY <1>5, <1>8, Zenon DEF others

\* A change of one claim changes the number of units by as much.
LEMMA UnitsChange ==
  ASSUME NEW f \in [Threads -> Nat], NEW w \in Workers, NEW n \in Nat
  PROVE  Cardinality(Units([f EXCEPT ![w] = n])) = Cardinality(Units(f)) - f[w] + n
<1> DEFINE g == [f EXCEPT ![w] = n]
<1>1. g \in [Threads -> Nat] /\ g[w] = n /\ f[w] \in Nat
  BY Zenon DEF Threads
<1>2. Units(g) \ ({w} \X Nat) = Units(f) \ ({w} \X Nat)
  <2>1. ASSUME NEW u, u \notin {w} \X Nat PROVE u \in Units(g) <=> u \in Units(f)
    <3>1. ASSUME NEW v \in Workers
          PROVE  u \in {v} \X (1..g[v]) <=> u \in {v} \X (1..f[v])
      <4>1. CASE v = w
        BY <4>1, <2>1, <1>1
      <4>2. CASE v # w
        BY <4>2, Zenon DEF Threads
      <4> QED
        BY <4>1, <4>2, Zenon
    <3> HIDE DEF g
    <3> QED
      BY <3>1 DEF Units
  <2> QED
    BY <2>1, Zenon
<1> DEFINE others == Units(f) \ ({w} \X Nat)
<1>3. Cardinality(others) \in Nat /\ Cardinality(Units(f)) = Cardinality(others) + f[w]
  BY UnitsSplit, Zenon
<1>4. Cardinality(Units(g)) = Cardinality(others) + n
  BY <1>1, <1>2, UnitsSplit, ZenonT(60)
<1> HIDE DEF others, g
<1>5. Cardinality(Units(g)) = Cardinality(Units(f)) - f[w] + n
  BY <1>1, <1>3, <1>4
<1> QED
  BY <1>5, Zenon DEF g

\* active_claims counts exactly the claims in progress in every reachable
\* state, for every set of workers and every budget.
THEOREM ClaimCountCorrect == Spec => [](TypeOK /\ ClaimCountExact)
<1>1. Init => IInv
  <2> SUFFICES ASSUME Init PROVE IInv
    BY Zenon
  <2>1. TypeOK
    BY BudgetIsNat, MaxLimitIsPos, DriverIsOther
       DEF Init, TypeOK, Threads, Labels, DriverLabels
  <2>2. Claiming = {}
    BY Zenon DEF Init, Claiming, Threads
  <2> QED
    BY <2>1, <2>2, FS_EmptySet, Zenon DEF IInv, ClaimCountExact, Init
<1>2. IInv /\ [Next]_vars => IInv'
  <2> SUFFICES ASSUME IInv, [Next]_vars PROVE IInv'
    BY Zenon
  <2>1. CASE \E w \in Workers : WorkerStep(w)
    BY <2>1, WorkerKeepsIInv, Zenon
  <2>2. CASE DriverStep(Driver)
    BY <2>2, DriverKeepsIInv, Zenon
  <2>3. CASE \E t \in Threads : StatusStep(t)
    BY <2>3, StatusKeepsIInv, Zenon
  <2>4. CASE UNCHANGED vars
    BY <2>4, Zenon DEF IInv, TypeOK, ClaimCountExact, Claiming, vars
  <2> QED
    BY <2>1, <2>2, <2>3, <2>4, Zenon DEF Next
<1>3. IInv => TypeOK /\ ClaimCountExact
  BY Zenon DEF IInv
<1> QED
  BY <1>1, <1>2, <1>3, PTL DEF Spec

\* A worker that is not between its swap and its release holds nothing: what
\* FuelConserved needs to be inductive, since a swap overwrites the claim.
HoldsWhileClaimed ==
  \A w \in Workers : pc[w] \notin {"held", "release"} => claimed[w] = 0

\* One worker moves d units between its claim, the counter and what is spent.
LEMMA UnitsMove ==
  ASSUME TypeOK, FuelConserved, NEW w \in Workers, NEW n \in Nat,
         claimed' = [claimed EXCEPT ![w] = n],
         remaining' \in Nat, spent' \in Nat,
         remaining' + n + spent' = remaining + claimed[w] + spent
  PROVE  FuelConserved'
<1>1. claimed \in [Threads -> Nat] /\ claimed[w] \in Nat
  BY Zenon DEF TypeOK, Threads
<1> DEFINE before == Cardinality(Units(claimed))
<1> DEFINE after == Cardinality(Units(claimed'))
<1>2. after = before - claimed[w] + n /\ before \in Nat
  BY <1>1, UnitsChange, UnitsFinite, Zenon
<1>3. remaining \in Nat /\ spent \in Nat /\ remaining + before + spent = Budget
  BY Zenon DEF TypeOK, FuelConserved
<1>4. Units(claimed)' = Units(claimed')
  BY Zenon DEF Units
<1> HIDE DEF before, after
<1>5. remaining' + after + spent' = Budget
  BY <1>1, <1>2, <1>3
<1> QED
  BY <1>4, <1>5, Zenon DEF FuelConserved, after

\* A step that moves no fuel of a worker.
LEMMA UnitsStay ==
  ASSUME TypeOK, FuelConserved, Units(claimed)' = Units(claimed),
         remaining' \in Nat, spent' \in Nat,
         remaining' = remaining + (spent - spent')
  PROVE  FuelConserved'
<1> DEFINE units == Cardinality(Units(claimed))
<1>1. units \in Nat
  BY UnitsFinite, Zenon DEF TypeOK
<1>2. remaining \in Nat /\ spent \in Nat /\ remaining + units + spent = Budget
  BY Zenon DEF TypeOK, FuelConserved
<1> HIDE DEF units
<1>3. remaining' + units + spent' = Budget
  BY <1>1, <1>2
<1> QED
  BY <1>3, Zenon DEF FuelConserved, units

LEMMA WorkerKeepsFuel ==
  ASSUME TypeOK, TypeOK', HoldsWhileClaimed, FuelConserved,
         NEW w \in Workers, WorkerStep(w)
  PROVE  HoldsWhileClaimed' /\ FuelConserved'
<1>0. w \in Threads /\ remaining' \in Nat /\ spent' \in Nat
  BY Zenon DEF Threads, TypeOK
<1>1. CASE SwapOk(w)
  <2> DEFINE amount == Portion(current[w], limit[w])
  <2>1. amount \in Nat
    BY <1>0, PortionBound, Zenon DEF TypeOK
  <2>2. claimed[w] = 0
    BY <1>1, Zenon DEF SwapOk, Goto, HoldsWhileClaimed
  <2>3. /\ remaining' = remaining - amount /\ spent' = spent
        /\ claimed' = [claimed EXCEPT ![w] = amount]
        /\ pc' = [pc EXCEPT ![w] = "held"]
    BY <1>1, Zenon DEF SwapOk, Goto
  <2> HIDE DEF amount
  <2>4. remaining' + amount + spent' = remaining + claimed[w] + spent
    BY <2>1, <2>2, <2>3 DEF TypeOK
  <2>5. FuelConserved'
    BY <1>0, <2>1, <2>3, <2>4, UnitsMove, Zenon
  <2> QED
    BY <2>3, <2>5, <1>0, Zenon DEF HoldsWhileClaimed, TypeOK, Threads
<1>2. CASE RunTurn(w)
  <2>1. PICK r \in 0..claimed[w] :
          claimed' = [claimed EXCEPT ![w] = claimed[w] - r] /\ spent' = spent + r
    BY <1>2, Zenon DEF RunTurn
  <2>2. claimed[w] \in Nat /\ claimed[w] - r \in Nat /\ r \in Nat
    BY <1>0, <2>1 DEF TypeOK
  <2>3. remaining' + (claimed[w] - r) + spent' = remaining + claimed[w] + spent
    BY <1>2, <2>1, <2>2 DEF RunTurn, TypeOK
  <2>4. FuelConserved'
    BY <1>0, <2>1, <2>2, <2>3, UnitsMove, Zenon
  <2> QED
    BY <1>2, <2>1, <2>4, <1>0, Zenon DEF RunTurn, Goto, HoldsWhileClaimed, TypeOK, Threads
<1>3. CASE Release(w)
  <2>1. remaining' + 0 + spent' = remaining + claimed[w] + spent
    BY <1>3, <1>0 DEF Release, TypeOK
  <2>2. FuelConserved'
    BY <1>3, <1>0, <2>1, UnitsMove, Zenon DEF Release
  <2> QED
    BY <1>3, <2>2, <1>0, Zenon DEF Release, Goto, HoldsWhileClaimed, TypeOK, Threads
<1>4. ASSUME UNCHANGED <<remaining, claimed, spent>>,
             NEW l, l \notin {"held", "release"}, pc' = [pc EXCEPT ![w] = l],
             pc[w] \notin {"held", "release"}
      PROVE  HoldsWhileClaimed' /\ FuelConserved'
  <2>1. Units(claimed)' = Units(claimed)
    BY <1>4, Zenon DEF Units
  <2>2. FuelConserved'
    BY <1>4, <1>0, <2>1, UnitsStay
  <2> QED
    BY <1>4, <2>2, <1>0, Zenon DEF HoldsWhileClaimed, TypeOK, Threads
<1>5. \A x : AfterRead(w, x) \notin {"held", "release"}
  BY Zenon DEF AfterRead
<1>6. CASE BeginClaim(w) \/ RetryClaim(w) \/ FinishClaim(w)
  BY <1>4, <1>6, Zenon DEF BeginClaim, RetryClaim, FinishClaim, Goto
<1>7. CASE LoadRemaining(w) \/ SwapFail(w)
  BY <1>4, <1>5, <1>7, Zenon DEF LoadRemaining, SwapFail, Goto
<1>8. CASE WithdrawClaim(w)
  BY <1>4, <1>8, Zenon DEF WithdrawClaim, Goto
<1> QED
  BY <1>1, <1>2, <1>3, <1>6, <1>7, <1>8, Zenon DEF WorkerStep

LEMMA DriverKeepsFuel ==
  ASSUME TypeOK, TypeOK', HoldsWhileClaimed, FuelConserved, DriverStep(Driver)
  PROVE  HoldsWhileClaimed' /\ FuelConserved'
<1>1. /\ \A w \in Workers : claimed'[w] = claimed[w] /\ pc'[w] = pc[w]
      /\ remaining' = remaining + (spent - spent')
  <2>1. CASE Charge(Driver)
    <3>1. remaining' = remaining - claimed[Driver] /\ spent' = spent + claimed[Driver]
      BY <2>1, Zenon DEF Charge
    <3>2. claimed[Driver] \in Nat
      BY Zenon DEF TypeOK, Threads
    <3>3. remaining' = remaining + (spent - spent')
      BY <3>1, <3>2 DEF TypeOK
    <3> QED
      BY <2>1, <3>3, DriverIsOther, Zenon DEF Charge, Goto, TypeOK, Threads
  <2>2. CASE ReadAvailable(Driver) \/ RunInline(Driver) \/ ChargeUnderflow(Driver)
    <3>1. UNCHANGED <<remaining, spent>>
      BY <2>2, Zenon DEF ReadAvailable, RunInline, ChargeUnderflow
    <3>2. remaining' = remaining + (spent - spent')
      BY <3>1 DEF TypeOK
    <3>3. \A w \in Workers : claimed'[w] = claimed[w] /\ pc'[w] = pc[w]
      BY <2>2, DriverIsOther, Zenon
         DEF ReadAvailable, RunInline, ChargeUnderflow, Goto, TypeOK, Threads
    <3> QED
      BY <3>2, <3>3, Zenon
  <2> QED
    BY <2>1, <2>2, Zenon DEF DriverStep
<1>2. Units(claimed)' = Units(claimed)
  BY <1>1, Zenon DEF Units
<1>3. FuelConserved'
  BY <1>1, <1>2, UnitsStay, Zenon DEF TypeOK
<1> QED
  BY <1>1, <1>3, Zenon DEF HoldsWhileClaimed

LEMMA StatusKeepsFuel ==
  ASSUME TypeOK, TypeOK', HoldsWhileClaimed, FuelConserved,
         NEW t \in Threads, StatusStep(t)
  PROVE  HoldsWhileClaimed' /\ FuelConserved'
<1>1. /\ UNCHANGED <<remaining, claimed, spent>>
      /\ \A w \in Workers : pc'[w] = pc[w] \/ pc[w] \in {"status1", "status2", "status3"}
  <2>1. CASE Status1(t)
    BY <2>1, Zenon DEF Status1, Goto, TypeOK, Threads
  <2>2. CASE Status2(t)
    BY <2>2, Zenon DEF Status2, Goto, TypeOK, Threads
  <2>3. CASE Status3(t)
    BY <2>3, Zenon DEF Status3, Goto, TypeOK, Threads
  <2> QED
    BY <2>1, <2>2, <2>3, Zenon DEF StatusStep
<1>2. Units(claimed)' = Units(claimed)
  BY <1>1, Zenon DEF Units
<1>3. FuelConserved'
  BY <1>1, <1>2, UnitsStay DEF TypeOK
<1> QED
  BY <1>1, <1>3, Zenon DEF HoldsWhileClaimed

\* No fuel is lost or created, for every set of workers and every budget: a
\* claim, a turn, a release and an inline charge move units between the
\* counter, the workers' hands and what was paid for, and do nothing else.
THEOREM FuelIsConserved == Spec => []FuelConserved
<1> DEFINE FInv == HoldsWhileClaimed /\ FuelConserved
<1>1. Init => FInv
  <2> SUFFICES ASSUME Init PROVE FInv
    BY Zenon
  <2>1. HoldsWhileClaimed
    BY Zenon DEF Init, HoldsWhileClaimed, Threads
  <2>2. Units(claimed) = {}
    BY DEF Init, Units, Threads
  <2>3. Cardinality(Units(claimed)) = 0
    BY <2>2, FS_EmptySet, Zenon
  <2> QED
    BY <2>1, <2>3, BudgetIsNat DEF Init, FuelConserved
<1>2. TypeOK /\ TypeOK' /\ FInv /\ [Next]_vars => FInv'
  <2> SUFFICES ASSUME TypeOK, TypeOK', FInv, [Next]_vars PROVE FInv'
    BY Zenon
  <2>1. CASE \E w \in Workers : WorkerStep(w)
    BY <2>1, WorkerKeepsFuel, Zenon
  <2>2. CASE DriverStep(Driver)
    BY <2>2, DriverKeepsFuel, Zenon
  <2>3. CASE \E t \in Threads : StatusStep(t)
    BY <2>3, StatusKeepsFuel, Zenon
  <2>4. CASE UNCHANGED vars
    BY <2>4, Zenon DEF vars, HoldsWhileClaimed, FuelConserved, Units
  <2> QED
    BY <2>1, <2>2, <2>3, <2>4, Zenon DEF Next
<1> QED
  BY <1>1, <1>2, ClaimCountCorrect, PTL DEF Spec
=============================================================================
