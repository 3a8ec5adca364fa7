---------------------------- MODULE ExecutionFuel ----------------------------
(***************************************************************************)
(* The instruction budget that every machine of one world shares           *)
(* (lm-vm/src/executor.rs, ExecutionFuel).  Two atomics hold it: the fuel  *)
(* that nobody has claimed and the number of claims in progress.  Worker   *)
(* threads claim fuel with a compare-and-swap loop, run a turn, and give   *)
(* back what the turn did not retire.  The coordinator thread may run a    *)
(* machine inline and charge the fuel afterwards (lm-vm/src/world/run.rs). *)
(*                                                                         *)
(* One action is one atomic access of the code.  The accesses are either   *)
(* on one location or ordered by acquire/release pairs, so interleaving    *)
(* them is faithful.                                                       *)
(***************************************************************************)
EXTENDS Integers, FiniteSets, FiniteSetsExt

CONSTANTS
  Workers,   \* worker threads
  Driver,    \* the coordinator thread, which drives machines inline
  Budget,    \* the fuel of a new world
  MaxLimit   \* the largest amount one turn asks for

ASSUME WorkersFinite  == IsFiniteSet(Workers)
ASSUME DriverIsOther  == Driver \notin Workers
ASSUME BudgetIsNat    == Budget \in Nat
ASSUME MaxLimitIsPos  == MaxLimit \in Nat \ {0}

VARIABLES
  remaining,      \* ExecutionFuel::remaining
  active_claims,  \* ExecutionFuel::active_claims
  pc,             \* where each thread is
  current,        \* the local `current` of claim, `available` of the driver
  limit,          \* the argument of claim, the instruction limit of a slice
  claimed,        \* fuel a thread holds and has not retired or returned
  spent           \* instructions that were retired and paid for

vars == <<remaining, active_claims, pc, current, limit, claimed, spent>>

Threads == Workers \cup {Driver}

Init ==
  /\ remaining = Budget
  /\ active_claims = 0
  /\ pc = [t \in Threads |-> "idle"]
  /\ current = [t \in Threads |-> 0]
  /\ limit = [t \in Threads |-> 1]
  /\ claimed = [t \in Threads |-> 0]
  /\ spent = 0

Goto(t, from, to) ==
  /\ pc[t] = from
  /\ pc' = [pc EXCEPT ![t] = to]

(***************************************************************************)
(* ExecutionFuel::claim.  A claim that would take everything takes the     *)
(* larger half instead, unless only one unit is left.                      *)
(***************************************************************************)
Portion(cur, lim) ==
  LET requested == IF cur < lim THEN cur ELSE lim
  IN  IF cur <= lim /\ requested > 1 THEN (requested + 1) \div 2 ELSE requested

\* add_active_claim at the start of claim.
BeginClaim(w) ==
  /\ Goto(w, "idle", "load")
  /\ active_claims' = active_claims + 1
  /\ \E l \in 1..MaxLimit : limit' = [limit EXCEPT ![w] = l]
  /\ UNCHANGED <<remaining, current, claimed, spent>>

\* add_active_claim after the status loop saw fuel again.
RetryClaim(w) ==
  /\ Goto(w, "readd", "load")
  /\ active_claims' = active_claims + 1
  /\ UNCHANGED <<remaining, current, limit, claimed, spent>>

AfterRead(w, amount) == IF Portion(amount, limit[w]) = 0 THEN "withdraw" ELSE "swap"

LoadRemaining(w) ==
  /\ Goto(w, "load", AfterRead(w, remaining))
  /\ current' = [current EXCEPT ![w] = remaining]
  /\ UNCHANGED <<remaining, active_claims, limit, claimed, spent>>

\* Mutant: a plain store instead of a compare-and-swap.
SwapOk_NoCompare(w) ==
  LET amount == Portion(current[w], limit[w])
  IN  /\ Goto(w, "swap", "held")
      /\ remaining' = remaining - amount
      /\ claimed' = [claimed EXCEPT ![w] = amount]
      /\ UNCHANGED <<active_claims, current, limit, spent>>

\* compare_exchange_weak succeeds.
SwapOk(w) ==
  LET amount == Portion(current[w], limit[w])
  IN  /\ Goto(w, "swap", "held")
      /\ remaining = current[w]
      /\ remaining' = remaining - amount
      /\ claimed' = [claimed EXCEPT ![w] = amount]
      /\ UNCHANGED <<active_claims, current, limit, spent>>

\* compare_exchange_weak fails, possibly spuriously, and reloads.
SwapFail(w) ==
  /\ Goto(w, "swap", AfterRead(w, remaining))
  /\ current' = [current EXCEPT ![w] = remaining]
  /\ UNCHANGED <<remaining, active_claims, limit, claimed, spent>>

\* Mutant: a claim that finds nothing leaves without giving up its count.
WithdrawClaim_NoSub(w) ==
  /\ Goto(w, "withdraw", IF active_claims > 1 THEN "idle" ELSE "status1")
  /\ UNCHANGED <<remaining, active_claims, current, limit, claimed, spent>>

\* Nothing to claim: leave, and look closer when no other claim is active.
WithdrawClaim(w) ==
  /\ Goto(w, "withdraw", IF active_claims > 1 THEN "idle" ELSE "status1")
  /\ active_claims' = active_claims - 1
  /\ UNCHANGED <<remaining, current, limit, claimed, spent>>

(***************************************************************************)
(* ExecutionFuel::status, three loads.  A claiming worker that learns that *)
(* fuel is available claims again, the driver starts over.                 *)
(***************************************************************************)
Status1(t) ==
  /\ Goto(t, "status1", IF remaining = 0 THEN "status2"
                        ELSE IF t = Driver THEN "idle" ELSE "readd")
  /\ UNCHANGED <<remaining, active_claims, current, limit, claimed, spent>>

Status2(t) ==
  /\ Goto(t, "status2", IF active_claims = 0 THEN "status3" ELSE "idle")
  /\ UNCHANGED <<remaining, active_claims, current, limit, claimed, spent>>

Status3(t) ==
  /\ Goto(t, "status3", IF remaining = 0 THEN "exhausted" ELSE "status1")
  /\ UNCHANGED <<remaining, active_claims, current, limit, claimed, spent>>

(***************************************************************************)
(* A worker turn retires part of its claim; dropping the claim returns the *)
(* rest (release) and then leaves (finish_claim).                          *)
(***************************************************************************)
RunTurn(w) ==
  /\ Goto(w, "held", "release")
  /\ \E r \in 0..claimed[w] :
       /\ claimed' = [claimed EXCEPT ![w] = @ - r]
       /\ spent' = spent + r
  /\ UNCHANGED <<remaining, active_claims, current, limit>>

\* Mutant: the unused fuel is returned without leaving the claim's record.
Release_KeepsClaim(w) ==
  /\ Goto(w, "release", "finish")
  /\ remaining' = remaining + claimed[w]
  /\ UNCHANGED <<active_claims, current, limit, claimed, spent>>

Release(w) ==
  /\ Goto(w, "release", "finish")
  /\ remaining' = remaining + claimed[w]
  /\ claimed' = [claimed EXCEPT ![w] = 0]
  /\ UNCHANGED <<active_claims, current, limit, spent>>

FinishClaim(w) ==
  /\ Goto(w, "finish", "idle")
  /\ active_claims' = active_claims - 1
  /\ UNCHANGED <<remaining, current, limit, claimed, spent>>

(***************************************************************************)
(* Inline execution: read what is available, run at most that much, charge *)
(* it.  charge asserts that the counter does not underflow.  While worker  *)
(* claims are active the coordinator runs machines inline only from        *)
(* snapshot_wait, one instruction at a time, so the limit is 1 here.       *)
(***************************************************************************)
ReadAvailable(d) ==
  /\ Goto(d, "idle", IF remaining = 0 THEN "status1" ELSE "inline")
  /\ current' = [current EXCEPT ![d] = remaining]
  /\ UNCHANGED <<remaining, active_claims, limit, claimed, spent>>

RunInline(d) ==
  /\ Goto(d, "inline", "charge")
  /\ \E r \in 0..limit[d] : claimed' = [claimed EXCEPT ![d] = r]
  /\ UNCHANGED <<remaining, active_claims, current, limit, spent>>

Charge(d) ==
  /\ Goto(d, "charge", "idle")
  /\ claimed[d] <= remaining
  /\ remaining' = remaining - claimed[d]
  /\ spent' = spent + claimed[d]
  /\ claimed' = [claimed EXCEPT ![d] = 0]
  /\ UNCHANGED <<active_claims, current, limit>>

ChargeUnderflow(d) ==
  /\ Goto(d, "charge", "panicked")
  /\ claimed[d] > remaining
  /\ UNCHANGED <<remaining, active_claims, current, limit, claimed, spent>>

WorkerStep(w) ==
  \/ BeginClaim(w) \/ RetryClaim(w) \/ LoadRemaining(w) \/ SwapOk(w)
  \/ SwapFail(w) \/ WithdrawClaim(w) \/ RunTurn(w) \/ Release(w)
  \/ FinishClaim(w)

DriverStep(d) ==
  ReadAvailable(d) \/ RunInline(d) \/ Charge(d) \/ ChargeUnderflow(d)

StatusStep(t) == Status1(t) \/ Status2(t) \/ Status3(t)

Next ==
  \/ \E w \in Workers : WorkerStep(w)
  \/ DriverStep(Driver)
  \/ \E t \in Threads : StatusStep(t)

Spec == Init /\ [][Next]_vars
-----------------------------------------------------------------------------
Labels ==
  {"idle", "readd", "load", "swap", "withdraw", "status1", "status2",
   "status3", "held", "release", "finish", "exhausted"}

DriverLabels ==
  {"idle", "inline", "charge", "panicked", "status1", "status2", "status3",
   "exhausted"}

\* Type invariant of the two atomics and of the thread-local variables.
TypeOK ==
  /\ remaining \in Nat
  /\ active_claims \in Nat
  /\ pc \in [Threads -> Labels \cup DriverLabels]
  /\ \A w \in Workers : pc[w] \in Labels
  /\ pc[Driver] \in DriverLabels
  /\ current \in [Threads -> Nat]
  /\ limit \in [Threads -> 1..MaxLimit]
  /\ claimed \in [Threads -> Nat]
  /\ spent \in Nat

\* The workers between their add_active_claim and the matching fetch_sub.
Claiming ==
  {w \in Workers :
     pc[w] \in {"load", "swap", "withdraw", "held", "release", "finish"}}

\* active_claims counts exactly the claims in progress, whatever the
\* interleaving of retries and withdrawals.  The assertions that the counter
\* neither underflows nor overflows in claim and finish_claim follow.
ClaimCountExact == active_claims = Cardinality(Claiming)

\* The units of fuel that workers hold under claims f, one element each.
Units(f) == UNION {{w} \X (1..f[w]) : w \in Workers}

\* No unit of fuel is lost or created by claim, release and charge: what is
\* free, what workers hold and what was paid for always add up to the budget.
FuelConserved == remaining + Cardinality(Units(claimed)) + spent = Budget

\* A thread reports OutOfFuel only when the budget is really used up: nothing
\* is free and no claim in progress can return fuel (FuelStatus::Exhausted).
ExhaustedIsFinal ==
  \A t \in Threads : pc[t] = "exhausted" =>
    remaining = 0 /\ \A w \in Workers : claimed[w] = 0

\* The assertion in charge, "the world fuel counter cannot underflow".
ChargeCovered == pc[Driver] # "panicked"
=============================================================================
