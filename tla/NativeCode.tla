------------------------------ MODULE NativeCode ------------------------------
(***************************************************************************)
(* The cache of compiled regions (lm-vm/src/jit/cache.rs).  The slots of a *)
(* layout are shared by the worker threads of every world that runs it; no *)
(* lock protects them.  A slot has a verdict that is set once, a flag that *)
(* lets one thread compile at a time, and an entry cell through which      *)
(* other native code jumps (lm-jit/src/lib.rs, NativeEntryCell).  All      *)
(* slots share one budget of code bytes.                                   *)
(*                                                                         *)
(* One action is one atomic access.  A region is named by the thread that  *)
(* compiled it: a thread has at most one region of a slot in its hands.    *)
(* The compiler's answer is left open, so the backend may also fail for a  *)
(* function that another thread has just compiled.  All threads run one    *)
(* revision, and what they compile for a slot has one size and contract:   *)
(* revisions that share a slot but give the compiler other behaviours or   *)
(* relocations are outside the model.  The slots are candidates that do    *)
(* not prefer the interpreter.                                             *)
(***************************************************************************)
EXTENDS Integers, FiniteSets

CONSTANTS
  Threads,     \* the threads that run machines
  Slots,       \* the function slots of one layout
  Nobody,      \* no region
  Size,        \* code_size of the region of each slot
  Limit,       \* CodeBudget::limit
  AutoWork,    \* AUTO_COMPILE_WORK
  SampleCount  \* ENTRY_SAMPLE_COUNT

ASSUME ThreadsFinite == IsFiniteSet(Threads) /\ IsFiniteSet(Slots)
ASSUME NobodyIsOther == Nobody \notin Threads
ASSUME SizeIsNat     == Size \in [Slots -> Nat]
ASSUME LimitIsNat    == Limit \in Nat
ASSUME WorkIsPos     == AutoWork \in Nat \ {0} /\ SampleCount \in Nat \ {0}

VARIABLES
  verdict,         \* NativeSlot::verdict: "none", "ok" or "err"
  region,          \* the region a verdict "ok" retains
  compiling,       \* NativeSlot::compiling
  capacity_epoch,  \* NativeSlot::capacity_epoch, NoEpoch at first
  code,            \* NativeEntryCell::code
  tier,            \* NativeSlot::tier
  productivity,    \* NativeSlot::productivity
  alive,           \* slots that some revision still holds
  used, epoch,     \* CodeBudget
  compiled,        \* NativeCodeRevision::compiled
  pc, slot,        \* where each thread is, and in which slot
  seen,            \* the local budget_epoch of region
  sample           \* the local state of note_native_exit

slotVars == <<verdict, region, compiling, capacity_epoch, code>>
heatVars == <<tier, productivity>>
locals == <<slot, seen, sample>>
budgetVars == <<used, epoch>>
vars == <<slotVars, heatVars, alive, budgetVars, compiled, pc, locals>>

NoEpoch == -1
TierCompiled == AutoWork + 1
TierDenied == AutoWork + 2
Proven == SampleCount + 1
Denied == SampleCount + 2

Init ==
  /\ verdict = [s \in Slots |-> "none"]
  /\ region = [s \in Slots |-> Nobody]
  /\ compiling = [s \in Slots |-> FALSE]
  /\ capacity_epoch = [s \in Slots |-> NoEpoch]
  /\ code = [s \in Slots |-> Nobody]
  /\ tier = [s \in Slots |-> 0]
  /\ productivity = [s \in Slots |-> 0]
  /\ alive = Slots
  /\ used = 0 /\ epoch = 0
  /\ compiled = 0
  /\ pc = [t \in Threads |-> "idle"]
  /\ slot \in {f \in [Threads -> Slots] : \A t, u \in Threads : f[t] = f[u]}
  /\ seen = [t \in Threads |-> 0]
  /\ sample = [t \in Threads |-> 0]

Goto(t, from, to) ==
  /\ pc[t] = from
  /\ pc' = [pc EXCEPT ![t] = to]

(***************************************************************************)
(* NativeSlot::region.                                                     *)
(***************************************************************************)
(* verdict.get finds nothing. *)
Look(t, s) ==
  /\ s \in alive /\ verdict[s] = "none"
  /\ Goto(t, "idle", "epoch")
  /\ slot' = [slot EXCEPT ![t] = s]
  /\ UNCHANGED <<slotVars, heatVars, alive, budgetVars, compiled, seen, sample>>

LoadEpoch(t) ==
  /\ Goto(t, "epoch", "check")
  /\ seen' = [seen EXCEPT ![t] = epoch]
  /\ UNCHANGED <<slotVars, heatVars, alive, budgetVars, compiled, slot, sample>>

(* RegionFailure::Capacity when nothing was released since the refusal. *)
CheckCapacity(t) ==
  /\ Goto(t, "check",
          IF capacity_epoch[slot[t]] = seen[t] THEN "idle" ELSE "claim")
  /\ UNCHANGED <<slotVars, heatVars, alive, budgetVars, compiled, locals>>

(* Mutant: the flag is stored, and its old value is not looked at. *)
Claim_Stores(t) ==
  /\ Goto(t, "claim", "compile")
  /\ compiling' = [compiling EXCEPT ![slot[t]] = TRUE]
  /\ UNCHANGED <<verdict, region, capacity_epoch, code, heatVars, alive,
                 budgetVars, compiled, locals>>

(* The exchange on compiling; RegionFailure::Busy when another compiles. *)
Claim(t) ==
  /\ \/ /\ compiling[slot[t]]
        /\ Goto(t, "claim", "idle")
        /\ UNCHANGED compiling
     \/ /\ ~compiling[slot[t]]
        /\ Goto(t, "claim", "compile")
        /\ compiling' = [compiling EXCEPT ![slot[t]] = TRUE]
  /\ UNCHANGED <<verdict, region, capacity_epoch, code, heatVars, alive,
                 budgetVars, compiled, locals>>

Compile(t) ==
  /\ \/ Goto(t, "compile", "reserve")
     \/ Goto(t, "compile", "seterr")
  /\ UNCHANGED <<slotVars, heatVars, alive, budgetVars, compiled, locals>>

(* Mutant: the limit is compared with what was used before. *)
Reserve_Late(t) ==
  LET fits == used <= Limit
  IN  /\ Goto(t, "reserve", IF fits THEN "prepare" ELSE "refuse")
      /\ used' = IF fits THEN used + Size[slot[t]] ELSE used
      /\ UNCHANGED <<slotVars, heatVars, alive, epoch, compiled, locals>>

(* CodeBudget::reserve *)
Reserve(t) ==
  LET fits == used + Size[slot[t]] <= Limit
  IN  /\ Goto(t, "reserve", IF fits THEN "prepare" ELSE "refuse")
      /\ used' = IF fits THEN used + Size[slot[t]] ELSE used
      /\ UNCHANGED <<slotVars, heatVars, alive, epoch, compiled, locals>>

(* Mutant: the refusal is dated with the epoch of the moment. *)
Refuse_Now(t) ==
  /\ Goto(t, "refuse", "clear")
  /\ capacity_epoch' = [capacity_epoch EXCEPT ![slot[t]] = epoch]
  /\ UNCHANGED <<verdict, region, compiling, code, heatVars, alive, budgetVars,
                 compiled, locals>>

Refuse(t) ==
  /\ Goto(t, "refuse", "clear")
  /\ capacity_epoch' = [capacity_epoch EXCEPT ![slot[t]] = seen[t]]
  /\ UNCHANGED <<verdict, region, compiling, code, heatVars, alive, budgetVars,
                 compiled, locals>>

(* Mutant: publish is called where prepare is meant. *)
Prepare_Publishes(t) ==
  /\ \/ /\ Goto(t, "prepare", "setok")
        /\ code' = [code EXCEPT ![slot[t]] = t]
     \/ /\ Goto(t, "prepare", "sub_err")
        /\ UNCHANGED code
  /\ UNCHANGED <<verdict, region, compiling, capacity_epoch, heatVars, alive,
                 budgetVars, compiled, locals>>

(***************************************************************************)
(* entry.prepare fails for a contract that is too wide.  In one revision   *)
(* every region of a slot has the same contract, so it is not state here.  *)
(***************************************************************************)
Prepare(t) ==
  /\ \/ Goto(t, "prepare", "setok")
     \/ Goto(t, "prepare", "sub_err")
  /\ UNCHANGED <<slotVars, heatVars, alive, budgetVars, compiled, locals>>

(***************************************************************************)
(* CodeBudget::release, two accesses: after a failed prepare, after a      *)
(* verdict that came too late, and when a slot is dropped.                 *)
(***************************************************************************)
ReleaseBytes(t) ==
  /\ \/ Goto(t, "sub_err", "bump_err")
     \/ Goto(t, "sub_busy", "bump_busy")
     \/ Goto(t, "sub_drop", "bump_drop")
  /\ used' = used - Size[slot[t]]
  /\ UNCHANGED <<slotVars, heatVars, alive, epoch, compiled, locals>>

BumpEpoch(t) ==
  /\ \/ Goto(t, "bump_err", "seterr")
     \/ Goto(t, "bump_busy", "clear")
     \/ Goto(t, "bump_drop", "uncount")
  /\ epoch' = epoch + 1
  /\ UNCHANGED <<slotVars, heatVars, alive, used, compiled, locals>>

(* verdict.set with an error has no effect on a verdict that exists. *)
SetErr(t) ==
  /\ Goto(t, "seterr", "deny")
  /\ verdict' = [verdict EXCEPT ![slot[t]] = IF @ = "none" THEN "err" ELSE @]
  /\ UNCHANGED <<region, compiling, capacity_epoch, code, heatVars, alive,
                 budgetVars, compiled, locals>>

Deny(t) ==
  /\ Goto(t, "deny", "clear")
  /\ tier' = [tier EXCEPT ![slot[t]] = TierDenied]
  /\ UNCHANGED <<slotVars, productivity, alive, budgetVars, compiled, locals>>

(* Mutant: a region that came too late keeps its bytes. *)
SetOk_KeepsBytes(t) ==
  LET s == slot[t]
  IN  /\ \/ /\ verdict[s] = "none"
            /\ Goto(t, "setok", "count")
            /\ verdict' = [verdict EXCEPT ![s] = "ok"]
            /\ region' = [region EXCEPT ![s] = t]
         \/ /\ verdict[s] # "none"
            /\ Goto(t, "setok", "clear")
            /\ UNCHANGED <<verdict, region>>
      /\ UNCHANGED <<compiling, capacity_epoch, code, heatVars, alive,
                     budgetVars, compiled, locals>>

(* verdict.set with the region; it fails when another thread came first. *)
SetOk(t) ==
  LET s == slot[t]
  IN  /\ \/ /\ verdict[s] = "none"
            /\ Goto(t, "setok", "count")
            /\ verdict' = [verdict EXCEPT ![s] = "ok"]
            /\ region' = [region EXCEPT ![s] = t]
         \/ /\ verdict[s] # "none"
            /\ Goto(t, "setok", "sub_busy")
            /\ UNCHANGED <<verdict, region>>
      /\ UNCHANGED <<compiling, capacity_epoch, code, heatVars, alive,
                     budgetVars, compiled, locals>>

Count(t) ==
  /\ Goto(t, "count", "tier")
  /\ compiled' = compiled + 1
  /\ UNCHANGED <<slotVars, heatVars, alive, budgetVars, locals>>

SetTier(t) ==
  /\ Goto(t, "tier", "publish")
  /\ tier' = [tier EXCEPT ![slot[t]] = TierCompiled]
  /\ UNCHANGED <<slotVars, productivity, alive, budgetVars, compiled, locals>>

(* entry.publish_prepared *)
Publish(t) ==
  /\ Goto(t, "publish", "clear")
  /\ code' = [code EXCEPT ![slot[t]] = t]
  /\ UNCHANGED <<verdict, region, compiling, capacity_epoch, heatVars, alive,
                 budgetVars, compiled, locals>>

Clear(t) ==
  /\ Goto(t, "clear", "idle")
  /\ compiling' = [compiling EXCEPT ![slot[t]] = FALSE]
  /\ UNCHANGED <<verdict, region, capacity_epoch, code, heatVars, alive,
                 budgetVars, compiled, locals>>

(***************************************************************************)
(* Heat.  add_work and promote never touch a tier that is compiled or      *)
(* denied; a verdict on productivity is final.                             *)
(***************************************************************************)
Capped(work) == IF work < AutoWork THEN work ELSE AutoWork

(* Mutant: work is added whatever the tier. *)
AddWork_Always(t, s) ==
  /\ s \in alive /\ pc[t] = "idle"
  /\ \E weight \in 1..AutoWork : tier' = [tier EXCEPT ![s] = Capped(@ + weight)]
  /\ UNCHANGED <<slotVars, productivity, alive, budgetVars, compiled, pc, locals>>

(* A weight above AutoWork acts as AutoWork does. *)
AddWork(t, s) ==
  /\ s \in alive /\ pc[t] = "idle"
  /\ tier[s] < AutoWork
  /\ \E weight \in 1..AutoWork : tier' = [tier EXCEPT ![s] = Capped(@ + weight)]
  /\ UNCHANGED <<slotVars, productivity, alive, budgetVars, compiled, pc, locals>>

(* promote looks at productivity, then updates the tier. *)
PromoteLook(t, s) ==
  /\ s \in alive /\ productivity[s] # Denied
  /\ Goto(t, "idle", "promote")
  /\ slot' = [slot EXCEPT ![t] = s]
  /\ UNCHANGED <<slotVars, heatVars, alive, budgetVars, compiled, seen, sample>>

Promote(t) ==
  /\ Goto(t, "promote", "idle")
  /\ tier' = [tier EXCEPT ![slot[t]] = IF @ < AutoWork THEN AutoWork ELSE @]
  /\ UNCHANGED <<slotVars, productivity, alive, budgetVars, compiled, locals>>

(* note_native_exit loads, then exchanges until it succeeds. *)
LoadProductivity(t, s) ==
  /\ s \in alive /\ verdict[s] = "ok" /\ productivity[s] < SampleCount
  /\ Goto(t, "idle", "exchange")
  /\ slot' = [slot EXCEPT ![t] = s]
  /\ sample' = [sample EXCEPT ![t] = productivity[s]]
  /\ UNCHANGED <<slotVars, heatVars, alive, budgetVars, compiled, seen>>

NextProductivity(state, enough) ==
  IF enough THEN Proven ELSE IF state + 1 >= SampleCount THEN Denied ELSE state + 1

ExchangeProductivity(t) ==
  LET s == slot[t]
  IN  /\ \/ /\ productivity[s] = sample[t]
            /\ Goto(t, "exchange", "idle")
            /\ \E enough \in BOOLEAN :
                 productivity' = [productivity EXCEPT ![s] = NextProductivity(@, enough)]
            /\ UNCHANGED sample
         \/ /\ productivity[s] # sample[t]
            /\ Goto(t, "exchange",
                    IF productivity[s] < SampleCount THEN "exchange" ELSE "idle")
            /\ sample' = [sample EXCEPT ![t] = productivity[s]]
            /\ UNCHANGED productivity
      /\ UNCHANGED <<slotVars, tier, alive, budgetVars, compiled, slot, seen>>

(***************************************************************************)
(* Drop for NativeSlot: the last revision that holds the slot is gone, and *)
(* no thread is in it.                                                     *)
(***************************************************************************)
DropSlot(t, s) ==
  /\ s \in alive
  /\ \A u \in Threads : pc[u] # "idle" => slot[u] # s
  /\ Goto(t, "idle", IF verdict[s] = "ok" THEN "sub_drop" ELSE "idle")
  /\ alive' = alive \ {s}
  /\ slot' = [slot EXCEPT ![t] = s]
  /\ UNCHANGED <<slotVars, heatVars, budgetVars, compiled, seen, sample>>

(* Mutant: the dropped slot stays in the count. *)
Uncount_Not(t) ==
  /\ Goto(t, "uncount", "idle")
  /\ UNCHANGED <<slotVars, heatVars, alive, budgetVars, compiled, locals>>

Uncount(t) ==
  /\ Goto(t, "uncount", "idle")
  /\ compiled' = compiled - 1
  /\ UNCHANGED <<slotVars, heatVars, alive, budgetVars, locals>>

ThreadStep(t) ==
  \/ LoadEpoch(t) \/ CheckCapacity(t) \/ Claim(t) \/ Compile(t) \/ Reserve(t)
  \/ Refuse(t) \/ Prepare(t) \/ ReleaseBytes(t) \/ BumpEpoch(t) \/ SetErr(t)
  \/ Deny(t) \/ SetOk(t) \/ Count(t) \/ SetTier(t) \/ Publish(t) \/ Clear(t)
  \/ Promote(t) \/ ExchangeProductivity(t) \/ Uncount(t)

SlotStep(t, s) ==
  \/ Look(t, s) \/ AddWork(t, s) \/ PromoteLook(t, s) \/ LoadProductivity(t, s)
  \/ DropSlot(t, s)

Next == \E t \in Threads : ThreadStep(t) \/ \E s \in Slots : SlotStep(t, s)

Spec == Init /\ [][Next]_vars
-----------------------------------------------------------------------------
(* The threads that hold reserved bytes which no verdict retains. *)
Reserving == {t \in Threads : pc[t] \in {"prepare", "setok", "sub_err", "sub_busy"}}

(* The slots whose regions are counted: a dropped one until its release. *)
RetainedSlots ==
  {s \in Slots : verdict[s] = "ok" /\
     (s \in alive \/ \E t \in Threads : pc[t] = "sub_drop" /\ slot[t] = s)}

(* The bytes of code, one by one, that the members of S account for. *)
Bytes(S, size) == UNION {{x} \X (1..size[x]) : x \in S}

(* The threads between taking the flag and clearing it. *)
InRegion ==
  {"compile", "reserve", "refuse", "prepare", "setok", "sub_err", "bump_err",
   "sub_busy", "bump_busy", "seterr", "deny", "count", "tier", "publish", "clear"}

Labels ==
  InRegion \cup {"idle", "epoch", "check", "claim", "promote", "exchange",
                 "sub_drop", "bump_drop", "uncount"}

(* Types; the code of all regions never exceeds the budget (reserve). *)
TypeOK ==
  /\ verdict \in [Slots -> {"none", "ok", "err"}]
  /\ region \in [Slots -> Threads \cup {Nobody}]
  /\ compiling \in [Slots -> BOOLEAN]
  /\ capacity_epoch \in [Slots -> Nat \cup {NoEpoch}]
  /\ code \in [Slots -> Threads \cup {Nobody}]
  /\ tier \in [Slots -> 0..TierDenied]
  /\ productivity \in [Slots -> 0..Denied]
  /\ alive \subseteq Slots
  /\ used \in 0..Limit
  /\ epoch \in Nat
  /\ compiled \in Nat
  /\ pc \in [Threads -> Labels]
  /\ slot \in [Threads -> Slots]
  /\ seen \in [Threads -> Nat]
  /\ sample \in [Threads -> 0..Denied]

(***************************************************************************)
(* The byte budget is exact: what is used are the regions that verdicts of *)
(* live slots retain and the reservations of threads on their way, though  *)
(* several threads may compile one function and slots may be dropped.      *)
(***************************************************************************)
BudgetExact ==
  used = Cardinality(Bytes(RetainedSlots, Size))
           + Cardinality(Bytes(Reserving, [t \in Threads |-> Size[slot[t]]]))

(***************************************************************************)
(* has_compiled_code counts the slots with a region: every slot whose      *)
(* verdict succeeded once, whoever else compiled it, and none twice.       *)
(***************************************************************************)
CompiledCountExact ==
  LET At(labels) == Cardinality({t \in Threads : pc[t] \in labels})
  IN  compiled + At({"count"}) =
        Cardinality({s \in alive : verdict[s] = "ok"})
          + At({"sub_drop", "bump_drop", "uncount"})

(***************************************************************************)
(* "Publish code after its owner retains the prepared region": code that   *)
(* other regions may jump to is the code of the region the slot retains.   *)
(* A thread that lost the race for the verdict frees its region, so it     *)
(* must not publish it.                                                    *)
(***************************************************************************)
PublishedIsRetained ==
  \A s \in Slots : code[s] # Nobody => verdict[s] = "ok" /\ region[s] = code[s]

(* One thread at a time compiles a function (the exchange on compiling). *)
OneCompiler ==
  \A t, u \in Threads :
    pc[t] \in InRegion /\ pc[u] \in InRegion /\ slot[t] = slot[u] => t = u

(***************************************************************************)
(* A refusal for want of capacity is never stale: while a slot is refused  *)
(* at the budget's epoch its region does not fit, or the thread that made  *)
(* room is about to advance the epoch.  So a release reopens the cache for *)
(* everybody, whenever it comes between their loads and stores.            *)
(***************************************************************************)
RefusalIsFresh ==
  \A s \in Slots : capacity_epoch[s] = epoch =>
    \/ used + Size[s] > Limit
    \/ \E t \in Threads : pc[t] \in {"bump_err", "bump_busy", "bump_drop"}

(***************************************************************************)
(* Work counted late never takes a tier back (add_work, promote), and a    *)
(* verdict on productivity is not revised (note_native_exit).              *)
(***************************************************************************)
FinalStatesStay ==
  [][\A s \in Slots :
       /\ tier[s] >= TierCompiled => tier'[s] >= tier[s]
       /\ productivity[s] >= Proven => productivity'[s] = productivity[s]]_vars
=============================================================================
