--------------------------- MODULE NativeCodeProofs ---------------------------
(***************************************************************************)
(* Proofs about NativeCode, for any number of threads and slots, any sizes *)
(* and any budget: how a slot is compiled, refused and settled, and then   *)
(* the accounts of the cache, its bytes and its number of compiled slots.  *)
(***************************************************************************)
EXTENDS NativeCode, FiniteSetTheorems, TLAPS

(* The part of TypeOK the proofs need; the budget is only an integer. *)
Types ==
  /\ verdict \in [Slots -> {"none", "ok", "err"}]
  /\ region \in [Slots -> Threads \cup {Nobody}]
  /\ compiling \in [Slots -> BOOLEAN]
  /\ capacity_epoch \in [Slots -> Int]
  /\ code \in [Slots -> Threads \cup {Nobody}]
  /\ tier \in [Slots -> Int]
  /\ productivity \in [Slots -> Int]
  /\ used \in Int
  /\ epoch \in Nat
  /\ pc \in [Threads -> Labels]
  /\ slot \in [Threads -> Slots]
  /\ seen \in [Threads -> Int]
  /\ sample \in [Threads -> Int]

(* A thread inside region holds the flag of its slot. *)
FlagHeld == \A t \in Threads : pc[t] \in InRegion => compiling[slot[t]]

(* A thread that will publish is the one whose region the slot retains. *)
WinnerRetains ==
  \A t \in Threads : pc[t] \in {"count", "tier", "publish"} =>
    verdict[slot[t]] = "ok" /\ region[slot[t]] = t

(* Epochs in hand are never ahead of the budget's. *)
EpochsPast ==
  /\ \A s \in Slots : capacity_epoch[s] <= epoch
  /\ \A t \in Threads : seen[t] <= epoch

Releasing == \E t \in Threads : pc[t] \in {"bump_err", "bump_busy", "bump_drop"}

(* The refusal a thread is about to store is as fresh as one stored. *)
PendingRefusalIsFresh ==
  \A t \in Threads : pc[t] = "refuse" /\ seen[t] = epoch =>
    used + Size[slot[t]] > Limit \/ Releasing

(* A denied slot has a verdict, and the winner's slot is not denied. *)
DeniedIsSettled ==
  /\ \A s \in Slots : tier[s] = TierDenied => verdict[s] # "none"
  /\ \A t \in Threads : pc[t] = "deny" => verdict[slot[t]] # "none"
  /\ \A t \in Threads : pc[t] \in {"count", "tier"} => tier[slot[t]] # TierDenied
  /\ \A s \in Slots : tier[s] <= TierDenied

(* A thread about to exchange productivity has not seen a final one. *)
SampleOpen == \A t \in Threads : pc[t] = "exchange" => sample[t] < SampleCount

IInv ==
  Types /\ FlagHeld /\ OneCompiler /\ WinnerRetains /\ PublishedIsRetained
    /\ EpochsPast /\ PendingRefusalIsFresh /\ RefusalIsFresh /\ DeniedIsSettled
    /\ SampleOpen
-----------------------------------------------------------------------------
(* Every action keeps the types. *)
LEMMA TypesStep ==
  ASSUME Types, [Next]_vars
  PROVE  Types'
<1> USE SizeIsNat, WorkIsPos DEF Types, Labels, InRegion,
         Goto, vars, slotVars, heatVars, budgetVars, locals
<1>1. ASSUME NEW t \in Threads, LoadEpoch(t) PROVE Types'
  BY <1>1 DEF LoadEpoch
<1>2. ASSUME NEW t \in Threads, CheckCapacity(t) PROVE Types'
  BY <1>2, Zenon DEF CheckCapacity
<1>3. ASSUME NEW t \in Threads, Claim(t) PROVE Types'
  BY <1>3, ZenonT(60) DEF Claim
<1>4. ASSUME NEW t \in Threads, Compile(t) PROVE Types'
  BY <1>4, Zenon DEF Compile
<1>5. ASSUME NEW t \in Threads, Reserve(t) PROVE Types'
  BY <1>5 DEF Reserve
<1>6. ASSUME NEW t \in Threads, Refuse(t) PROVE Types'
  BY <1>6, Zenon DEF Refuse
<1>7. ASSUME NEW t \in Threads, Prepare(t) PROVE Types'
  BY <1>7, Zenon DEF Prepare
<1>8. ASSUME NEW t \in Threads, ReleaseBytes(t) PROVE Types'
  BY <1>8 DEF ReleaseBytes
<1>9. ASSUME NEW t \in Threads, BumpEpoch(t) PROVE Types'
  BY <1>9 DEF BumpEpoch
<1>10. ASSUME NEW t \in Threads, SetErr(t) PROVE Types'
  BY <1>10, Zenon DEF SetErr
<1>11. ASSUME NEW t \in Threads, Deny(t) PROVE Types'
  BY <1>11 DEF Deny, TierDenied
<1>12. ASSUME NEW t \in Threads, SetOk(t) PROVE Types'
  BY <1>12 DEF SetOk
<1>13. ASSUME NEW t \in Threads, Count(t) PROVE Types'
  BY <1>13, Zenon DEF Count
<1>14. ASSUME NEW t \in Threads, SetTier(t) PROVE Types'
  BY <1>14 DEF SetTier, TierCompiled
<1>15. ASSUME NEW t \in Threads, Publish(t) PROVE Types'
  BY <1>15, Zenon DEF Publish
<1>16. ASSUME NEW t \in Threads, Clear(t) PROVE Types'
  BY <1>16, Zenon DEF Clear
<1>17. ASSUME NEW t \in Threads, Promote(t) PROVE Types'
  BY <1>17 DEF Promote
<1>18. ASSUME NEW t \in Threads, ExchangeProductivity(t) PROVE Types'
  BY <1>18 DEF ExchangeProductivity, NextProductivity, Proven, Denied
<1>19. ASSUME NEW t \in Threads, Uncount(t) PROVE Types'
  BY <1>19, Zenon DEF Uncount
<1>20. ASSUME NEW t \in Threads, NEW s \in Slots, Look(t, s) PROVE Types'
  BY <1>20, Zenon DEF Look
<1>21. ASSUME NEW t \in Threads, NEW s \in Slots, AddWork(t, s) PROVE Types'
  BY <1>21 DEF AddWork, Capped
<1>22. ASSUME NEW t \in Threads, NEW s \in Slots, PromoteLook(t, s) PROVE Types'
  BY <1>22, Zenon DEF PromoteLook
<1>23. ASSUME NEW t \in Threads, NEW s \in Slots, LoadProductivity(t, s) PROVE Types'
  BY <1>23, Zenon DEF LoadProductivity
<1>24. ASSUME NEW t \in Threads, NEW s \in Slots, DropSlot(t, s) PROVE Types'
  BY <1>24, Zenon DEF DropSlot
<1>25. CASE UNCHANGED vars
  BY <1>25, Zenon
<1>26. QED
  BY <1>1, <1>2, <1>3, <1>4, <1>5, <1>6, <1>7, <1>8, <1>9,
     <1>10, <1>11, <1>12, <1>13, <1>14, <1>15, <1>16, <1>17, <1>18,
     <1>19, <1>20, <1>21, <1>22, <1>23, <1>24, <1>25, ZenonT(60) DEF Next, ThreadStep, SlotStep

(* The flag is held by one thread, which alone clears it (region). *)
LEMMA FlagStep ==
  ASSUME Types, FlagHeld, OneCompiler, [Next]_vars
  PROVE  (FlagHeld /\ OneCompiler)'
<1> USE DEF Types, FlagHeld, OneCompiler, Labels, InRegion,
         Goto, vars, slotVars, heatVars, budgetVars, locals
<1>1. ASSUME NEW t \in Threads, LoadEpoch(t) PROVE (FlagHeld /\ OneCompiler)'
  BY <1>1 DEF LoadEpoch
<1>2. ASSUME NEW t \in Threads, CheckCapacity(t) PROVE (FlagHeld /\ OneCompiler)'
  BY <1>2 DEF CheckCapacity
<1>3. ASSUME NEW t \in Threads, Claim(t) PROVE (FlagHeld /\ OneCompiler)'
  <2>1. CASE compiling[slot[t]]
    BY <1>3, <2>1 DEF Claim
  <2>2. CASE ~compiling[slot[t]]
    <3>1. /\ pc[t] = "claim"
          /\ pc' = [pc EXCEPT ![t] = "compile"]
          /\ compiling' = [compiling EXCEPT ![slot[t]] = TRUE]
          /\ slot' = slot
      BY <1>3, <2>2, Zenon DEF Claim
    <3>2. \A u \in Threads : pc[u] \in InRegion => slot[u] # slot[t]
      BY <2>2, Zenon
    <3>3. FlagHeld'
      BY <3>1, Zenon
    <3>4. OneCompiler'
      BY <3>1, <3>2
    <3>5. QED
      BY <3>3, <3>4, Zenon
  <2>3. QED
    BY <2>1, <2>2, Zenon
<1>4. ASSUME NEW t \in Threads, Compile(t) PROVE (FlagHeld /\ OneCompiler)'
  BY <1>4 DEF Compile
<1>5. ASSUME NEW t \in Threads, Reserve(t) PROVE (FlagHeld /\ OneCompiler)'
  BY <1>5 DEF Reserve
<1>6. ASSUME NEW t \in Threads, Refuse(t) PROVE (FlagHeld /\ OneCompiler)'
  BY <1>6 DEF Refuse
<1>7. ASSUME NEW t \in Threads, Prepare(t) PROVE (FlagHeld /\ OneCompiler)'
  BY <1>7 DEF Prepare
<1>8. ASSUME NEW t \in Threads, ReleaseBytes(t) PROVE (FlagHeld /\ OneCompiler)'
  BY <1>8 DEF ReleaseBytes
<1>9. ASSUME NEW t \in Threads, BumpEpoch(t) PROVE (FlagHeld /\ OneCompiler)'
  BY <1>9, SMTT(30) DEF BumpEpoch
<1>10. ASSUME NEW t \in Threads, SetErr(t) PROVE (FlagHeld /\ OneCompiler)'
  BY <1>10 DEF SetErr
<1>11. ASSUME NEW t \in Threads, Deny(t) PROVE (FlagHeld /\ OneCompiler)'
  BY <1>11 DEF Deny
<1>12. ASSUME NEW t \in Threads, SetOk(t) PROVE (FlagHeld /\ OneCompiler)'
  BY <1>12 DEF SetOk
<1>13. ASSUME NEW t \in Threads, Count(t) PROVE (FlagHeld /\ OneCompiler)'
  BY <1>13 DEF Count
<1>14. ASSUME NEW t \in Threads, SetTier(t) PROVE (FlagHeld /\ OneCompiler)'
  BY <1>14 DEF SetTier
<1>15. ASSUME NEW t \in Threads, Publish(t) PROVE (FlagHeld /\ OneCompiler)'
  BY <1>15 DEF Publish
<1>16. ASSUME NEW t \in Threads, Clear(t) PROVE (FlagHeld /\ OneCompiler)'
  BY <1>16 DEF Clear
<1>17. ASSUME NEW t \in Threads, Promote(t) PROVE (FlagHeld /\ OneCompiler)'
  BY <1>17 DEF Promote
<1>18. ASSUME NEW t \in Threads, ExchangeProductivity(t) PROVE (FlagHeld /\ OneCompiler)'
  BY <1>18 DEF ExchangeProductivity
<1>19. ASSUME NEW t \in Threads, Uncount(t) PROVE (FlagHeld /\ OneCompiler)'
  BY <1>19 DEF Uncount
<1>20. ASSUME NEW t \in Threads, NEW s \in Slots, Look(t, s) PROVE (FlagHeld /\ OneCompiler)'
  BY <1>20 DEF Look
<1>21. ASSUME NEW t \in Threads, NEW s \in Slots, AddWork(t, s) PROVE (FlagHeld /\ OneCompiler)'
  BY <1>21, Zenon DEF AddWork, Capped
<1>22. ASSUME NEW t \in Threads, NEW s \in Slots, PromoteLook(t, s) PROVE (FlagHeld /\ OneCompiler)'
  BY <1>22 DEF PromoteLook
<1>23. ASSUME NEW t \in Threads, NEW s \in Slots, LoadProductivity(t, s) PROVE (FlagHeld /\ OneCompiler)'
  BY <1>23 DEF LoadProductivity
<1>24. ASSUME NEW t \in Threads, NEW s \in Slots, DropSlot(t, s) PROVE (FlagHeld /\ OneCompiler)'
  BY <1>24 DEF DropSlot
<1>25. CASE UNCHANGED vars
  BY <1>25, Zenon
<1>26. QED
  BY <1>1, <1>2, <1>3, <1>4, <1>5, <1>6, <1>7, <1>8, <1>9,
     <1>10, <1>11, <1>12, <1>13, <1>14, <1>15, <1>16, <1>17, <1>18,
     <1>19, <1>20, <1>21, <1>22, <1>23, <1>24, <1>25, ZenonT(60) DEF Next, ThreadStep, SlotStep

(* The verdict is set once, and only its winner publishes (region). *)
LEMMA RetainStep ==
  ASSUME Types, WinnerRetains, PublishedIsRetained, [Next]_vars
  PROVE  (WinnerRetains /\ PublishedIsRetained)'
<1> USE NobodyIsOther DEF Types, WinnerRetains, PublishedIsRetained,
         Goto, vars, slotVars, heatVars, budgetVars, locals
<1>1. ASSUME NEW t \in Threads, LoadEpoch(t) PROVE (WinnerRetains /\ PublishedIsRetained)'
  BY <1>1, Zenon DEF LoadEpoch
<1>2. ASSUME NEW t \in Threads, CheckCapacity(t) PROVE (WinnerRetains /\ PublishedIsRetained)'
  BY <1>2 DEF CheckCapacity
<1>3. ASSUME NEW t \in Threads, Claim(t) PROVE (WinnerRetains /\ PublishedIsRetained)'
  BY <1>3 DEF Claim
<1>4. ASSUME NEW t \in Threads, Compile(t) PROVE (WinnerRetains /\ PublishedIsRetained)'
  BY <1>4 DEF Compile
<1>5. ASSUME NEW t \in Threads, Reserve(t) PROVE (WinnerRetains /\ PublishedIsRetained)'
  BY <1>5 DEF Reserve
<1>6. ASSUME NEW t \in Threads, Refuse(t) PROVE (WinnerRetains /\ PublishedIsRetained)'
  BY <1>6 DEF Refuse
<1>7. ASSUME NEW t \in Threads, Prepare(t) PROVE (WinnerRetains /\ PublishedIsRetained)'
  BY <1>7 DEF Prepare
<1>8. ASSUME NEW t \in Threads, ReleaseBytes(t) PROVE (WinnerRetains /\ PublishedIsRetained)'
  BY <1>8 DEF ReleaseBytes
<1>9. ASSUME NEW t \in Threads, BumpEpoch(t) PROVE (WinnerRetains /\ PublishedIsRetained)'
  BY <1>9 DEF BumpEpoch
<1>10. ASSUME NEW t \in Threads, SetErr(t) PROVE (WinnerRetains /\ PublishedIsRetained)'
  BY <1>10 DEF SetErr
<1>11. ASSUME NEW t \in Threads, Deny(t) PROVE (WinnerRetains /\ PublishedIsRetained)'
  BY <1>11, Zenon DEF Deny
<1>12. ASSUME NEW t \in Threads, SetOk(t) PROVE (WinnerRetains /\ PublishedIsRetained)'
  BY <1>12 DEF SetOk
<1>13. ASSUME NEW t \in Threads, Count(t) PROVE (WinnerRetains /\ PublishedIsRetained)'
  BY <1>13 DEF Count
<1>14. ASSUME NEW t \in Threads, SetTier(t) PROVE (WinnerRetains /\ PublishedIsRetained)'
  BY <1>14 DEF SetTier
<1>15. ASSUME NEW t \in Threads, Publish(t) PROVE (WinnerRetains /\ PublishedIsRetained)'
  BY <1>15 DEF Publish
<1>16. ASSUME NEW t \in Threads, Clear(t) PROVE (WinnerRetains /\ PublishedIsRetained)'
  BY <1>16 DEF Clear
<1>17. ASSUME NEW t \in Threads, Promote(t) PROVE (WinnerRetains /\ PublishedIsRetained)'
  BY <1>17 DEF Promote
<1>18. ASSUME NEW t \in Threads, ExchangeProductivity(t) PROVE (WinnerRetains /\ PublishedIsRetained)'
  BY <1>18 DEF ExchangeProductivity
<1>19. ASSUME NEW t \in Threads, Uncount(t) PROVE (WinnerRetains /\ PublishedIsRetained)'
  BY <1>19 DEF Uncount
<1>20. ASSUME NEW t \in Threads, NEW s \in Slots, Look(t, s) PROVE (WinnerRetains /\ PublishedIsRetained)'
  BY <1>20 DEF Look
<1>21. ASSUME NEW t \in Threads, NEW s \in Slots, AddWork(t, s) PROVE (WinnerRetains /\ PublishedIsRetained)'
  BY <1>21, Zenon DEF AddWork
<1>22. ASSUME NEW t \in Threads, NEW s \in Slots, PromoteLook(t, s) PROVE (WinnerRetains /\ PublishedIsRetained)'
  BY <1>22 DEF PromoteLook
<1>23. ASSUME NEW t \in Threads, NEW s \in Slots, LoadProductivity(t, s) PROVE (WinnerRetains /\ PublishedIsRetained)'
  BY <1>23 DEF LoadProductivity
<1>24. ASSUME NEW t \in Threads, NEW s \in Slots, DropSlot(t, s) PROVE (WinnerRetains /\ PublishedIsRetained)'
  BY <1>24 DEF DropSlot
<1>25. CASE UNCHANGED vars
  BY <1>25, Zenon
<1>26. QED
  BY <1>1, <1>2, <1>3, <1>4, <1>5, <1>6, <1>7, <1>8, <1>9,
     <1>10, <1>11, <1>12, <1>13, <1>14, <1>15, <1>16, <1>17, <1>18,
     <1>19, <1>20, <1>21, <1>22, <1>23, <1>24, <1>25, ZenonT(60) DEF Next, ThreadStep, SlotStep

(* Epochs only grow (release), and refusals are dated with past ones. *)
LEMMA EpochStep ==
  ASSUME Types, EpochsPast, [Next]_vars
  PROVE  EpochsPast'
<1> USE DEF Types, EpochsPast,
         Goto, vars, slotVars, heatVars, budgetVars, locals
<1>1. ASSUME NEW t \in Threads, LoadEpoch(t) PROVE EpochsPast'
  BY <1>1 DEF LoadEpoch
<1>2. ASSUME NEW t \in Threads, CheckCapacity(t) PROVE EpochsPast'
  BY <1>2, Zenon DEF CheckCapacity
<1>3. ASSUME NEW t \in Threads, Claim(t) PROVE EpochsPast'
  BY <1>3, Zenon DEF Claim
<1>4. ASSUME NEW t \in Threads, Compile(t) PROVE EpochsPast'
  BY <1>4, Zenon DEF Compile
<1>5. ASSUME NEW t \in Threads, Reserve(t) PROVE EpochsPast'
  BY <1>5, Zenon DEF Reserve
<1>6. ASSUME NEW t \in Threads, Refuse(t) PROVE EpochsPast'
  BY <1>6, Zenon DEF Refuse
<1>7. ASSUME NEW t \in Threads, Prepare(t) PROVE EpochsPast'
  BY <1>7, Zenon DEF Prepare
<1>8. ASSUME NEW t \in Threads, ReleaseBytes(t) PROVE EpochsPast'
  BY <1>8, Zenon DEF ReleaseBytes
<1>9. ASSUME NEW t \in Threads, BumpEpoch(t) PROVE EpochsPast'
  BY <1>9 DEF BumpEpoch
<1>10. ASSUME NEW t \in Threads, SetErr(t) PROVE EpochsPast'
  BY <1>10, Zenon DEF SetErr
<1>11. ASSUME NEW t \in Threads, Deny(t) PROVE EpochsPast'
  BY <1>11, Zenon DEF Deny
<1>12. ASSUME NEW t \in Threads, SetOk(t) PROVE EpochsPast'
  BY <1>12, Zenon DEF SetOk
<1>13. ASSUME NEW t \in Threads, Count(t) PROVE EpochsPast'
  BY <1>13, Zenon DEF Count
<1>14. ASSUME NEW t \in Threads, SetTier(t) PROVE EpochsPast'
  BY <1>14, Zenon DEF SetTier
<1>15. ASSUME NEW t \in Threads, Publish(t) PROVE EpochsPast'
  BY <1>15, Zenon DEF Publish
<1>16. ASSUME NEW t \in Threads, Clear(t) PROVE EpochsPast'
  BY <1>16, Zenon DEF Clear
<1>17. ASSUME NEW t \in Threads, Promote(t) PROVE EpochsPast'
  BY <1>17, Zenon DEF Promote
<1>18. ASSUME NEW t \in Threads, ExchangeProductivity(t) PROVE EpochsPast'
  BY <1>18, Zenon DEF ExchangeProductivity
<1>19. ASSUME NEW t \in Threads, Uncount(t) PROVE EpochsPast'
  BY <1>19, Zenon DEF Uncount
<1>20. ASSUME NEW t \in Threads, NEW s \in Slots, Look(t, s) PROVE EpochsPast'
  BY <1>20, Zenon DEF Look
<1>21. ASSUME NEW t \in Threads, NEW s \in Slots, AddWork(t, s) PROVE EpochsPast'
  BY <1>21, Zenon DEF AddWork
<1>22. ASSUME NEW t \in Threads, NEW s \in Slots, PromoteLook(t, s) PROVE EpochsPast'
  BY <1>22, Zenon DEF PromoteLook
<1>23. ASSUME NEW t \in Threads, NEW s \in Slots, LoadProductivity(t, s) PROVE EpochsPast'
  BY <1>23, Zenon DEF LoadProductivity
<1>24. ASSUME NEW t \in Threads, NEW s \in Slots, DropSlot(t, s) PROVE EpochsPast'
  BY <1>24, Zenon DEF DropSlot
<1>25. CASE UNCHANGED vars
  BY <1>25, Zenon
<1>26. QED
  BY <1>1, <1>2, <1>3, <1>4, <1>5, <1>6, <1>7, <1>8, <1>9,
     <1>10, <1>11, <1>12, <1>13, <1>14, <1>15, <1>16, <1>17, <1>18,
     <1>19, <1>20, <1>21, <1>22, <1>23, <1>24, <1>25, Zenon DEF Next, ThreadStep, SlotStep

(* A release advances the epoch after it frees bytes (release). *)
LEMMA RefusalStep ==
  ASSUME Types, EpochsPast, PendingRefusalIsFresh, RefusalIsFresh, [Next]_vars
  PROVE  (PendingRefusalIsFresh /\ RefusalIsFresh)'
<1> USE SizeIsNat, LimitIsNat DEF Types, EpochsPast, PendingRefusalIsFresh, RefusalIsFresh, Releasing,
         Goto, vars, slotVars, heatVars, budgetVars, locals
<1>1. ASSUME NEW t \in Threads, LoadEpoch(t) PROVE (PendingRefusalIsFresh /\ RefusalIsFresh)'
  BY <1>1, Zenon DEF LoadEpoch
<1>2. ASSUME NEW t \in Threads, CheckCapacity(t) PROVE (PendingRefusalIsFresh /\ RefusalIsFresh)'
  BY <1>2, Zenon DEF CheckCapacity
<1>3. ASSUME NEW t \in Threads, Claim(t) PROVE (PendingRefusalIsFresh /\ RefusalIsFresh)'
  BY <1>3 DEF Claim
<1>4. ASSUME NEW t \in Threads, Compile(t) PROVE (PendingRefusalIsFresh /\ RefusalIsFresh)'
  BY <1>4, Zenon DEF Compile
<1>5. ASSUME NEW t \in Threads, Reserve(t) PROVE (PendingRefusalIsFresh /\ RefusalIsFresh)'
  BY <1>5 DEF Reserve
<1>6. ASSUME NEW t \in Threads, Refuse(t) PROVE (PendingRefusalIsFresh /\ RefusalIsFresh)'
  BY <1>6, Zenon DEF Refuse
<1>7. ASSUME NEW t \in Threads, Prepare(t) PROVE (PendingRefusalIsFresh /\ RefusalIsFresh)'
  BY <1>7, Zenon DEF Prepare
<1>8. ASSUME NEW t \in Threads, ReleaseBytes(t) PROVE (PendingRefusalIsFresh /\ RefusalIsFresh)'
  BY <1>8, Zenon DEF ReleaseBytes
<1>9. ASSUME NEW t \in Threads, BumpEpoch(t) PROVE (PendingRefusalIsFresh /\ RefusalIsFresh)'
  BY <1>9 DEF BumpEpoch
<1>10. ASSUME NEW t \in Threads, SetErr(t) PROVE (PendingRefusalIsFresh /\ RefusalIsFresh)'
  BY <1>10, Zenon DEF SetErr
<1>11. ASSUME NEW t \in Threads, Deny(t) PROVE (PendingRefusalIsFresh /\ RefusalIsFresh)'
  BY <1>11, Zenon DEF Deny
<1>12. ASSUME NEW t \in Threads, SetOk(t) PROVE (PendingRefusalIsFresh /\ RefusalIsFresh)'
  BY <1>12 DEF SetOk
<1>13. ASSUME NEW t \in Threads, Count(t) PROVE (PendingRefusalIsFresh /\ RefusalIsFresh)'
  BY <1>13, Zenon DEF Count
<1>14. ASSUME NEW t \in Threads, SetTier(t) PROVE (PendingRefusalIsFresh /\ RefusalIsFresh)'
  BY <1>14, Zenon DEF SetTier
<1>15. ASSUME NEW t \in Threads, Publish(t) PROVE (PendingRefusalIsFresh /\ RefusalIsFresh)'
  BY <1>15, Zenon DEF Publish
<1>16. ASSUME NEW t \in Threads, Clear(t) PROVE (PendingRefusalIsFresh /\ RefusalIsFresh)'
  BY <1>16, Zenon DEF Clear
<1>17. ASSUME NEW t \in Threads, Promote(t) PROVE (PendingRefusalIsFresh /\ RefusalIsFresh)'
  BY <1>17, Zenon DEF Promote
<1>18. ASSUME NEW t \in Threads, ExchangeProductivity(t) PROVE (PendingRefusalIsFresh /\ RefusalIsFresh)'
  BY <1>18 DEF ExchangeProductivity
<1>19. ASSUME NEW t \in Threads, Uncount(t) PROVE (PendingRefusalIsFresh /\ RefusalIsFresh)'
  BY <1>19, Zenon DEF Uncount
<1>20. ASSUME NEW t \in Threads, NEW s \in Slots, Look(t, s) PROVE (PendingRefusalIsFresh /\ RefusalIsFresh)'
  BY <1>20, Zenon DEF Look
<1>21. ASSUME NEW t \in Threads, NEW s \in Slots, AddWork(t, s) PROVE (PendingRefusalIsFresh /\ RefusalIsFresh)'
  BY <1>21, Zenon DEF AddWork
<1>22. ASSUME NEW t \in Threads, NEW s \in Slots, PromoteLook(t, s) PROVE (PendingRefusalIsFresh /\ RefusalIsFresh)'
  BY <1>22, Zenon DEF PromoteLook
<1>23. ASSUME NEW t \in Threads, NEW s \in Slots, LoadProductivity(t, s) PROVE (PendingRefusalIsFresh /\ RefusalIsFresh)'
  BY <1>23, Zenon DEF LoadProductivity
<1>24. ASSUME NEW t \in Threads, NEW s \in Slots, DropSlot(t, s) PROVE (PendingRefusalIsFresh /\ RefusalIsFresh)'
  BY <1>24, Zenon DEF DropSlot
<1>25. CASE UNCHANGED vars
  BY <1>25, Zenon
<1>26. QED
  BY <1>1, <1>2, <1>3, <1>4, <1>5, <1>6, <1>7, <1>8, <1>9,
     <1>10, <1>11, <1>12, <1>13, <1>14, <1>15, <1>16, <1>17, <1>18,
     <1>19, <1>20, <1>21, <1>22, <1>23, <1>24, <1>25, ZenonT(60) DEF Next, ThreadStep, SlotStep

(* A failed verdict is set before its tier (region). *)
LEMMA DeniedStep ==
  ASSUME Types, FlagHeld, OneCompiler, WinnerRetains, DeniedIsSettled, [Next]_vars
  PROVE  DeniedIsSettled'
<1> USE WorkIsPos DEF Types, OneCompiler, WinnerRetains, DeniedIsSettled, TierDenied, InRegion,
         Goto, vars, slotVars, heatVars, budgetVars, locals
<1>1. ASSUME NEW t \in Threads, LoadEpoch(t) PROVE DeniedIsSettled'
  BY <1>1 DEF LoadEpoch
<1>2. ASSUME NEW t \in Threads, CheckCapacity(t) PROVE DeniedIsSettled'
  BY <1>2 DEF CheckCapacity
<1>3. ASSUME NEW t \in Threads, Claim(t) PROVE DeniedIsSettled'
  BY <1>3 DEF Claim
<1>4. ASSUME NEW t \in Threads, Compile(t) PROVE DeniedIsSettled'
  BY <1>4 DEF Compile
<1>5. ASSUME NEW t \in Threads, Reserve(t) PROVE DeniedIsSettled'
  BY <1>5 DEF Reserve
<1>6. ASSUME NEW t \in Threads, Refuse(t) PROVE DeniedIsSettled'
  BY <1>6 DEF Refuse
<1>7. ASSUME NEW t \in Threads, Prepare(t) PROVE DeniedIsSettled'
  BY <1>7 DEF Prepare
<1>8. ASSUME NEW t \in Threads, ReleaseBytes(t) PROVE DeniedIsSettled'
  BY <1>8 DEF ReleaseBytes
<1>9. ASSUME NEW t \in Threads, BumpEpoch(t) PROVE DeniedIsSettled'
  BY <1>9 DEF BumpEpoch
<1>10. ASSUME NEW t \in Threads, SetErr(t) PROVE DeniedIsSettled'
  BY <1>10 DEF SetErr
<1>11. ASSUME NEW t \in Threads, Deny(t) PROVE DeniedIsSettled'
  BY <1>11 DEF Deny
<1>12. ASSUME NEW t \in Threads, SetOk(t) PROVE DeniedIsSettled'
  BY <1>12 DEF SetOk
<1>13. ASSUME NEW t \in Threads, Count(t) PROVE DeniedIsSettled'
  BY <1>13 DEF Count
<1>14. ASSUME NEW t \in Threads, SetTier(t) PROVE DeniedIsSettled'
  BY <1>14 DEF SetTier, TierCompiled
<1>15. ASSUME NEW t \in Threads, Publish(t) PROVE DeniedIsSettled'
  BY <1>15 DEF Publish
<1>16. ASSUME NEW t \in Threads, Clear(t) PROVE DeniedIsSettled'
  BY <1>16, SMTT(30) DEF Clear
<1>17. ASSUME NEW t \in Threads, Promote(t) PROVE DeniedIsSettled'
  BY <1>17, SMTT(30) DEF Promote
<1>18. ASSUME NEW t \in Threads, ExchangeProductivity(t) PROVE DeniedIsSettled'
  BY <1>18 DEF ExchangeProductivity
<1>19. ASSUME NEW t \in Threads, Uncount(t) PROVE DeniedIsSettled'
  BY <1>19 DEF Uncount
<1>20. ASSUME NEW t \in Threads, NEW s \in Slots, Look(t, s) PROVE DeniedIsSettled'
  BY <1>20 DEF Look
<1>21. ASSUME NEW t \in Threads, NEW s \in Slots, AddWork(t, s) PROVE DeniedIsSettled'
  BY <1>21 DEF AddWork, Capped
<1>22. ASSUME NEW t \in Threads, NEW s \in Slots, PromoteLook(t, s) PROVE DeniedIsSettled'
  BY <1>22, SMTT(30) DEF PromoteLook
<1>23. ASSUME NEW t \in Threads, NEW s \in Slots, LoadProductivity(t, s) PROVE DeniedIsSettled'
  BY <1>23, SMTT(30) DEF LoadProductivity
<1>24. ASSUME NEW t \in Threads, NEW s \in Slots, DropSlot(t, s) PROVE DeniedIsSettled'
  BY <1>24, SMTT(30) DEF DropSlot
<1>25. CASE UNCHANGED vars
  BY <1>25, Zenon
<1>26. QED
  BY <1>1, <1>2, <1>3, <1>4, <1>5, <1>6, <1>7, <1>8, <1>9,
     <1>10, <1>11, <1>12, <1>13, <1>14, <1>15, <1>16, <1>17, <1>18,
     <1>19, <1>20, <1>21, <1>22, <1>23, <1>24, <1>25, ZenonT(60) DEF Next, ThreadStep, SlotStep

(* The exchange loop goes on only with a state that is not final. *)
LEMMA SampleStep ==
  ASSUME Types, SampleOpen, [Next]_vars
  PROVE  SampleOpen'
<1> USE DEF Types, SampleOpen,
         Goto, vars, slotVars, heatVars, budgetVars, locals
<1>1. ASSUME NEW t \in Threads, LoadEpoch(t) PROVE SampleOpen'
  BY <1>1, Zenon DEF LoadEpoch
<1>2. ASSUME NEW t \in Threads, CheckCapacity(t) PROVE SampleOpen'
  BY <1>2, Zenon DEF CheckCapacity
<1>3. ASSUME NEW t \in Threads, Claim(t) PROVE SampleOpen'
  BY <1>3, Zenon DEF Claim
<1>4. ASSUME NEW t \in Threads, Compile(t) PROVE SampleOpen'
  BY <1>4, Zenon DEF Compile
<1>5. ASSUME NEW t \in Threads, Reserve(t) PROVE SampleOpen'
  BY <1>5, Zenon DEF Reserve
<1>6. ASSUME NEW t \in Threads, Refuse(t) PROVE SampleOpen'
  BY <1>6, Zenon DEF Refuse
<1>7. ASSUME NEW t \in Threads, Prepare(t) PROVE SampleOpen'
  BY <1>7, Zenon DEF Prepare
<1>8. ASSUME NEW t \in Threads, ReleaseBytes(t) PROVE SampleOpen'
  BY <1>8, Zenon DEF ReleaseBytes
<1>9. ASSUME NEW t \in Threads, BumpEpoch(t) PROVE SampleOpen'
  BY <1>9, Zenon DEF BumpEpoch
<1>10. ASSUME NEW t \in Threads, SetErr(t) PROVE SampleOpen'
  BY <1>10, Zenon DEF SetErr
<1>11. ASSUME NEW t \in Threads, Deny(t) PROVE SampleOpen'
  BY <1>11, Zenon DEF Deny
<1>12. ASSUME NEW t \in Threads, SetOk(t) PROVE SampleOpen'
  BY <1>12 DEF SetOk
<1>13. ASSUME NEW t \in Threads, Count(t) PROVE SampleOpen'
  BY <1>13, Zenon DEF Count
<1>14. ASSUME NEW t \in Threads, SetTier(t) PROVE SampleOpen'
  BY <1>14, Zenon DEF SetTier
<1>15. ASSUME NEW t \in Threads, Publish(t) PROVE SampleOpen'
  BY <1>15, Zenon DEF Publish
<1>16. ASSUME NEW t \in Threads, Clear(t) PROVE SampleOpen'
  BY <1>16, Zenon DEF Clear
<1>17. ASSUME NEW t \in Threads, Promote(t) PROVE SampleOpen'
  BY <1>17, Zenon DEF Promote
<1>18. ASSUME NEW t \in Threads, ExchangeProductivity(t) PROVE SampleOpen'
  BY <1>18, Zenon DEF ExchangeProductivity
<1>19. ASSUME NEW t \in Threads, Uncount(t) PROVE SampleOpen'
  BY <1>19, Zenon DEF Uncount
<1>20. ASSUME NEW t \in Threads, NEW s \in Slots, Look(t, s) PROVE SampleOpen'
  BY <1>20, Zenon DEF Look
<1>21. ASSUME NEW t \in Threads, NEW s \in Slots, AddWork(t, s) PROVE SampleOpen'
  BY <1>21, Zenon DEF AddWork
<1>22. ASSUME NEW t \in Threads, NEW s \in Slots, PromoteLook(t, s) PROVE SampleOpen'
  BY <1>22, Zenon DEF PromoteLook
<1>23. ASSUME NEW t \in Threads, NEW s \in Slots, LoadProductivity(t, s) PROVE SampleOpen'
  BY <1>23, Zenon DEF LoadProductivity
<1>24. ASSUME NEW t \in Threads, NEW s \in Slots, DropSlot(t, s) PROVE SampleOpen'
  BY <1>24, Zenon DEF DropSlot
<1>25. CASE UNCHANGED vars
  BY <1>25, Zenon
<1>26. QED
  BY <1>1, <1>2, <1>3, <1>4, <1>5, <1>6, <1>7, <1>8, <1>9,
     <1>10, <1>11, <1>12, <1>13, <1>14, <1>15, <1>16, <1>17, <1>18,
     <1>19, <1>20, <1>21, <1>22, <1>23, <1>24, <1>25, Zenon DEF Next, ThreadStep, SlotStep

LEMMA InitIInv == Init => IInv
<1> SUFFICES ASSUME Init PROVE IInv
  BY Zenon
<1> USE SizeIsNat, WorkIsPos, NobodyIsOther DEF Init
<1>1. Types
  BY DEF Types, Labels, InRegion, NoEpoch
<1>2. FlagHeld /\ OneCompiler
  BY Zenon DEF FlagHeld, OneCompiler, InRegion
<1>3. WinnerRetains /\ PublishedIsRetained
  BY Zenon DEF WinnerRetains, PublishedIsRetained
<1>4. EpochsPast /\ PendingRefusalIsFresh /\ RefusalIsFresh
  BY DEF EpochsPast, PendingRefusalIsFresh, RefusalIsFresh, NoEpoch
<1>5. DeniedIsSettled
  BY DEF DeniedIsSettled, TierDenied
<1>6. SampleOpen
  BY Zenon DEF SampleOpen
<1>7. QED
  BY <1>1, <1>2, <1>3, <1>4, <1>5, <1>6, Zenon DEF IInv

LEMMA NextIInv == IInv /\ [Next]_vars => IInv'
<1> SUFFICES ASSUME IInv, [Next]_vars PROVE IInv'
  BY Zenon
<1>1. /\ Types /\ FlagHeld /\ OneCompiler /\ WinnerRetains /\ PublishedIsRetained
      /\ EpochsPast /\ PendingRefusalIsFresh /\ RefusalIsFresh /\ DeniedIsSettled
      /\ SampleOpen
  BY Zenon DEF IInv
<1>2. Types'
  BY <1>1, TypesStep, Zenon
<1>3. (FlagHeld /\ OneCompiler)'
  BY <1>1, FlagStep, Zenon
<1>4. (WinnerRetains /\ PublishedIsRetained)'
  BY <1>1, RetainStep, Zenon
<1>5. EpochsPast'
  BY <1>1, EpochStep, Zenon
<1>6. (PendingRefusalIsFresh /\ RefusalIsFresh)'
  BY <1>1, RefusalStep, Zenon
<1>7. DeniedIsSettled'
  BY <1>1, DeniedStep, Zenon
<1>8. SampleOpen'
  BY <1>1, SampleStep, Zenon
<1>9. QED
  BY <1>2, <1>3, <1>4, <1>5, <1>6, <1>7, <1>8, Zenon DEF IInv

LEMMA Invariance == Spec => []IInv
<1>1. QED
  BY InitIInv, NextIInv, PTL DEF Spec

(***************************************************************************)
(* Code that can be jumped to through an entry cell is always the code of  *)
(* the region its slot retains (region, publish_prepared).                 *)
(***************************************************************************)
THEOREM PublishedAlwaysRetained == Spec => []PublishedIsRetained
<1>1. IInv => PublishedIsRetained
  BY Zenon DEF IInv
<1>2. QED
  BY <1>1, Invariance, PTL

(* At most one thread is between taking and clearing compiling (region). *)
THEOREM OneCompilerAlways == Spec => []OneCompiler
<1>1. IInv => OneCompiler
  BY Zenon DEF IInv
<1>2. QED
  BY <1>1, Invariance, PTL

(***************************************************************************)
(* A slot refused at the current epoch does not fit, or a release is about *)
(* to advance the epoch (region, CodeBudget::release).                     *)
(***************************************************************************)
THEOREM RefusalAlwaysFresh == Spec => []RefusalIsFresh
<1>1. IInv => RefusalIsFresh
  BY Zenon DEF IInv
<1>2. QED
  BY <1>1, Invariance, PTL

(* What FinalStatesStay says of one step. *)
FinalStep ==
  \A s \in Slots :
    /\ tier[s] >= TierCompiled => tier'[s] >= tier[s]
    /\ productivity[s] >= Proven => productivity'[s] = productivity[s]

(* Only region moves a tier that is compiled, and only to denied. *)
LEMMA FinalStepHolds ==
  ASSUME IInv, [Next]_vars
  PROVE  FinalStep
<1> USE WorkIsPos DEF FinalStep, IInv, Types, DeniedIsSettled, SampleOpen, TierCompiled, TierDenied, Proven,
         Goto, vars, slotVars, heatVars, budgetVars, locals
<1>1. ASSUME NEW t \in Threads, LoadEpoch(t) PROVE FinalStep
  BY <1>1 DEF LoadEpoch
<1>2. ASSUME NEW t \in Threads, CheckCapacity(t) PROVE FinalStep
  BY <1>2, SMTT(30) DEF CheckCapacity
<1>3. ASSUME NEW t \in Threads, Claim(t) PROVE FinalStep
  BY <1>3 DEF Claim
<1>4. ASSUME NEW t \in Threads, Compile(t) PROVE FinalStep
  BY <1>4, SMTT(30) DEF Compile
<1>5. ASSUME NEW t \in Threads, Reserve(t) PROVE FinalStep
  BY <1>5, SMTT(30) DEF Reserve
<1>6. ASSUME NEW t \in Threads, Refuse(t) PROVE FinalStep
  BY <1>6 DEF Refuse
<1>7. ASSUME NEW t \in Threads, Prepare(t) PROVE FinalStep
  BY <1>7 DEF Prepare
<1>8. ASSUME NEW t \in Threads, ReleaseBytes(t) PROVE FinalStep
  BY <1>8 DEF ReleaseBytes
<1>9. ASSUME NEW t \in Threads, BumpEpoch(t) PROVE FinalStep
  BY <1>9 DEF BumpEpoch
<1>10. ASSUME NEW t \in Threads, SetErr(t) PROVE FinalStep
  BY <1>10 DEF SetErr
<1>11. ASSUME NEW t \in Threads, Deny(t) PROVE FinalStep
  BY <1>11, SMTT(30) DEF Deny
<1>12. ASSUME NEW t \in Threads, SetOk(t) PROVE FinalStep
  BY <1>12 DEF SetOk
<1>13. ASSUME NEW t \in Threads, Count(t) PROVE FinalStep
  BY <1>13 DEF Count
<1>14. ASSUME NEW t \in Threads, SetTier(t) PROVE FinalStep
  BY <1>14 DEF SetTier
<1>15. ASSUME NEW t \in Threads, Publish(t) PROVE FinalStep
  BY <1>15, SMTT(30) DEF Publish
<1>16. ASSUME NEW t \in Threads, Clear(t) PROVE FinalStep
  BY <1>16, SMTT(30) DEF Clear
<1>17. ASSUME NEW t \in Threads, Promote(t) PROVE FinalStep
  BY <1>17, SMTT(30) DEF Promote
<1>18. ASSUME NEW t \in Threads, ExchangeProductivity(t) PROVE FinalStep
  BY <1>18 DEF ExchangeProductivity
<1>19. ASSUME NEW t \in Threads, Uncount(t) PROVE FinalStep
  BY <1>19 DEF Uncount
<1>20. ASSUME NEW t \in Threads, NEW s \in Slots, Look(t, s) PROVE FinalStep
  BY <1>20 DEF Look
<1>21. ASSUME NEW t \in Threads, NEW s \in Slots, AddWork(t, s) PROVE FinalStep
  BY <1>21 DEF AddWork, Capped
<1>22. ASSUME NEW t \in Threads, NEW s \in Slots, PromoteLook(t, s) PROVE FinalStep
  BY <1>22 DEF PromoteLook
<1>23. ASSUME NEW t \in Threads, NEW s \in Slots, LoadProductivity(t, s) PROVE FinalStep
  BY <1>23, SMTT(30) DEF LoadProductivity
<1>24. ASSUME NEW t \in Threads, NEW s \in Slots, DropSlot(t, s) PROVE FinalStep
  BY <1>24 DEF DropSlot
<1>25. CASE UNCHANGED vars
  BY <1>25
<1>26. QED
  BY <1>1, <1>2, <1>3, <1>4, <1>5, <1>6, <1>7, <1>8, <1>9,
     <1>10, <1>11, <1>12, <1>13, <1>14, <1>15, <1>16, <1>17, <1>18,
     <1>19, <1>20, <1>21, <1>22, <1>23, <1>24, <1>25, ZenonT(60) DEF Next, ThreadStep, SlotStep

(***************************************************************************)
(* A compiled or denied tier is never lowered and a verdict on             *)
(* productivity never revised (add_work, promote, note_native_exit).       *)
(***************************************************************************)
THEOREM FinalStatesAlwaysStay == Spec => FinalStatesStay
<1>1. IInv /\ [Next]_vars => [FinalStep]_vars
  BY FinalStepHolds, Zenon
<1>2. QED
  BY <1>1, Invariance, PTL DEF Spec, FinalStatesStay, FinalStep

------------------------------------------------------------------------------
(* The memory budget and the count of compiled functions. *)

Holding == {"prepare", "setok", "sub_err", "sub_busy"}
Dropping == {"sub_drop", "bump_drop", "uncount"}

(* Who is in a slot: its threads while it is alive, its dropper after. *)
SlotsInUse ==
  /\ alive \subseteq Slots
  /\ \A t \in Threads : pc[t] \notin Dropping \cup {"idle"} => slot[t] \in alive
  /\ \A t \in Threads : pc[t] \in Dropping => slot[t] \notin alive
  /\ \A t \in Threads : pc[t] = "sub_drop" => verdict[slot[t]] = "ok"
  /\ \A t, u \in Threads :
       pc[t] \in Dropping /\ pc[u] \in Dropping /\ slot[t] = slot[u] => t = u

ReservedSize == [t \in Threads |-> Size[slot[t]]]
Counting == {t \in Threads : pc[t] = "count"}
Droppers == {t \in Threads : pc[t] \in Dropping}
CompiledSlots == {s \in alive : verdict[s] = "ok"}

-----------------------------------------------------------------------------
(***************************************************************************)
(* Counting bytes and members.                                             *)
(***************************************************************************)
LEMMA BytesMember ==
  ASSUME NEW S, NEW size, NEW b
  PROVE  b \in Bytes(S, size) <=> \E x \in S : b \in {x} \X (1..size[x])
BY Zenon DEF Bytes

LEMMA NoBytes ==
  ASSUME NEW size
  PROVE  IsFiniteSet(Bytes({}, size)) /\ Cardinality(Bytes({}, size)) = 0
<1>1. Bytes({}, size) = {}
  BY BytesMember
<1> QED BY <1>1, FS_EmptySet, Zenon

LEMMA BytesAgree ==
  ASSUME NEW S, NEW f, NEW g, \A x \in S : f[x] = g[x]
  PROVE  Bytes(S, f) = Bytes(S, g)
<1>1. ASSUME NEW b PROVE b \in Bytes(S, f) <=> b \in Bytes(S, g)
  BY BytesMember
<1> QED BY <1>1, Zenon

LEMMA BytesAdded ==
  ASSUME NEW S, NEW size, NEW x, x \notin S, size[x] \in Nat,
         IsFiniteSet(Bytes(S, size))
  PROVE  /\ IsFiniteSet(Bytes(S \cup {x}, size))
         /\ Cardinality(Bytes(S \cup {x}, size)) = Cardinality(Bytes(S, size)) + size[x]
<1> DEFINE own == {x} \X (1..size[x])
           old == Bytes(S, size)
<1>1. IsFiniteSet({x}) /\ Cardinality({x}) = 1
  BY FS_Singleton, Zenon
<1>2. IsFiniteSet(1..size[x]) /\ Cardinality(1..size[x]) = size[x]
  <2>1. /\ IsFiniteSet(1..size[x])
        /\ Cardinality(1..size[x]) = IF 1 > size[x] THEN 0 ELSE size[x] - 1 + 1
    BY FS_Interval, SMTT(30)
  <2> QED BY <2>1
<1>3. IsFiniteSet(own) /\ Cardinality(own) = size[x]
  <2>1. IsFiniteSet(own) /\ Cardinality(own) = Cardinality({x}) * Cardinality(1..size[x])
    BY <1>1, <1>2, FS_Product, Zenon
  <2> QED BY <2>1, <1>1, <1>2
<1>4. Bytes(S \cup {x}, size) = old \cup own
  <2>1. ASSUME NEW b PROVE b \in Bytes(S \cup {x}, size) <=> b \in old \cup own
    BY BytesMember
  <2> QED BY <2>1, Zenon
<1>5. old \cap own = {}
  <2>1. ASSUME NEW b \in old, b \in own PROVE FALSE
    <3>1. PICK y \in S : b \in {y} \X (1..size[y])
      BY <2>1, BytesMember, Zenon
    <3>2. y = x
      BY <2>1, <3>1, Zenon
    <3> QED BY <3>1, <3>2, Zenon
  <2> QED BY <2>1, Zenon
<1>6. /\ IsFiniteSet(old \cup own)
      /\ Cardinality(old \cup own) = Cardinality(old) + Cardinality(own) - Cardinality({})
  <2>1. IsFiniteSet(old)
    BY Zenon
  <2> HIDE DEF old, own
  <2>2. /\ IsFiniteSet(old \cup own)
        /\ Cardinality(old \cup own)
             = Cardinality(old) + Cardinality(own) - Cardinality(old \cap own)
    BY <1>3, <2>1, FS_Union, Zenon
  <2> QED BY <1>5, <2>2, Zenon
<1>7. Cardinality({}) = 0 /\ Cardinality(old) \in Nat
  BY FS_EmptySet, FS_CardinalityType, Zenon
<1>8. Cardinality(old \cup own) = Cardinality(old) + size[x]
  <2> HIDE DEF old, own
  <2> QED BY <1>3, <1>6, <1>7
<1> QED BY <1>4, <1>6, <1>8, Zenon

LEMMA BytesRemoved ==
  ASSUME NEW S, NEW size, NEW x \in S, size[x] \in Nat,
         IsFiniteSet(Bytes(S, size))
  PROVE  /\ IsFiniteSet(Bytes(S \ {x}, size))
         /\ Cardinality(Bytes(S \ {x}, size)) = Cardinality(Bytes(S, size)) - size[x]
<1> DEFINE T == S \ {x}
<1>1. x \notin T /\ T \cup {x} = S
  BY Zenon
<1>2. Bytes(T, size) \subseteq Bytes(S, size)
  BY <1>1, BytesMember, Zenon
<1>3. IsFiniteSet(Bytes(T, size)) /\ Cardinality(Bytes(T, size)) \in Nat
  BY <1>2, FS_Subset, FS_CardinalityType, Zenon
<1> HIDE DEF T
<1>4. Cardinality(Bytes(S, size)) = Cardinality(Bytes(T, size)) + size[x]
  BY <1>1, <1>3, BytesAdded, Zenon
<1>5. Cardinality(Bytes(T, size)) = Cardinality(Bytes(S, size)) - size[x]
  BY <1>3, <1>4
<1> QED BY <1>3, <1>5, Zenon DEF T

LEMMA MemberAdded ==
  ASSUME NEW S, NEW x, IsFiniteSet(S), x \notin S
  PROVE  Cardinality(S \cup {x}) = Cardinality(S) + 1
BY FS_AddElement, Zenon

LEMMA MemberRemoved ==
  ASSUME NEW S, NEW x \in S, IsFiniteSet(S)
  PROVE  Cardinality(S \ {x}) = Cardinality(S) - 1
BY FS_RemoveElement, Zenon

-----------------------------------------------------------------------------
(***************************************************************************)
(* The steps that move no bytes and no count.                              *)
(***************************************************************************)
Plain(t) ==
  \/ LoadEpoch(t) \/ CheckCapacity(t) \/ Claim(t) \/ Compile(t) \/ Refuse(t)
  \/ Prepare(t) \/ BumpEpoch(t) \/ SetErr(t) \/ Deny(t) \/ SetTier(t)
  \/ Publish(t) \/ Clear(t) \/ Promote(t) \/ ExchangeProductivity(t)
  \/ \E s \in Slots : Look(t, s) \/ AddWork(t, s) \/ PromoteLook(t, s)
                        \/ LoadProductivity(t, s)

Moving(t) ==
  \/ Reserve(t) \/ ReleaseBytes(t) \/ SetOk(t) \/ Count(t) \/ Uncount(t)
  \/ \E s \in Slots : DropSlot(t, s)

LEMMA NextSplits ==
  Next => \E t \in Threads : Plain(t) \/ Moving(t)
BY Zenon DEF Next, ThreadStep, SlotStep, Plain, Moving

LEMMA PlainSteps ==
  ASSUME Types, NEW t \in Threads, Plain(t)
  PROVE  /\ UNCHANGED <<used, compiled, alive>>
         /\ \A s \in Slots : verdict'[s] = "ok" <=> verdict[s] = "ok"
         /\ \A u \in Threads \ {t} : pc'[u] = pc[u] /\ slot'[u] = slot[u]
         /\ pc'[t] \in Holding <=> pc[t] \in Holding
         /\ pc'[t] = pc[t] \/ pc[t] \notin {"sub_drop", "uncount"}
         /\ pc'[t] \in Dropping <=> pc[t] \in Dropping
         /\ pc'[t] \notin {"sub_drop"} \/ pc'[t] = pc[t]
         /\ pc'[t] = "count" <=> pc[t] = "count"
         /\ slot'[t] = slot[t] \/ (pc[t] = "idle" /\ slot'[t] \in alive)
         /\ pc[t] = "idle" => pc'[t] = "idle" \/ slot'[t] \in alive
<1> USE DEF Types, Goto, slotVars, heatVars, budgetVars, locals, Holding, Dropping
<1>1. CASE LoadEpoch(t) \/ CheckCapacity(t) \/ Claim(t) \/ Compile(t)
  BY <1>1, SMTT(30) DEF LoadEpoch, CheckCapacity, Claim, Compile
<1>2. CASE Refuse(t) \/ Prepare(t) \/ BumpEpoch(t) \/ Deny(t) \/ SetTier(t)
  BY <1>2, SMTT(30) DEF Refuse, Prepare, BumpEpoch, Deny, SetTier
<1>3. CASE SetErr(t)
  BY <1>3, Zenon DEF SetErr
<1>4. CASE Publish(t) \/ Clear(t) \/ Promote(t) \/ ExchangeProductivity(t)
  BY <1>4, SMTT(30) DEF Publish, Clear, Promote, ExchangeProductivity
<1>5. ASSUME NEW s \in Slots, Look(t, s) \/ AddWork(t, s) \/ PromoteLook(t, s)
                               \/ LoadProductivity(t, s)
      PROVE  /\ UNCHANGED <<used, compiled, alive, verdict>>
             /\ \A u \in Threads \ {t} : pc'[u] = pc[u] /\ slot'[u] = slot[u]
             /\ pc[t] = "idle"
             /\ pc'[t] \in {"idle", "epoch", "promote", "exchange"}
             /\ UNCHANGED <<pc, slot>> \/ (slot'[t] = s /\ s \in alive)
  BY <1>5, Zenon DEF Look, AddWork, PromoteLook, LoadProductivity
<1>6. CASE \E s \in Slots : Look(t, s) \/ AddWork(t, s) \/ PromoteLook(t, s)
                              \/ LoadProductivity(t, s)
  BY <1>5, <1>6, Zenon
<1> QED BY <1>1, <1>2, <1>3, <1>4, <1>6, Zenon DEF Plain

LEMMA PlainKeepsUse ==
  ASSUME Types, SlotsInUse, NEW t \in Threads, Plain(t)
  PROVE  SlotsInUse'
<1>0. Types /\ slot \in [Threads -> Slots]
  BY Zenon DEF Types
<1> USE <1>0, PlainSteps
<1>1. alive' \subseteq Slots
  BY Zenon DEF SlotsInUse
<1>2. \A u \in Threads : pc'[u] \notin Dropping \cup {"idle"} => slot'[u] \in alive'
  BY SMTT(30) DEF SlotsInUse
<1>3. \A u \in Threads : pc[u] \in Dropping => pc'[u] \in Dropping /\ slot'[u] = slot[u]
  BY Zenon DEF Dropping
<1>4. \A u \in Threads : pc'[u] \in Dropping => pc[u] \in Dropping
  BY Zenon
<1>5. \A u \in Threads : pc'[u] = "sub_drop" => pc[u] = "sub_drop"
  BY Zenon
<1>6. \A u \in Threads : pc'[u] \in Dropping => slot'[u] \notin alive'
  BY <1>3, <1>4, Zenon DEF SlotsInUse
<1>7. \A u \in Threads : pc'[u] = "sub_drop" => verdict'[slot'[u]] = "ok"
  BY <1>3, <1>5, SMTT(30) DEF SlotsInUse, Dropping
<1>8. \A u, v \in Threads :
        pc'[u] \in Dropping /\ pc'[v] \in Dropping /\ slot'[u] = slot'[v] => u = v
  BY <1>3, <1>4 DEF SlotsInUse
<1> QED BY <1>1, <1>2, <1>6, <1>7, <1>8, Zenon DEF SlotsInUse

LEMMA MovingKeepsUse ==
  ASSUME Types, SlotsInUse, NEW t \in Threads, Moving(t)
  PROVE  SlotsInUse'
<1> USE DEF Types, Goto, slotVars, heatVars, budgetVars, locals, Dropping, SlotsInUse
<1>1. CASE Reserve(t)
  BY <1>1, Zenon DEF Reserve
<1>2. CASE ReleaseBytes(t)
  BY <1>2, SMTT(30) DEF ReleaseBytes
<1>3. CASE SetOk(t)
  BY <1>3, SMTT(30) DEF SetOk
<1>4. CASE Count(t) \/ Uncount(t)
  BY <1>4, SMTT(30) DEF Count, Uncount
<1>5. CASE \E s \in Slots : DropSlot(t, s)
  <2>1. PICK s \in Slots : DropSlot(t, s)
    BY <1>5, Zenon
  <2>2. \A u \in Threads \ {t} : pc'[u] = pc[u] /\ slot'[u] = slot[u]
    BY <2>1, Zenon DEF DropSlot
  <2>3. /\ pc'[t] = "idle" \/ (pc'[t] = "sub_drop" /\ verdict[s] = "ok")
        /\ slot'[t] = s /\ s \in alive /\ alive' = alive \ {s} /\ verdict' = verdict
        /\ \A u \in Threads : pc[u] # "idle" => slot[u] # s
    BY <2>1, Zenon DEF DropSlot
  <2> QED BY <2>2, <2>3, SMTT(30)
<1> QED BY <1>1, <1>2, <1>3, <1>4, <1>5, Zenon DEF Moving

-----------------------------------------------------------------------------
(***************************************************************************)
(* The byte budget.                                                        *)
(***************************************************************************)
RetainedBytes == Bytes(RetainedSlots, Size)
ReservedBytes == Bytes(Reserving, ReservedSize)

Budgeted ==
  /\ IsFiniteSet(RetainedBytes) /\ IsFiniteSet(ReservedBytes)
  /\ used = Cardinality(RetainedBytes) + Cardinality(ReservedBytes)

LEMMA Sizes ==
  ASSUME Types, Budgeted
  PROVE  /\ Cardinality(RetainedBytes) \in Nat /\ Cardinality(ReservedBytes) \in Nat
         /\ \A s \in Slots : Size[s] \in Nat
         /\ \A t \in Threads : ReservedSize[t] = Size[slot[t]] /\ ReservedSize[t] \in Nat
<1>1. Cardinality(RetainedBytes) \in Nat /\ Cardinality(ReservedBytes) \in Nat
  BY FS_CardinalityType, Zenon DEF Budgeted
<1>2. \A s \in Slots : Size[s] \in Nat
  BY SizeIsNat, Zenon
<1>3. \A t \in Threads : ReservedSize[t] = Size[slot[t]] /\ ReservedSize[t] \in Nat
  BY <1>2, Zenon DEF ReservedSize, Types
<1> QED BY <1>1, <1>2, <1>3, Zenon

(* The reservations change as their threads do. *)
LEMMA ReservedMoves ==
  ASSUME Types, Types', Budgeted,
         \A u \in Reserving' : slot'[u] = slot[u]
  PROVE  ReservedBytes' = Bytes(Reserving', ReservedSize)
<1>1. \A u \in Reserving' : ReservedSize'[u] = ReservedSize[u]
  BY Zenon DEF Reserving, ReservedSize
<1> QED BY <1>1, BytesAgree, Zenon DEF ReservedBytes

LEMMA ReservedJoins ==
  ASSUME Types, Types', Budgeted, NEW t \in Threads,
         t \notin Reserving, Reserving' = Reserving \cup {t}, slot' = slot
  PROVE  /\ IsFiniteSet(ReservedBytes')
         /\ Cardinality(ReservedBytes') = Cardinality(ReservedBytes) + Size[slot[t]]
<1>1. ReservedBytes' = Bytes(Reserving \cup {t}, ReservedSize)
  BY ReservedMoves, Zenon
<1>2. ReservedSize[t] \in Nat /\ ReservedSize[t] = Size[slot[t]]
  BY Sizes, Zenon
<1>3. IsFiniteSet(Bytes(Reserving, ReservedSize))
  BY Zenon DEF Budgeted, ReservedBytes
<1>4. /\ IsFiniteSet(Bytes(Reserving \cup {t}, ReservedSize))
      /\ Cardinality(Bytes(Reserving \cup {t}, ReservedSize))
           = Cardinality(Bytes(Reserving, ReservedSize)) + ReservedSize[t]
  BY <1>2, <1>3, BytesAdded, ZenonT(30)
<1> QED BY <1>1, <1>2, <1>4, Zenon DEF ReservedBytes

LEMMA ReservedLeaves ==
  ASSUME Types, Types', Budgeted, NEW t \in Threads,
         t \in Reserving, Reserving' = Reserving \ {t}, slot' = slot
  PROVE  /\ IsFiniteSet(ReservedBytes')
         /\ Cardinality(ReservedBytes') = Cardinality(ReservedBytes) - Size[slot[t]]
<1>1. ReservedBytes' = Bytes(Reserving \ {t}, ReservedSize)
  BY ReservedMoves, Zenon
<1>2. ReservedSize[t] \in Nat /\ ReservedSize[t] = Size[slot[t]]
  BY Sizes, Zenon
<1>3. IsFiniteSet(Bytes(Reserving, ReservedSize))
  BY Zenon DEF Budgeted, ReservedBytes
<1>4. /\ IsFiniteSet(Bytes(Reserving \ {t}, ReservedSize))
      /\ Cardinality(Bytes(Reserving \ {t}, ReservedSize))
           = Cardinality(Bytes(Reserving, ReservedSize)) - ReservedSize[t]
  BY <1>2, <1>3, BytesRemoved, Zenon
<1> QED BY <1>1, <1>2, <1>4, Zenon DEF ReservedBytes

LEMMA RetainedMoves ==
  ASSUME Budgeted, NEW s \in Slots
  PROVE  /\ s \notin RetainedSlots /\ RetainedSlots' = RetainedSlots \cup {s} =>
              /\ IsFiniteSet(RetainedBytes')
              /\ Cardinality(RetainedBytes') = Cardinality(RetainedBytes) + Size[s]
         /\ s \in RetainedSlots /\ RetainedSlots' = RetainedSlots \ {s} =>
              /\ IsFiniteSet(RetainedBytes')
              /\ Cardinality(RetainedBytes') = Cardinality(RetainedBytes) - Size[s]
<1>1. Size[s] \in Nat
  BY SizeIsNat, Zenon
<1>2. IsFiniteSet(Bytes(RetainedSlots, Size))
  BY Zenon DEF Budgeted, RetainedBytes
<1>3. s \notin RetainedSlots =>
        /\ IsFiniteSet(Bytes(RetainedSlots \cup {s}, Size))
        /\ Cardinality(Bytes(RetainedSlots \cup {s}, Size))
             = Cardinality(Bytes(RetainedSlots, Size)) + Size[s]
  BY <1>1, <1>2, BytesAdded, Zenon
<1>4. s \in RetainedSlots =>
        /\ IsFiniteSet(Bytes(RetainedSlots \ {s}, Size))
        /\ Cardinality(Bytes(RetainedSlots \ {s}, Size))
             = Cardinality(Bytes(RetainedSlots, Size)) - Size[s]
  BY <1>1, <1>2, BytesRemoved, Zenon
<1> QED BY <1>3, <1>4, Zenon DEF RetainedBytes

LEMMA PlainKeepsBudget ==
  ASSUME Types, Types', Budgeted, NEW t \in Threads, Plain(t)
  PROVE  Budgeted'
<1> USE PlainSteps
<1>1. Reserving' = Reserving /\ \A u \in Reserving' : slot'[u] = slot[u]
  BY Zenon DEF Reserving, Holding
<1>2. ReservedBytes' = ReservedBytes
  BY <1>1, ReservedMoves, Zenon DEF ReservedBytes
<1>3. \A u \in Threads : pc[u] = "sub_drop" => pc'[u] = "sub_drop" /\ slot'[u] = slot[u]
  BY Zenon
<1>4. \A u \in Threads : pc'[u] = "sub_drop" => pc[u] = "sub_drop" /\ slot'[u] = slot[u]
  BY Zenon
<1>5. RetainedSlots' = RetainedSlots
  BY <1>3, <1>4, SMTT(30) DEF RetainedSlots
<1>6. RetainedBytes' = RetainedBytes
  BY <1>5, Zenon DEF RetainedBytes
<1> QED BY <1>2, <1>6, Zenon DEF Budgeted

LEMMA MovingKeepsBudget ==
  ASSUME Types, Types', SlotsInUse, Budgeted, NEW t \in Threads, Moving(t)
  PROVE  Budgeted'
<1>0. /\ Cardinality(RetainedBytes) \in Nat /\ Cardinality(ReservedBytes) \in Nat
      /\ Size[slot[t]] \in Nat /\ slot[t] \in Slots /\ used \in Int
      /\ ReservedSize[t] = Size[slot[t]]
  BY Sizes, Zenon DEF Types
<1> USE DEF Goto, slotVars, heatVars, budgetVars, locals
<1>1. ASSUME RetainedSlots' = RetainedSlots, Reserving' = Reserving,
             \A u \in Reserving' : slot'[u] = slot[u], UNCHANGED used
      PROVE  Budgeted'
  <2>1. ReservedBytes' = ReservedBytes
    BY <1>1, ReservedMoves, Zenon DEF ReservedBytes
  <2>2. RetainedBytes' = RetainedBytes
    BY <1>1, Zenon DEF RetainedBytes
  <2> QED BY <1>1, <2>1, <2>2, Zenon DEF Budgeted
<1>2. CASE Reserve(t)
  <2>1. RetainedSlots' = RetainedSlots
    BY <1>2, Zenon DEF Reserve, RetainedSlots, Types
  <2>2. CASE used + Size[slot[t]] <= Limit
    <3>1. t \notin Reserving /\ Reserving' = Reserving \cup {t} /\ slot' = slot
      BY <1>2, <2>2 DEF Reserve, Reserving, Types
    <3>2. /\ IsFiniteSet(ReservedBytes')
          /\ Cardinality(ReservedBytes') = Cardinality(ReservedBytes) + Size[slot[t]]
      BY <3>1, ReservedJoins, Zenon
    <3>3. used' = used + Size[slot[t]]
      BY <1>2, <2>2, Zenon DEF Reserve
    <3>4. RetainedBytes' = RetainedBytes
      BY <2>1, Zenon DEF RetainedBytes
    <3> QED BY <1>0, <3>2, <3>3, <3>4, SMTT(30) DEF Budgeted
  <2>3. CASE ~(used + Size[slot[t]] <= Limit)
    <3>1. Reserving' = Reserving /\ slot' = slot /\ used' = used
      BY <1>2, <2>3, Zenon DEF Reserve, Reserving, Types
    <3> QED BY <1>1, <2>1, <3>1, Zenon
  <2> QED BY <2>2, <2>3, Zenon
<1>3. CASE ReleaseBytes(t)
  <2>1. used' = used - Size[slot[t]] /\ slot' = slot /\ verdict' = verdict /\ alive' = alive
    BY <1>3, Zenon DEF ReleaseBytes
  <2>2. CASE pc[t] \in {"sub_err", "sub_busy"}
    <3>1. t \in Reserving /\ Reserving' = Reserving \ {t}
      BY <1>3, <2>2, Zenon DEF ReleaseBytes, Reserving, Types
    <3>2. /\ IsFiniteSet(ReservedBytes')
          /\ Cardinality(ReservedBytes') = Cardinality(ReservedBytes) - Size[slot[t]]
      BY <2>1, <3>1, ReservedLeaves, Zenon
    <3>3. RetainedSlots' = RetainedSlots
      BY <1>3, <2>1, <2>2, Zenon DEF ReleaseBytes, RetainedSlots, Types
    <3>4. RetainedBytes' = RetainedBytes
      BY <3>3, Zenon DEF RetainedBytes
    <3> QED BY <1>0, <2>1, <3>2, <3>4 DEF Budgeted
  <2>3. CASE pc[t] = "sub_drop"
    <3>1. Reserving' = Reserving
      BY <1>3, <2>3, Zenon DEF ReleaseBytes, Reserving, Types
    <3>2. ReservedBytes' = ReservedBytes
      BY <2>1, <3>1, ReservedMoves, Zenon DEF ReservedBytes
    <3>3. \A u \in Threads : pc'[u] = "sub_drop" <=> pc[u] = "sub_drop" /\ u # t
      BY <1>3, <2>3, Zenon DEF ReleaseBytes, Types
    <3>4. slot[t] \in RetainedSlots /\ RetainedSlots' = RetainedSlots \ {slot[t]}
      BY <1>0, <2>1, <2>3, <3>3, SMTT(30) DEF RetainedSlots, SlotsInUse, Dropping
    <3>5. /\ IsFiniteSet(RetainedBytes')
          /\ Cardinality(RetainedBytes') = Cardinality(RetainedBytes) - Size[slot[t]]
      BY <1>0, <3>4, RetainedMoves, Zenon
    <3> QED BY <1>0, <2>1, <3>2, <3>5, SMTT(30) DEF Budgeted
  <2> QED BY <1>3, <2>2, <2>3, Zenon DEF ReleaseBytes
<1>4. CASE SetOk(t)
  <2>1. UNCHANGED <<used, slot, alive>> /\ pc[t] = "setok"
    BY <1>4, Zenon DEF SetOk
  <2>2. CASE verdict[slot[t]] = "none"
    <3>1. t \in Reserving /\ Reserving' = Reserving \ {t}
      BY <1>4, <2>2, Zenon DEF SetOk, Reserving, Types
    <3>2. /\ IsFiniteSet(ReservedBytes')
          /\ Cardinality(ReservedBytes') = Cardinality(ReservedBytes) - Size[slot[t]]
      BY <2>1, <3>1, ReservedLeaves, Zenon
    <3>3. slot[t] \in alive
      BY <2>1, Zenon DEF SlotsInUse, Dropping
    <3>4. \A u \in Threads : pc'[u] = "sub_drop" <=> pc[u] = "sub_drop"
      BY <1>4, <2>2 DEF SetOk, Types
    <3>5. verdict' = [verdict EXCEPT ![slot[t]] = "ok"]
      BY <1>4, <2>2, Zenon DEF SetOk
    <3>6. slot[t] \notin RetainedSlots /\ RetainedSlots' = RetainedSlots \cup {slot[t]}
      BY <1>0, <2>1, <2>2, <3>3, <3>4, <3>5 DEF RetainedSlots, Types
    <3>7. /\ IsFiniteSet(RetainedBytes')
          /\ Cardinality(RetainedBytes') = Cardinality(RetainedBytes) + Size[slot[t]]
      BY <1>0, <3>6, RetainedMoves, Zenon
    <3> QED BY <1>0, <2>1, <3>2, <3>7 DEF Budgeted
  <2>3. CASE verdict[slot[t]] # "none"
    <3>1. Reserving' = Reserving /\ RetainedSlots' = RetainedSlots
      BY <1>4, <2>1, <2>3 DEF SetOk, Reserving, RetainedSlots, Types
    <3> QED BY <1>1, <2>1, <3>1, Zenon
  <2> QED BY <2>2, <2>3, Zenon
<1>5. CASE Count(t) \/ Uncount(t)
  <2>1. UNCHANGED <<used, slot, alive, verdict>>
    BY <1>5, Zenon DEF Count, Uncount
  <2>2. Reserving' = Reserving /\ RetainedSlots' = RetainedSlots
    BY <1>5, <2>1 DEF Count, Uncount, Reserving, RetainedSlots, Types
  <2> QED BY <1>1, <2>1, <2>2, Zenon
<1>6. CASE \E s \in Slots : DropSlot(t, s)
  <2>1. PICK s \in Slots : DropSlot(t, s)
    BY <1>6, Zenon
  <2>2. \A u \in Threads \ {t} : pc'[u] = pc[u] /\ slot'[u] = slot[u]
    BY <2>1, Zenon DEF DropSlot, Types
  <2>3. /\ pc[t] = "idle" /\ pc'[t] = IF verdict[s] = "ok" THEN "sub_drop" ELSE "idle"
        /\ slot'[t] = s /\ s \in alive /\ alive' = alive \ {s}
        /\ UNCHANGED <<verdict, used>>
    BY <2>1, Zenon DEF DropSlot, Types
  <2>4. Reserving' = Reserving /\ \A u \in Reserving' : slot'[u] = slot[u]
    BY <2>2, <2>3, ZenonT(30) DEF Reserving
  <2>5. RetainedSlots' = RetainedSlots
    BY <2>2, <2>3 DEF RetainedSlots, SlotsInUse
  <2> QED BY <1>1, <2>3, <2>4, <2>5, Zenon
<1> QED BY <1>2, <1>3, <1>4, <1>5, <1>6, Zenon DEF Moving

-----------------------------------------------------------------------------
(***************************************************************************)
(* The number of compiled slots.                                           *)
(***************************************************************************)
Counted ==
  /\ compiled \in Int
  /\ compiled + Cardinality(Counting) = Cardinality(CompiledSlots) + Cardinality(Droppers)

LEMMA FiniteCounts ==
  ASSUME SlotsInUse
  PROVE  /\ IsFiniteSet(Counting) /\ IsFiniteSet(Droppers) /\ IsFiniteSet(CompiledSlots)
         /\ Cardinality(Counting) \in Nat /\ Cardinality(Droppers) \in Nat
         /\ Cardinality(CompiledSlots) \in Nat
<1>1. IsFiniteSet(Counting) /\ IsFiniteSet(Droppers)
  BY ThreadsFinite, FS_Subset, Zenon DEF Counting, Droppers
<1>2. CompiledSlots \subseteq Slots
  BY Zenon DEF CompiledSlots, SlotsInUse
<1>3. IsFiniteSet(CompiledSlots)
  BY <1>2, ThreadsFinite, FS_Subset, Zenon
<1> QED BY <1>1, <1>3, FS_CardinalityType, Zenon

LEMMA PlainKeepsCount ==
  ASSUME Types, SlotsInUse, Counted, NEW t \in Threads, Plain(t)
  PROVE  Counted'
<1> USE PlainSteps
<1>1. Counting' = Counting /\ Droppers' = Droppers /\ compiled' = compiled
  BY SMTT(30) DEF Counting, Droppers
<1>2. CompiledSlots' = CompiledSlots
  BY DEF CompiledSlots, SlotsInUse
<1> QED BY <1>1, <1>2, ZenonT(30) DEF Counted

LEMMA MovingKeepsCount ==
  ASSUME Types, SlotsInUse, Counted, NEW t \in Threads, Moving(t)
  PROVE  Counted'
<1>0. /\ IsFiniteSet(Counting) /\ IsFiniteSet(Droppers) /\ IsFiniteSet(CompiledSlots)
      /\ Cardinality(Counting) \in Nat /\ Cardinality(Droppers) \in Nat
      /\ Cardinality(CompiledSlots) \in Nat /\ compiled \in Int
  BY FiniteCounts, Zenon DEF Counted
<1> USE DEF Goto, slotVars, heatVars, budgetVars, locals
<1>1. ASSUME Counting' = Counting, Droppers' = Droppers,
             CompiledSlots' = CompiledSlots, UNCHANGED compiled
      PROVE  Counted'
  BY <1>1, Zenon DEF Counted
<1>2. CASE Reserve(t) \/ ReleaseBytes(t)
  <2>1. UNCHANGED <<alive, verdict, compiled>>
    BY <1>2, Zenon DEF Reserve, ReleaseBytes
  <2>2. Counting' = Counting /\ Droppers' = Droppers
    BY <1>2, Zenon DEF Reserve, ReleaseBytes, Counting, Droppers, Dropping, Types
  <2> QED BY <1>1, <2>1, <2>2, Zenon DEF CompiledSlots
<1>3. CASE SetOk(t)
  <2>1. UNCHANGED <<compiled, alive>> /\ pc[t] = "setok"
    BY <1>3, Zenon DEF SetOk
  <2>2. Droppers' = Droppers
    BY <1>3, Zenon DEF SetOk, Droppers, Dropping, Types
  <2>3. CASE verdict[slot[t]] = "none"
    <3>1. t \notin Counting /\ Counting' = Counting \cup {t}
      BY <1>3, <2>3 DEF SetOk, Counting, Types
    <3>2. slot[t] \in alive
      BY <2>1, Zenon DEF SlotsInUse, Dropping
    <3>3. slot[t] \notin CompiledSlots /\ CompiledSlots' = CompiledSlots \cup {slot[t]}
      BY <1>3, <2>1, <2>3, <3>2, SMTT(30) DEF SetOk, CompiledSlots, Types, SlotsInUse
    <3>4. Cardinality(Counting') = Cardinality(Counting) + 1
      BY <1>0, <3>1, MemberAdded, Zenon
    <3>5. Cardinality(CompiledSlots') = Cardinality(CompiledSlots) + 1
      BY <1>0, <3>3, MemberAdded, Zenon
    <3> QED BY <1>0, <2>1, <2>2, <3>4, <3>5, SMTT(30) DEF Counted
  <2>4. CASE verdict[slot[t]] # "none"
    <3>1. Counting' = Counting /\ verdict' = verdict
      BY <1>3, <2>4, Zenon DEF SetOk, Counting, Types
    <3> QED BY <1>1, <2>1, <2>2, <3>1, Zenon DEF CompiledSlots
  <2> QED BY <2>3, <2>4, Zenon
<1>4. CASE Count(t)
  <2>1. UNCHANGED <<alive, verdict>> /\ compiled' = compiled + 1
    BY <1>4, Zenon DEF Count
  <2>2. t \in Counting /\ Counting' = Counting \ {t} /\ Droppers' = Droppers
    BY <1>4, Zenon DEF Count, Counting, Droppers, Dropping, Types
  <2>3. Cardinality(Counting') = Cardinality(Counting) - 1
    BY <1>0, <2>2, MemberRemoved, Zenon
  <2>4. CompiledSlots' = CompiledSlots
    BY <2>1, Zenon DEF CompiledSlots
  <2> QED BY <1>0, <2>1, <2>2, <2>3, <2>4 DEF Counted
<1>5. CASE Uncount(t)
  <2>1. UNCHANGED <<alive, verdict>> /\ compiled' = compiled - 1
    BY <1>5, Zenon DEF Uncount
  <2>2. t \in Droppers /\ Droppers' = Droppers \ {t} /\ Counting' = Counting
    BY <1>5, Zenon DEF Uncount, Counting, Droppers, Dropping, Types
  <2>3. Cardinality(Droppers') = Cardinality(Droppers) - 1
    BY <1>0, <2>2, MemberRemoved, Zenon
  <2>4. CompiledSlots' = CompiledSlots
    BY <2>1, Zenon DEF CompiledSlots
  <2> QED BY <1>0, <2>1, <2>2, <2>3, <2>4, SMTT(30) DEF Counted
<1>6. CASE \E s \in Slots : DropSlot(t, s)
  <2>1. PICK s \in Slots : DropSlot(t, s)
    BY <1>6, Zenon
  <2>2. /\ pc[t] = "idle"
        /\ pc' = [pc EXCEPT ![t] = IF verdict[s] = "ok" THEN "sub_drop" ELSE "idle"]
        /\ s \in alive /\ alive' = alive \ {s} /\ UNCHANGED <<verdict, compiled>>
    BY <2>1, Zenon DEF DropSlot
  <2>3. Counting' = Counting
    BY <2>2, Zenon DEF Counting, Types
  <2>4. CASE verdict[s] = "ok"
    <3>1. t \notin Droppers /\ Droppers' = Droppers \cup {t}
      BY <2>2, <2>4, Zenon DEF Droppers, Dropping, Types
    <3>2. s \in CompiledSlots /\ CompiledSlots' = CompiledSlots \ {s}
      BY <2>2, <2>4, Zenon DEF CompiledSlots
    <3>3. Cardinality(Droppers') = Cardinality(Droppers) + 1
      BY <1>0, <3>1, MemberAdded, Zenon
    <3>4. Cardinality(CompiledSlots') = Cardinality(CompiledSlots) - 1
      BY <1>0, <3>2, MemberRemoved, Zenon
    <3> QED BY <1>0, <2>2, <2>3, <3>3, <3>4 DEF Counted
  <2>5. CASE verdict[s] # "ok"
    <3>1. Droppers' = Droppers /\ CompiledSlots' = CompiledSlots
      BY <2>2, <2>5, Zenon DEF Droppers, CompiledSlots, Dropping, Types
    <3> QED BY <1>1, <2>2, <2>3, <3>1, Zenon
  <2> QED BY <2>4, <2>5, Zenon
<1> QED BY <1>2, <1>3, <1>4, <1>5, <1>6, Zenon DEF Moving

-----------------------------------------------------------------------------
(***************************************************************************)
(* The accounts together, and the ranges of the cells.                     *)
(***************************************************************************)
Accounts == IInv /\ SlotsInUse /\ Budgeted /\ Counted

LEMMA AccountsKept == Spec => []Accounts
<1>1. Init => Accounts
  <2> SUFFICES ASSUME Init PROVE Accounts
    BY Zenon
  <2>1. IInv
    BY InitIInv, Zenon
  <2>2. SlotsInUse
    BY Zenon DEF Init, SlotsInUse, Dropping
  <2>3. /\ RetainedSlots = {} /\ Reserving = {} /\ Counting = {}
        /\ Droppers = {} /\ CompiledSlots = {} /\ used = 0 /\ compiled = 0
    BY Zenon DEF Init, RetainedSlots, Reserving, Counting, Droppers, Dropping, CompiledSlots
  <2>4. IsFiniteSet(RetainedBytes) /\ Cardinality(RetainedBytes) = 0
    BY <2>3, NoBytes, Zenon DEF RetainedBytes
  <2>5. IsFiniteSet(ReservedBytes) /\ Cardinality(ReservedBytes) = 0
    BY <2>3, NoBytes, Zenon DEF ReservedBytes
  <2>6. Budgeted
    BY <2>3, <2>4, <2>5 DEF Budgeted
  <2>7. Counted
    BY <2>3, FS_EmptySet DEF Counted
  <2> QED BY <2>1, <2>2, <2>6, <2>7, Zenon DEF Accounts
<1>2. Accounts /\ [Next]_vars => Accounts'
  <2> SUFFICES ASSUME Accounts, [Next]_vars PROVE Accounts'
    BY Zenon
  <2>1. IInv' /\ Types /\ Types'
    BY NextIInv, Zenon DEF Accounts, IInv
  <2>2. CASE UNCHANGED vars
    <3>1. UNCHANGED <<verdict, alive, used, compiled, pc, slot>>
      BY <2>2, Zenon DEF vars, slotVars, budgetVars, locals
    <3>2. SlotsInUse'
      BY <3>1, Zenon DEF Accounts, SlotsInUse
    <3>3. Budgeted'
      BY <3>1, Zenon DEF Accounts, Budgeted, RetainedBytes, ReservedBytes, RetainedSlots,
        Reserving, ReservedSize, Bytes
    <3>4. Counted'
      BY <3>1, Zenon DEF Accounts, Counted, Counting, CompiledSlots, Droppers
    <3> QED BY <2>1, <3>2, <3>3, <3>4, Zenon DEF Accounts
  <2>3. ASSUME NEW t \in Threads, Plain(t) PROVE Accounts'
    BY <2>1, <2>3, PlainKeepsUse, PlainKeepsBudget, PlainKeepsCount, Zenon DEF Accounts
  <2>4. ASSUME NEW t \in Threads, Moving(t) PROVE Accounts'
    BY <2>1, <2>4, MovingKeepsUse, MovingKeepsBudget, MovingKeepsCount, Zenon DEF Accounts
  <2> QED BY <2>2, <2>3, <2>4, NextSplits, Zenon
<1> QED BY <1>1, <1>2, PTL DEF Spec

(***************************************************************************)
(* The bytes used are those of the regions retained and of the             *)
(* reservations under way (CodeBudget::reserve and release, region, drop). *)
(***************************************************************************)
THEOREM BudgetAlwaysExact == Spec => []BudgetExact
<1>1. Accounts => BudgetExact
  BY Zenon DEF Accounts, Budgeted, BudgetExact, RetainedBytes, ReservedBytes, ReservedSize
<1> QED BY <1>1, AccountsKept, PTL

(***************************************************************************)
(* has_compiled_code counts every compiled slot once (region, drop).       *)
(***************************************************************************)
THEOREM CountAlwaysExact == Spec => []CompiledCountExact
<1>1. Accounts => CompiledCountExact
  <2> SUFFICES ASSUME Accounts PROVE CompiledCountExact
    BY Zenon
  <2>1. {t \in Threads : pc[t] \in {"count"}} = Counting
    BY Zenon DEF Counting
  <2>2. {t \in Threads : pc[t] \in {"sub_drop", "bump_drop", "uncount"}} = Droppers
    BY Zenon DEF Droppers, Dropping
  <2> QED BY <2>1, <2>2, Zenon DEF Accounts, Counted, CompiledCountExact, CompiledSlots
<1> QED BY <1>1, AccountsKept, PTL

Ranges ==
  /\ capacity_epoch \in [Slots -> Nat \cup {NoEpoch}]
  /\ tier \in [Slots -> 0..TierDenied]
  /\ productivity \in [Slots -> 0..Denied]
  /\ used <= Limit
  /\ seen \in [Threads -> Nat]
  /\ sample \in [Threads -> 0..Denied]

LEMMA RangesStep ==
  ASSUME Types, Ranges, [Next]_vars
  PROVE  Ranges'
<1> USE SizeIsNat, LimitIsNat, WorkIsPos
<1> USE DEF Types, Ranges, Goto, vars, slotVars, heatVars, budgetVars, locals,
            TierCompiled, TierDenied, Proven, Denied
<1>1. ASSUME UNCHANGED <<capacity_epoch, tier, productivity, used, seen, sample>>
      PROVE  Ranges'
  BY <1>1, Zenon
<1>2. ASSUME NEW t \in Threads, LoadEpoch(t) PROVE Ranges'
  BY <1>2, Zenon DEF LoadEpoch
<1>3. ASSUME NEW t \in Threads, Reserve(t) PROVE Ranges'
  BY <1>3, Zenon DEF Reserve
<1>4. ASSUME NEW t \in Threads, ReleaseBytes(t) PROVE Ranges'
  BY <1>4, SMTT(30) DEF ReleaseBytes
<1>5. ASSUME NEW t \in Threads, Refuse(t) PROVE Ranges'
  BY <1>5, Zenon DEF Refuse
<1>6. ASSUME NEW t \in Threads, Deny(t) \/ SetTier(t) \/ Promote(t) PROVE Ranges'
  BY <1>6, SMTT(30) DEF Deny, SetTier, Promote
<1>7. ASSUME NEW t \in Threads, ExchangeProductivity(t) PROVE Ranges'
  <2>1. \A p \in 0..Denied : \A e \in BOOLEAN : NextProductivity(p, e) \in 0..Denied
    BY SMTT(30) DEF NextProductivity
  <2> QED BY <1>7, <2>1, SMTT(30) DEF ExchangeProductivity
<1>8. ASSUME NEW t \in Threads, NEW s \in Slots, AddWork(t, s) PROVE Ranges'
  BY <1>8, SMTT(30) DEF AddWork, Capped
<1>9. ASSUME NEW t \in Threads, NEW s \in Slots, LoadProductivity(t, s) PROVE Ranges'
  BY <1>9, Zenon DEF LoadProductivity
<1>10. ASSUME NEW t \in Threads,
              CheckCapacity(t) \/ Claim(t) \/ Compile(t) \/ Prepare(t) \/ BumpEpoch(t)
                \/ SetErr(t) \/ SetOk(t) \/ Count(t) \/ Publish(t) \/ Clear(t) \/ Uncount(t)
       PROVE  Ranges'
  <2>1. UNCHANGED <<capacity_epoch, tier, productivity, used, seen, sample>>
    BY <1>10, ZenonT(60) DEF CheckCapacity, Claim, Compile, Prepare, BumpEpoch, SetErr,
      SetOk, Count, Publish, Clear, Uncount
  <2> QED BY <1>1, <2>1, Zenon
<1>11. ASSUME NEW t \in Threads, NEW s \in Slots,
              Look(t, s) \/ PromoteLook(t, s) \/ DropSlot(t, s)
       PROVE  Ranges'
  <2>1. UNCHANGED <<capacity_epoch, tier, productivity, used, seen, sample>>
    BY <1>11, ZenonT(60) DEF Look, PromoteLook, DropSlot
  <2> QED BY <1>1, <2>1, Zenon
<1>12. CASE UNCHANGED vars
  BY <1>1, <1>12, Zenon
<1> QED BY <1>2, <1>3, <1>4, <1>5, <1>6, <1>7, <1>8, <1>9, <1>10, <1>11, <1>12,
           ZenonT(60) DEF Next, ThreadStep, SlotStep

(* A thread that has still to count its region has a compiled slot of its own. *)
LEMMA CountingFits ==
  ASSUME Accounts
  PROVE  Cardinality(Counting) <= Cardinality(CompiledSlots)
<1> DEFINE f == [t \in Counting |-> slot[t]]
<1>1. \A t \in Counting : slot[t] \in CompiledSlots
  BY Zenon DEF Accounts, IInv, WinnerRetains, SlotsInUse, Dropping, Counting, CompiledSlots
<1>2. \A t, u \in Counting : slot[t] = slot[u] => t = u
  BY Zenon DEF Accounts, IInv, OneCompiler, InRegion, Counting
<1>3. f \in Injection(Counting, CompiledSlots)
  BY <1>1, <1>2, Zenon DEF Injection, IsInjective
<1>4. IsFiniteSet(CompiledSlots)
  BY FiniteCounts, Zenon DEF Accounts
<1> QED BY <1>3, <1>4, FS_Injection, Zenon

(***************************************************************************)
(* Types: among them, that the code in use never exceeds the limit and     *)
(* that neither counter is ever decremented below zero (fetch_sub wraps).  *)
(***************************************************************************)
THEOREM CacheTypesCorrect == Spec => []TypeOK
<1>1. Init => Ranges
  BY SizeIsNat, LimitIsNat, WorkIsPos DEF Init, Ranges, NoEpoch, TierDenied, Denied
<1>2. Accounts /\ Ranges /\ [Next]_vars => Ranges'
  BY RangesStep, Zenon DEF Accounts, IInv
<1>3. Accounts /\ Ranges => TypeOK
  <2> SUFFICES ASSUME Accounts, Ranges PROVE TypeOK
    BY Zenon
  <2>1. compiled \in Nat
    BY CountingFits, FiniteCounts, SMTT(30) DEF Accounts, Counted
  <2>2. used \in 0..Limit
    BY Sizes, LimitIsNat, SMTT(30) DEF Accounts, IInv, Types, Budgeted, Ranges
  <2> QED BY <2>1, <2>2, Zenon DEF Accounts, IInv, Types, SlotsInUse, Ranges, TypeOK
<1> QED BY <1>1, <1>2, <1>3, AccountsKept, PTL DEF Spec
=============================================================================
