SPECIFICATION Spec
CONSTANTS
  t1 = t1
  t2 = t2
  s1 = s1
  s2 = s2
  none = none
  Nobody <- none
  Threads <- TwoThreads
  Slots <- TwoSlots
  Size <- Sizes
  Limit = 2
  AutoWork = 1
  SampleCount = 1
SYMMETRY ThreadSymmetry
INVARIANTS TypeOK BudgetExact CompiledCountExact PublishedIsRetained OneCompiler RefusalIsFresh
PROPERTY FinalStatesStay
CHECK_DEADLOCK FALSE
