SPECIFICATION FairSpec
CONSTANTS
  w1 = w1
  w2 = w2
  c1 = c1
  none = none
  NoJob <- none
  Workers <- TwoWorkers
  Coordinators <- OneWorld
  MaxJobs = 3
INVARIANTS TypeOK JobsAccounted RecallSticks NoLostMarker NoIdleBesideWork WaitingJobIsNoticed
PROPERTIES AbortEnds TerminalRootLeaves JoinReturns QueuedJobMoves
CHECK_DEADLOCK FALSE
