SPECIFICATION Spec
CONSTANTS
  Tabs = {t1}
  Budget <- OneVisiblePerPhase
  Published <- TwoBlocks
  FirstFresh = 3
  MaxFresh = 4
  MaxRevision = 2
  Jobs = {j1}
  Workers = {w1}
  NoJob = NoJob
  MaxAttempt = 1
  MaxCrashes = 0
  MaxFaults = 0
INVARIANT NoCallOutlivesItsLesson
CHECK_DEADLOCK FALSE
