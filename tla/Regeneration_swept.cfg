SPECIFICATION Spec
CONSTANTS
  Tabs = {t1}
  Budget <- OneVisiblePerPhase
  Published <- TwoBlocks
  FirstFresh = 3
  MaxFresh = 4
  MaxRevision = 2
  Jobs = {j1}
  Workers = {w1, w2}
  NoJob = NoJob
  MaxAttempt = 2
  MaxCrashes = 0
  MaxFaults = 0
PROPERTY SweptWorkersNeverFinish
CHECK_DEADLOCK FALSE
