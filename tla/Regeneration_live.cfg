SPECIFICATION FairSpec
CONSTANTS
  Tabs = {t1}
  Budget <- OneVisiblePerPhase
  Published <- TwoBlocks
  FirstFresh = 3
  MaxFresh = 4
  MaxRevision = 2
  Jobs = {j1, j2}
  Workers = {w1}
  NoJob = NoJob
  MaxAttempt = 2
  MaxCrashes = 1
  MaxFaults = 1
INVARIANTS RevisionIdentifiesDocument OneActiveRegeneration
PROPERTIES TeacherEditsSurvive EveryRegenerationEnds
CHECK_DEADLOCK FALSE
