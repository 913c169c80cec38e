SPECIFICATION ReviewSpec
CONSTANTS
  Tabs = {t1}
  Budget <- OneVisiblePerPhase
  Published <- SmallLessons
  FirstFresh = 6
  MaxFresh = 8
  MaxRevision = 6
INVARIANTS AcceptedIsReviewed AcceptanceIsCurrent SlotsAreDistinct BlocksInPhaseOrder
PROPERTY ActivitiesAreKept
CHECK_DEADLOCK FALSE
