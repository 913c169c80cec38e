SPECIFICATION FairSpec
CONSTANTS
  Lessons = {l1}
  Workers = {w1, w2}
  Clients = {c1}
  NoLesson = NoLesson
  MaxAttempt = 1
  MaxBorn = 2
  MaxCrashes = 2
  MaxFaults = 1
PROPERTIES EveryDraftIsServed EveryClosedAttemptGoesQuiet EveryBakeEnds
CHECK_DEADLOCK FALSE
