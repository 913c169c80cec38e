SPECIFICATION Spec
CONSTANTS
  Lessons = {l1}
  Workers = {w1}
  Clients = {c1}
  NoLesson = NoLesson
  MaxAttempt = 1
  MaxBorn = 1
  MaxCrashes = 0
  MaxFaults = 1
INVARIANT BlockedMeansWorking
CHECK_DEADLOCK FALSE
