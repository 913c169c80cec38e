SPECIFICATION Spec
CONSTANTS
  Lessons = {l1}
  Workers = {w1, w2}
  Clients = {c1}
  NoLesson = NoLesson
  MaxAttempt = 3
  MaxBorn = 1
  MaxCrashes = 1
  MaxFaults = 1
SYMMETRY Symmetry
INVARIANTS AttemptsDoNotOverlap HistoryIsExact OneAttemptPerRequest
PROPERTY ImplementsLifecycle
CHECK_DEADLOCK FALSE
