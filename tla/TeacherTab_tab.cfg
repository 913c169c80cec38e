SPECIFICATION Spec
CONSTANTS
  Lessons = {A, B}
  NoLesson = NoLesson
  MaxClicks = 3
  MaxNet = 1
  MaxFailures = 1
  GivesUp = TRUE
SYMMETRY Symmetry
CHECK_DEADLOCK FALSE
INVARIANTS PollingIsAlive ButtonsComeBack PageHasContent
