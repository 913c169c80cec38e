SPECIFICATION FairSpec
CONSTANTS
  Slots = {1, 2, 3, 4}
  PhaseOf <- TwoPhases
  Questions = {1}
  Spares <- SomeSpares
  Routes = {"google-ais", "openrouter"}
  FallbackOf <- EachOther
  Reviewer = "reviewer"
  NoHost = NoHost
  Attempts <- FewAttempts
  JsonHosts = {"google-ais"}
  MaxRounds = 3
  MaxBakes = 2
INVARIANT WholeLessonsOnly
PROPERTIES SpendIsBounded EveryBakeReturns
CHECK_DEADLOCK FALSE
