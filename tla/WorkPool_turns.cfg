SPECIFICATION FairSpec
CONSTANTS
  Bakes = {b1, b2}
  Replacements = {r1, r2}
  Workers = {w1, w2}
  Routes = {h1, h2}
  Nobody = Nobody
  NoRow = NoRow
  MaxFaults = 1
INVARIANTS RefusedWorkNeverRuns BoundedOvertaking
PROPERTY NeitherClassStarves
CHECK_DEADLOCK FALSE
