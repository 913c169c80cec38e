SPECIFICATION Spec
CONSTANTS
  h1 = h1
  h2 = h2
  b1 = b1
  b2 = b2
  Procs = {p1, p2}
  Tokens = {t1, t2}
  Heads = {h1, h2}
  Bases = {b1, b2}
  Inputs <- MCInputs
  OldHeads = {h1}
  Spare = {s1, s2, s3}
  Comments = {c1}
  None = None
  MaxHops = 2
SYMMETRY Symmetry
INVARIANTS LockCoversTheCall SpendIsAuthorized RecoveriesAreSound ReceiptsRestOnAReview ReceiptsAnswerTheirRun TokensWorkOnce
CHECK_DEADLOCK FALSE
