SPECIFICATION Spec
CONSTANTS
  Teachers = {t1, t2}
  Accounts = {g1, g2}
  Allowed = {g2}
  AllowedAs = t2
  Enrolled = t2
  EnrolledAs = g2
  Invites = {v1}
  Tabs = {b1, b2}
  Proofs = {c1, c2}
  Requests = {r1}
  None = None
  MaxSessions = 2
  MaxSets = 1
  MaxCount = 1
  MaxReissues = 2
SYMMETRY Symmetry
INVARIANTS NothingOutlivesARevocation OneSessionPerProof SessionsMatchTheirAccount LostAnswersAreRecoverable
CHECK_DEADLOCK FALSE
