SPECIFICATION Spec
CONSTANTS
  Terms = {t1, t2}
  Requests = {q1, q2}
  MaxGlossaries = 2
  MaxCopies = 2
  MaxRequests = 3
  MaxReviews = 2
  MaxEdits = 1
  MaxFaults = 1
  MaxCrashes = 1
SYMMETRY Alike
INVARIANTS
  OneCandidatePerTerm
  LastDecisionStands
  ApprovedHasOneEntry
  OneProjectGlossary
CHECK_DEADLOCK FALSE
