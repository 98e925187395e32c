CONSTANTS
  c1 = c1
  c2 = c2
  c3 = c3
  Comments = {c1, c2, c3}
  Author <- MCAuthor
  MaxHead = 1
  Quorum = 2
  MaxListed = 2
  ApiErrors = TRUE
  Nobody = Nobody
  MaxInFlight = 1
  MaxCrashes = 1
SPECIFICATION Spec
INVARIANTS
  DistinctApprovals
  AnsweredIsListed
CHECK_DEADLOCK FALSE
SYMMETRY MCSymmetry
