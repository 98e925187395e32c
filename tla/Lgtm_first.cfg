CONSTANTS
  c1 = c1
  c2 = c2
  c3 = c3
  Comments = {c1}
  Author <- MCAuthor
  MaxHead = 1
  Quorum = 2
  MaxListed = 2
  ApiErrors = FALSE
  Nobody = Nobody
  MaxInFlight = 2
  MaxCrashes = 0
SPECIFICATION Spec
INVARIANTS
  SuccessNeedsQuorum
CHECK_DEADLOCK FALSE
