CONSTANTS
  c1 = c1
  c2 = c2
  c3 = c3
  Comments = {c1, c3}
  Author <- MCAuthor
  MaxHead = 1
  Quorum = 2
  MaxListed = 1
  ApiErrors = TRUE
  Nobody = Nobody
  MaxInFlight = 3
  MaxCrashes = 1
SPECIFICATION Spec
INVARIANTS
  OrderInv
  ApprovalsStayWithCommit
CHECK_DEADLOCK FALSE
