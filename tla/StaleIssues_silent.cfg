CONSTANTS
  bug = bug
  pull = pull
  Issues = {bug, pull}
  Pulls = {pull}
  Sweeps = {s1}
  None = None
  PerPage = 1
  DormantDuration = 1
  MaxActs = 0
  MaxErrors = 1
  MaxOverlaps = 0
SPECIFICATION Spec
INVARIANTS
  ClosedAfterNotice
