CONSTANTS
  bug = bug
  pull = pull
  Issues = {bug, pull}
  Pulls = {pull}
  Sweeps = {s1, s2}
  None = None
  PerPage = 1
  DormantDuration = 1
  MaxActs = 1
  MaxErrors = 1
  MaxOverlaps = 1
SPECIFICATION FairSpec
INVARIANTS
  SweepInv
  GraceKept
  NotifiedOnce
PROPERTIES
  AbandonedAreClosed
