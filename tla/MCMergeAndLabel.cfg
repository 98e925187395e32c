CONSTANTS
  r1 = r1
  r2 = r2
  r3 = r3
  p1 = p1
  p2 = p2
  h1 = h1
  Requests = {r1, r2, r3}
  Pulls = {p1, p2}
  Refs = {"master", "topic"}
  Users = {"ann", "ben", "eve"}
  Maintainers = {"ann", "ben"}
  Words = {"site", "fix-it", "other"}
  NoWord = "none"
  StartsWith <- MCStartsWith
  Event <- MCEvent
  HeadRef <- MCHeadRef
  HeadRepo <- MCHeadRepo
  NoFile = {"no file"}
  StaleCopy <- MCStaleCopy
  Oversized <- MCOversized
  Unparsable <- MCUnparsable
  NoOne = NoOne
  HandLines = {h1}
  ApiErrors = TRUE
  MaxCrashes = 1
SPECIFICATION FairSpec
INVARIANTS
  IInv
  AtMostOneEntry
  LabelsMatchEntry
  OnlyMergedHeadsDeleted
PROPERTIES
  NoCommittedLineLost
  ImplementsMergeLog
  HandlersEnd
CHECK_DEADLOCK FALSE
