SPECIFICATION JekyllbotSpec
CONSTANTS
  Exercised <- MCExercised
  MaxErrors = 1
  Subjects <- MCSubjects
  MaxCloses = 1
  MaxOpened = 2
  FmtEvents = {"e1", "e2", "e3", "e4"}
  StatusOf <- MCStatusOf
  BuildJobs <- MCBuildJobs
  NoRepo = NoRepo
  NudgeRepos = {"jekyll", "minima"}
  BusyRepos = {"jekyll"}
  MaxReleases = 2
  OddRepos = {"minima"}
  Gems = {"kramdown", "kramdown-parser-gfm"}
  Containing <- MCContaining
  Constrained = {"kramdown"}
  MaxGem = 2
  MaxEdits = 1
  Checkers = {"c1"}
  NumOld = 2
  Freezers = {"f1"}
  FreezePage = 1
  MaxActs = 2
  UnifyRepos <- MCUnifyRepos
  LabelNames = {"help-wanted", "help wanted", "Help-Wanted", "ux"}
  desiredLabels <- MCDesiredLabels
  allPossibleNames <- MCPossibleNames
  LabelKey <- MCLabelKey
  LabelPage = 2
  StartLabels <- MCStartLabels
  MaxLabelEdits = 1
  NoLabel = NoLabel
  ChangeLines = {"l1"}
  FullTags = {"v1", "v2"}
  PreTags = {"p1"}
  MaxTags = 2
  MaxRedelivered = 1
  MaxByHand = 1
  NoNotes = NoNotes
  MaxPushes = 2
  MaxBasePushes = 1
  MaxLabelled = 1
  Deliveries = {"d1", "d2"}
  Events <- MCEvents
  EventHandlers <- MCEventHandlers
  AcceptedTypes <- MCAcceptedTypes
  Reads <- MCReads
  Authenticates = {"MergeAndLabel"}
  MaxRestarts = 1
  NewIssues = {"i1", "i2"}
  DeprecatedRepos = {"jekyll-help"}
  RepoOf <- MCRepoOf
  MaxReopened = 1
  MaxDelivered = 2
  Branches = {"pull/a", "b"}
  PullBranches = {"pull/a"}
  MaxBranchPushes = 2
  MaxPullActs = 1
INVARIANTS
  JekyllbotInv
  OneOpenIssue
  BlamedBuildFailed
  NudgedWasDue
  FiledWasOutdated
  FrozenWereAncient
  UnifiedWhenDone
  NotesAreTheVersion
  MilestonesFollowReleases
  UnlabelledMerged
  ActsOnce
  StopsHaveTheirCause
  ClosedWereTold
  PushedIsPulled
PROPERTIES
  DueIsNudged
  OutdatedIsFiled
  AncientAreFrozen
  LabelsGetUnified
  HandlersAct
CHECK_DEADLOCK FALSE
