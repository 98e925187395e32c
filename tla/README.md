# Jekyllbot: specification and verification

TLA+ specifications of `jekyll/jekyllbot`, the GitHub bot of the Jekyll
organisation: a webhook server that merges pull requests on request, keeps the
changelog, counts approvals, asks maintainers to look at issues and takes labels
off, and a handful of commands that run from cron. The modules are translated
from the Go source under `src/`; TLC checks them on small instances, and TLAPS
proves the main results for every value of the constants. Paths below are
relative to the root of the repository.

- [The system](#the-system)
- [The components](#the-components)
- [The modules and the code](#the-modules-and-the-code)
- [What is checked](#what-is-checked)
- [What is proved](#what-is-proved)
- [Disagreements found](#disagreements-found)
- [What is not modelled](#what-is-not-modelled)
- [Plan](#plan)

## The system

`cmd/jekyllbot` serves `/_github/jekyll`. `hooks.GlobalHandler` takes a webhook,
finds the handlers of its event and starts **each in a goroutine of its own**
(`hooks/global_handler.go:95-106`); the reply, "fired N handlers", goes out before
any of them has done anything. GitHub therefore never learns that a handler failed
and never redelivers by itself. All goroutines of all deliveries get **the same
`*ctx.Context`**. The handlers are listed in `jekyll/jekyll.go:21-36` and `109-127`:

| event | handlers |
|---|---|
| `issue_comment` | pending-feedback and stale unlabelers, `chlog.MergeAndLabel`, affinity "from comment" |
| `pull_request` | has-pull-request labeler, pending-rebase unlabeler, affinity assignment and review request |
| `pull_request_review` | `chlog.MergeAndLabel`, lgtm's stub |
| `issues` | deprecation of old repositories, affinity assignment |
| `status` | statistics (which writes the context's issue), failing `fmt` build |
| `create`, `release`, `push` | release on tag, milestone on release, autopull |

State that outlives one call lives in three places:

1. **GitHub**: pull requests, branches, labels, `History.markdown`, commit statuses,
   issues, teams. Every write is one API call, other people write too, and a call may
   be refused, may fail, or may be applied without the bot hearing of it.
2. **The memory of the server**: the shared context (`ctx`), the caches of `auth` and
   `lgtm`, the affinity teams. All of it is lost when the process stops. A panic in a
   handler's goroutine stops it: `sentry` recovers only in the goroutine of `ServeHTTP`.
3. **Nothing else**: no database, no queue, no file. A handler that stops half way is
   not resumed by anybody.

So the hard behaviours are interleavings of goroutines over unlocked memory,
read-change-write of files and labels on GitHub, partial failures between two
calls, restarts that empty caches, and lists that are stale when they are used.
The commands have no shared memory but the same partial failures, they work from
lists read minutes before, and cron may start one while another runs.

## The components

| component | state | operations | what makes it correct |
|---|---|---|---|
| merge and label, `chlog/merge_and_label.go` | none of its own; GitHub's pulls, refs, labels, `History.markdown` | parse, check, merge, then three goroutines | one changelog line per merged pull request, from the comment that merged it; no committed line lost; only merged heads deleted; the wait group is always released |
| auth, `auth/auth.go` | three maps, never invalidated, no lock | is the commenter a maintainer? | nobody is accepted who never was one; failures are not remembered |
| lgtm, `lgtm/` | status cache (mutex), `statusInfo` objects (shared, no mutex), statuses on GitHub | count an LGTM, reset on a push | an approval stays with its commit, is counted once, is not lost in the round trip through a description |
| affinity, `affinity/`, `ctx/issue_ref.go` | teams; the context's `Issue`, shared | assign captains, request reviews | the right people, the right issue, not the author |
| stale sweep, `stale/`, its command | labels, times, comments on GitHub; a list read before | mark, notify, close | the grace period, one notification, abandoned issues closed in the end |
| comment unlabelers, labeler, `jekyll/issuecomment/`, `labeler/` | labels on GitHub | take off `stale`, `pending-feedback`; put on `has-pull-request`; `pending-rebase` | do not undo the sweep, nor let it undo an answer |
| dispatch, `hooks/`, `jekyll/jekyll.go` | table of handlers, the one context | validate, parse, fire, answer | a handler acts at most once on a delivery, and gets to act unless the process stops; what stops it has its cause in the delivery's own event type |
| releases, `chlog/create_release_on_tag.go`, `chlog/close_milestone_on_release.go`, `releases/` | releases and milestones on GitHub | tag → release → milestone | the release has the lines of its version, and no others; a milestone is closed for its full release, and for no pre-release |
| issues filed once: `travis/`, `dependencies/`, the nudge, `search/` | issues on GitHub and a search index that lags; the context's `Repo`, shared | search, create | at most one open issue per subject, about something that was so; what stays due has one in the end |
| freeze, `freeze/`, its command | locks and labels of old issues; a list read before | list, lock, label | only ancient issues are locked; a rerun finishes what a failure left |
| unify labels, `cmd/unify-labels/` | labels of all repositories; one page read before | create, rename, recolour | after a run the desired labels are there; reruns get there whatever failed |
| deprecate, `jekyll/deprecate/` | issues of dead repositories | comment, close | nothing is closed without a word |
| autopull, `autopull/` | branches and pull requests | open a pull request for a push | the last push to a branch ends with a pull request, in whatever order events arrive |
| request context, `ctx/` | `Issue`, `Repo` and the lazily fetched login, shared | set, get | a request works with its own (it does not, see below) |
| error reporting, `sentry/`; utilities: `common`, `unearth`, `jekyll/repos` | – | – | not modelled |

`PROJECT.json` lists them with their status, and the hazards of each with the line
where it bites and the properties that watch it.

## The modules and the code

Conventions: one action per call to GitHub, or per access to unprotected shared
memory, because those are the points between which goroutines interleave; `pc[h]` is
where handler `h` is. A call that may fail has a disjunct for each outcome: applied,
refused or failed, and applied with the answer lost where that makes a difference.
Names are the source's.

### MergeAndLabel, ChangelogCategories, MergeLog

`ChangelogCategories` is the category table (`merge_and_label.go:32-81`) and the three
look-ups from a word in a comment to a section and to labels: the first category with
a matching prefix, its slug, the section of the slug, the labels of the section. The
reference definitions `ExpectedSection` and `ExpectedLabels` read the table directly.

`MergeAndLabel` is the handler. `Receive` parses the event; `CheckAccess` is auth;
`Merge` and `GetPull` are calls; `todo[r]` is what its three goroutines have yet to
do: `DeleteBranch`, `AddLabels`, and `ReadHistory` followed by `CommitHistory`.
`Return` is `wg.Wait`. `History.markdown` is the set of its lines, the line written
for request `r` being `r`; a blob SHA is the content it stands for, which makes the
optimistic lock of the contents API what it is. `ReadHistory` includes the ways in
which the code reads *something else*: `""` on an error, the copy at `heads/master`
when the default branch cannot be looked up, and `""` with a valid SHA for a file over
1 MB. The environment merges and edits by hand, and the process may stop.

`MergeLog` is the abstract promise: pull requests get merged; a merged one may be
recorded, once, for good. `Log == INSTANCE MergeLog WITH ...` maps the state of GitHub
to it.

### Auth

`CommenterHasPushAccess` with `teamsForOrg`, `isTeamMember` and `teamHasPushAccess`:
each look-up in a map, each call, and each store is an action, because another
handler's store may fall between. A store is followed by another look-up, as in the
code, except after a 404. Two handlers at one map of which one is writing (`Race`)
let the runtime stop the process; so does a membership call without a response, whose
`resp.StatusCode` is read before `err` (`auth.go:61`). `Change` is what happens in the
organisation meanwhile. `joined`, `left`, `opened`, `shut` are history: what was true
on GitHub at some time since the process started.

### Lgtm

`IssueCommentHandler` and `PullRequestHandler` down to `getStatus` and `setStatus`.
The cache holds a *pointer*: `ptr[c]` names the object a handler works on, and handlers
that found it in the cache share it. `append` to `lgtmers` is a read (`ReadSlice`) and
a write (`WriteSlice`). A description is what `parseStatus` finds in it: who is
mentioned and how many are missing. A description over 140 characters (`MaxListed`) is
refused by GitHub. `ListStatuses` asks for one page of the commit's statuses, of all contexts
(nil options, `status_cache.go:49`): our status may be behind it whenever it is there, which
`overlooked` notes, and the handler then publishes an empty one over it. `approved` is the
history of who was counted in an object of which commit; that commit need not be the head. The deployed
server registers only the stub for reviews; the two
handlers are library code which the repository's README and tests describe.

### Affinity

The four handler functions on the one context. `SetAuthor` and `SetIssue` write it,
field by field in any order, and `CheckEnabled`, `PickCaptains` and `CallGitHub` read
it again. `statStatus` writes the same reference. `AddTeam` is the start-up, which goes
on after errors. The draw of captains is the set of results each function may return.

### StaleIssues

The sweep composed with the handlers whose labels it shares. A sweep lists page by page
(`ListPage`), then works through what it listed (`PassOver`, `closeIssue`, `markIssue`
with `CreateComment`), so that it acts on copies; `byUpdate` is GitHub's order, which
every update changes, between two pages too. A comment — the bot's own notification
included — is delivered to the handlers or lost. Times are ages in months, capped just
above `DormantDuration`; time passes only when no sweep and no handler runs, since
those take minutes.

### Calls, Jekyllbot

`Calls` is what the modules below share: a call to GitHub, Travis or RubyGems that
fails (`Fail`, at most `MaxErrors` in a behaviour) was not applied; one that was
`Applied` may still lose its answer.

`Jekyllbot` puts these parts together. They share GitHub and the errors, and the
three that file issues share `SearchedIssues`; otherwise no variable of one is read by
another. The parts of the set `active` run together, their steps in any order, and the
others rest; `Exercised` has the sets that an instance allows. TLC is given one part at a
time (`MCExercised`), because interleaving them multiplies the states; the theorems are for
every `Exercised`, all ten parts at once included, and say that the interleaving adds nothing:
`PartsCompose` is that each part's own specification holds of the bot, and `BotInvariance`
that all their invariants hold together.

### SearchedIssues, FailingFmtBuild, Nudge, OutdatedDependencies

Three jobs ask GitHub's search for an open issue on their subject, and create one when
none is found. `opened[s]` are the open issues on a subject and `indexed[s]` those the
search knows: the index catches up in a step of its own. The code has nothing against
a late index or two jobs at the same time, and `unseen` is the history of exactly those
cases: `GoesOn` puts in a subject when the search did not return its open issue, because
the index is late or the search failed, or when another job is between its search and its
create on it. `OneOpenIssue` is about all the others: whenever a search returns an issue,
no second one is filed, after a lost answer, a retry, a close or an index that is behind
on a *closed* issue. A job that ignores what its search returned violates it (`SearchFmt_ResultIgnored`).
`opened` stops counting at `MaxOpened`.

`FailingFmtBuild` is the status handler: `SetRepo` writes the shared `context.Repo`,
and `GetBuild`, `SearchFmt` and `CreateFmt` read it again; `GetJob` is a turn of the loop
over the jobs. An event that puts another repository into the context while handlers are
under way marks that repository's subject as unseen, since these handlers then file
there. `Nudge` is one goroutine per
repository over releases, commits and a clock that go on meanwhile; a
repository whose releases have no version makes `versions[0]` panic, which ends the
run for all (`NoVersions`). Counts of commits are 0, some, over 100. `OutdatedDependencies`
reads two files, compares and files in a loop that the first failed create ends;
constraints and versions are numbers. The words of a query match the issue of a gem whose
name contains the gem's name (`Containing`). `BusyRepos`, `OddRepos` and `Constrained` say
only where an instance starts and what changes in it.

### Freeze, UnifyLabels

`Freeze` lists from the index page by page, then `LockIssue` and `LabelIssue` for each of
the list; people reopen and unlock issues, and a call of the bot may or may not count
as an update of the issue. `wasAncient` and `freed` are history: issues that were closed
and untouched for a year, and issues that people unlocked.

`UnifyLabels` goes through the repositories in order, with one page of labels each
(`ListLabels`); `findLabel` and `NeedsUpdate` decide on that page, `Accepts` is what GitHub
says to it. `raced` is the state `labels` of a run in whose repository somebody else has changed
labels since the listing. `StartLabels` are the labels that a repository may
have at first. `Tractable` names what the command cannot deal with: more labels than a
page, and two that would collide.

### Releases, Labeler, Dispatch, Deprecate, AutoPull

`Releases` is both handlers of the way from a tag to a release to a closed milestone,
while merges add lines to HEAD and maintainers cut HEAD into a version, before the tag or
after it; `section[l]` is where a line is. People publish releases by hand too, as full or as
pre-releases whatever the tag (`PublishByHand`), and close and reopen milestones
(`EditMilestoneByHand`). A pre-release that is made a full one later sends "released" and
"edited", which the handler ignores. `Labeler` is the handler that takes
`pending-rebase` and `needs-work` off, against a `mergeable` that GitHub computes later, forgets
on a push, and may keep for an old base. `Dispatch` is `ServeHTTP` and `FireHandlers`:
`fired[d]` are the goroutines of a delivery, each with the type its payload was parsed
as, and `Handle` is one of them getting to run, where it refuses a payload of another
type, panics at a field that is not there (`Reads`), or acts. A handler of `Authenticates` looks up
memberships as well, and stops the process when the call has no response (`auth.go:61`) or when
another one looks one up at the same time (`auth.go:62`, `70`); `Auth` has those steps one by one. `Deprecate` has one
handler per delivery of an issue's event, with people who reopen; `AutoPull` one per push,
with branches that come and go. That a branch has one open pull request at most is GitHub's
doing; the bot's is that the last push gets one. An event that is late or comes again opens
anew what people closed.

## What is checked

Bounds are constants of the configurations, each named in its module.

| run | question | instance, and why it is enough |
|---|---|---|
| `merge` | `AtMostOneEntry`, `LabelsMatchEntry`, `OnlyMergedHeadsDeleted`, `NoCommittedLineLost`, `ImplementsMergeLog`, `HandlersEnd` | 3 deliveries: two maintainers ask for one pull request naming different categories, a third asks for another whose head is a fork's branch of the same name; failing calls, one restart, a hand edit. Two deliveries race for one pull request, two pull requests race for the file |
| `auth` | `GrantWasTrue`, `MaintainersAccepted` | 2 commenters, a team that reads and one that pushes; one change of teams, one failed call, one restart. Two handlers suffice for every race on a map, which is between two |
| `lgtm` | `ApprovalsStayWithCommit` | 2 approvals and both `pull_request` events, 3 at a time, one push, one restart: a stale object needs one push; descriptions that hold one name, so that the second is refused; a page of statuses may miss ours at any time |
| `lgtm_inorder` | `DistinctApprovals`, `AnsweredIsListed` | 3 approvals (one user twice), one at a time, failing calls, a page of statuses that misses ours, and a restart between any two of them |
| `affinity` | `CallsInTurnAreOwn`, `AskedAreCaptains` | review request, echo of the bot's own comment, status event, in two repositories, in any order or interleaved; the teams are added while calls fail; one team is added twice |
| `stale` | `GraceKept`, `NotifiedOnce`, `AbandonedAreClosed` | 2 sweeps that may overlap once, an issue and a pull request on a page each (so that an update shifts one past the other), one act of a person, one failure; a dormant period of one unit, ages up to two |
| `jekyllbot` | `OneOpenIssue`, `BlamedBuildFailed`, `NudgedWasDue`, `FiledWasOutdated`, `FrozenWereAncient`, `UnifiedWhenDone`, `NotesAreTheVersion`, `MilestonesFollowReleases`, `UnlabelledMerged`, `ActsOnce`, `StopsHaveTheirCause`, `ClosedWereTold`, `PushedIsPulled`; `DueIsNudged`, `OutdatedIsFiled`, `AncientAreFrozen`, `LabelsGetUnified`, `HandlersAct` | all parts, one failing call in each behaviour; see below |
| `merge_conflict`, `lgtm_first`, `affinity_shared`, `affinity_author`, `stale_silent` | see [below](#disagreements-found) | the smallest instance that shows it, without failures where none is needed |

The instances of `jekyllbot`, part by part: four status events, two for one repository,
one whose other job failed and one of a branch; two repositories to nudge, one busy with
two releases, one whose only release may have no version; two gems, one name
containing the other, two versions, one edit; two old issues on a page each and two acts
of people; two repositories with four label names, of which two differ in case, a page of
two labels, and one edit; a line, two versions and a pre-release, of which two are tagged, one event
redelivered, and one release published or milestone edited by hand; two pushes to a head, one
to the base, one label; two deliveries out of
eleven kinds of request (each event that matters, with a text or without, an unparsable one,
wrong signatures) with one restart; two issues, one in a dead repository, delivered twice and reopened once; two
pushes to each of two branches. Each bound lets the case happen that the property is
about: two of what can collide, one failure between two calls and one run
after it. The command runs are one at a time in the instances of the freezer and the
dependency check (`Freezers`, `Checkers`), where two multiply the states; the theorems
about them are for any number.

For each module one of the passing runs also checks its inductive invariant, which
contains the type invariant (`IInv`; `OrderInv` of `Lgtm`, `SweepInv` of `StaleIssues`
and `JekyllbotInv`, which contain those of their parts): TLC found that it holds before
it was proved. Each property has a mutant: a definition that is a plausible bug in the
same code (an ignored error, a key without its team, a SHA fetched too late) and that
violates it.

Deadlock is checked for `auth` and `stale`, where somebody can always ask or time can
always pass. In `merge`, `lgtm`, `affinity` and `jekyllbot` deliveries are finite in number and the
system rests when they are handled, so that it is not; `HandlersEnd` says of `merge`
that resting is not hanging.

**Fairness.** `MergeAndLabel!FairSpec` and `Auth!FairSpec` have weak fairness of each
handler: a goroutine that can go on is scheduled, and a call to GitHub returns, with an
answer or an error. `Auth` also assumes that who was refused asks again, which is what
`MaintainersAccepted` is about. `StaleIssues!FairSpec` has weak fairness of handlers and
sweeps and of starting the command (cron), and strong fairness of time: it passes
whenever there are again and again moments in which nothing runs. No fairness makes
people act, calls succeed, webhooks arrive, or crashes happen. `JekyllbotFairness` has
weak fairness of each command (cron starts it, its calls return), of the dispatcher's
goroutines and of the search index, and strong fairness of the year that makes issues
ancient, which passes between runs. `Restart` is not fair: a delivery that comes while
the process is down is lost, and `HandlersAct` says so. Failures are bounded
by `MaxErrors`, so that liveness is about what happens after the last one.

## What is proved

TLAPS checks these theorems, for any number of deliveries, pull requests, users, teams,
issues and sweeps, under the module's named assumptions on constants (types, and that
"none" values are not values).

| theorem | says |
|---|---|
| `MergeAndLabel_proofs!Invariance`, `OneEntry`, `LinesKept`, `HeadsDeleted`, `LabelsAndEntries`, `Refinement` | `IInv`; `AtMostOneEntry`; `NoCommittedLineLost`; `OnlyMergedHeadsDeleted`; `LabelsMatchEntry`; `MergeLog` is implemented |
| `Auth_proofs!Invariance`, `Granted` | `IInv`; `GrantWasTrue` |
| `Lgtm_proofs!Invariance`, `ApprovalsStay` | `IInv`; `ApprovalsStayWithCommit` |
| `Lgtm_proofs!OrderInvariance`, `EachCountsOnce`, `AnswersStay` | `OrderInv`; `DistinctApprovals`; `AnsweredIsListed` |
| `Affinity_proofs!Invariance`, `CallsInTurn`, `Asked` | `IInv`; `CallsInTurnAreOwn`; `AskedAreCaptains` |
| `StaleIssues_proofs!Invariance`, `Grace` | `IInv`; `GraceKept` |
| `StaleIssues_proofs!SweepInvariance`, `OneNotice` | `SweepInv`; `NotifiedOnce` |
| `Handlers_proofs!ReleasesInvariance`, `ReleaseNotes`, `MilestonesClosed` | `ReleasesInv`; `NotesAreTheVersion`; `MilestonesFollowReleases` |
| `Handlers_proofs!LabelerInvariance`, `LabelsComeOff` | `LabelerInv`; `UnlabelledMerged` |
| `Handlers_proofs!DispatchInvariance`, `ActAtMostOnce`, `CausesOfStops` | `DispatchInv`; `ActsOnce`; `StopsHaveTheirCause` |
| `Handlers_proofs!DeprecateInvariance`, `ClosedAreToldWhy`, `PushesArePulled` | `DeprecateInv`; `ClosedWereTold`; `PushedIsPulled` |
| `Commands_proofs!NudgeInvariance`, `NudgesAreDue` | `NudgeInv`; `NudgedWasDue` |
| `Commands_proofs!DepInvariance`, `FiledAreOutdated` | `DepInv`; `FiledWasOutdated` |
| `Commands_proofs!FreezeInvariance`, `OnlyAncientFreeze` | `FreezeInv`; `FrozenWereAncient` |
| `Commands_proofs!UnifyInvariance`, `UnifiedLabels` | `UnifyInv`; `UnifiedWhenDone` |
| `Jekyllbot_proofs!PartsCompose`, `PartsAreRight` | the bot implements the specification of each part, and has what was proved of it |
| `Jekyllbot_proofs!FilingInvariance`, `OneIssuePerSubject`, `FmtIssuesAreDue` | `FilingInv`; `OneOpenIssue`; `BlamedBuildFailed` |
| `Jekyllbot_proofs!BotInvariance` | `JekyllbotInv`, for any set of parts running together |

The arguments, and why the properties need a stronger invariant:

- **MergeAndLabel.** That there is one line says nothing about the text a handler read
  and will write back. `IInv` says that `mergedFor` names, for each pull request, the
  one delivery that got past `Merge` (`MergerMerged`, `PastMerge`) and that only
  lines of such deliveries are in the file *or in any copy in flight* (`FileEntries`,
  `BlobEntries`). `NoCommittedLineLost` then needs `BlobMatches`: what is edited is what
  its SHA stands for, so that GitHub's comparison is the lock. `Refinement` is under
  `EntriesReadable` (a file with an entry of the bot can be read): the 1 MB case does
  erase entries. A branch that is still to be deleted was found deletable by a handler
  past its merge (`BranchTodo`), and labels are those of the delivery that merged
  (`LabelsOfMerger`). That line and labels then agree is a fact about the table of
  categories (`LookupsAgree`), under `WordsAssumption`: what `strings.HasPrefix` says of words
  that are lowercased and hyphenated.
- **Auth.** That a grant was justified depends on what other handlers left in the maps.
  `IInv` says that whatever is cached, *or on its way to a cache*, was GitHub's answer
  to the question of its key (`CachedWasTrue`, `AnswerWasTrue`), and that what is true
  now is part of the history (`NowIsHistory`).
- **Lgtm.** Approvals are in statuses, in objects and in slices about to be written back,
  and each must belong to the object's commit. An object gets its commit after it gets its
  name, so that `IInv` also needs that nobody can point to it before (`UnsharedYet`,
  `EmptyYet`), and that a handler that works has an object (`PointerHeld`). What holds of
  deliveries one by one and in order is `OrderInv`. Nobody is counted twice, because a
  handler that is alone appends to the very list in which it looked for its author
  (`AppendsOnce`), and lists are free of repetitions wherever they are, statuses included
  (`ListedOnce`). An answered approval stays, because every object that can still be
  published or is cached has it (`AnswersHeld`): also one that was made from the status
  after a restart, and also one whose own `CreateStatus` failed, which has a name too many
  rather than one too few (`OwnApproval`). That needs the status to be found: `AnswersHeld`
  is about commits that are not `overlooked`. That a parsed status names its approvers needs a
  quorum that is not 0 (`QuorumSet`); between `postEmpty` and `store` the cached object has
  the quorum 0 of the parsed text, and only the handler that made it works with it.
- **Affinity.** While nobody has overlapped, the context holds what the one handler in
  flight has written so far, field by field (`Alone`, `OwnContext`); what a handler has
  checked stays checked (`Checked`), and captains are members (`CaptainsAreMembers`). The
  last two hold under any interleaving.
- **StaleIssues.** The code compares one time, the last update. `IInv` says why that is
  enough: comments and stale labels update the issue, so that its age is never more than the
  time since either (`Bumped`), in what was listed too. One notice is about the list:
  updates move issues from page to page while it is being made, so that an issue could be
  listed twice, as unmarked both times. `SweepInv` says why it is not marked twice: the list
  is in the order of updates, so that what was listed lies before the next page or was
  updated since (`PassedBy`, `Listing`), and an issue is listed for marking at most once
  (`MarkedOnce`). If such an issue carries the label by the time it is marked, somebody put
  it on after the listing and there is no notice yet (`LabelledAnew`); nor is there one when
  the sweep's own comment is due (`Unnotified`).

- **The handlers.** In `Releases`, what was read for a version must still be that version's
  when it is published, calls later: it lies between the version's lines at the tag and
  those of now, because a section only grows (`NotesRead`). A handler on its way to close has every milestone
of its release's name in hand that is open, but for those that people opened again since
(`ClosesOwn`). In `Labeler`, an answer
  "mergeable" is about the head of the last push (`AnswerIsAboutHead`), which every handler
  that goes on relies on (`WorkIsJustified`). In `Dispatch`, a handler that is still to run
  on a payload it accepts has not acted yet (`FiredOwn`); the assumption on the table of
  handlers, `DispatchAssumption`, is the type assertion at the top of each `pull_request`
  handler; it is also why the second parse stops nothing (`StopsHaveTheirCause`). In
  `Deprecate`, the deliveries that closed an issue *or are about to* are no
  more than the comments (`ClosingAreTold`). In `AutoPull`, a branch whose last push had commits
is ahead until people merge or close its pull request (`StaysAhead`), so that a refusal of
GitHub means that there is one.
- **The commands.** What a run holds on to was so when it was read, and is history that
  does not become false: a release that is due stays due (`WorksOnRelease`), a constraint
  was one of the repository's and versions of RubyGems only grow (`ReadWereConstraints`,
  `FoundAreLate`), issues in the index and on the lists were ancient (`FoundWereAncient`). The
  label unifier has no history: as long as nobody else changes the labels of the repository
  it is at, what it has dealt with is as desired and the rest is as listed (`DealtWith`). That
  a rename takes away no label that another turn needs rests on `UnifyAssumption`: possible
  names of different desired labels differ, as those of the 32 in the code do.
- **Filing once.** `FilingInv` joins the three jobs, because they share the issues and the
  index: between its search and its create, a job's subject has no open issue or is
  in `unseen` (`FmtReady`, `NudgeReady`, `DepReady`), and no other job changes that, since
  subjects of different kinds differ. It rests on `NudgeInv` and `DepInv`, which the
  bot inherits through `PartsCompose`.

- **The bot.** `BotInvariance` combines the invariants of the parts, which hold of it by
  `PartsCompose`, with `FilingInv` and with what only the composition has: every step of any
  part makes at most one failing call (`BotCalls`, one lemma for each part), so that `errors` stays
  within its bound. None of it uses that a part is active, which is why it holds for
  any interleaving.

**Only model-checked.** The liveness properties `HandlersEnd`, `MaintainersAccepted`,
`AbandonedAreClosed`, `DueIsNudged`, `OutdatedIsFiled`, `AncientAreFrozen`,
`LabelsGetUnified` and `HandlersAct`, which the prover does not handle. All invariants and
action properties of the passing runs are proved.

**Conditions that the properties state.** `DistinctApprovals` and `AnsweredIsListed` hold
while deliveries are handled one by one and in order, `CallsInTurnAreOwn` while handlers
do not overlap, `NotifiedOnce` while sweeps do not. The code has nothing that makes
these conditions true; without them the properties fail in the model, and for the
context's issue the code's own words say it should not matter (`CallsAreOwn`).
`AnsweredIsListed` excepts the commits of which a page of statuses did not have ours: after a
restart, the 30 newest statuses of a busy commit may all be of other contexts, and then an
answered approval *is* lost, in order and without a failure. `ApprovalsStayWithCommit` is about
the commit of the object that an approval was counted in; an approval given after a push may
be counted, and published, for the commit before it (`status_cache.go:40`).
`OneOpenIssue` excepts the subjects in `unseen`: a late index, a failed search (which counts as
"none" for the nudge and the dependency check) and overlapping jobs do file twice.
`BlamedBuildFailed` excepts the repositories that were put into the context while a handler of
another was under way, and a failed build of a commit on no branch counts, as in the code
(`failing_fmt_build.go:50`), although the title says master. `StopsHaveTheirCause` is about what
the handlers read and look up without a check; the tables `Reads` and `Authenticates` of the
instance have the handlers of four event types. `CallsInTurnAreOwn` says "in an enabled repository",
but the teams of the instances are enabled in all of theirs: that clause rests on the theorem.
`PushedIsPulled` excepts pushes whose call failed. `LabelsGetUnified` excepts
the repositories that are not `Tractable`; `DueIsNudged` needs every repository to have a version.
`MaintainersAccepted` is for organisations whose teams fit on one page of 100.
`GrantWasTrue` bounds how old an answer can be by the life of the process, and does not
promise that both answers were true at once: that is what caches without an expiry give.

## Disagreements found

Each is a run that TLC ends with a counterexample, against something that the
repository says.

1. `merge_conflict`, `chlog/merge_and_label.go:234`: two requests for two pull requests
   are handled at the same time and both read the file; the second `UpdateFile` is refused
   because the file has changed since it was read, lines 234-236 log `mergeErr` (nil), and
   the handler returns nil with no changelog line ("Read History.markdown, add line to
   appropriate change section"). A repeated request fails at `Merge`: the line is lost.
2. `lgtm_first`, `lgtm/status_cache.go:69`: the first LGTM comment on a commit without a
   status publishes `success` before anybody is counted. The empty status says
   "Awaiting approval", the expression expects "Waiting for approval", the parsed quorum
   is 0 and 0 ≥ 0.
3. `affinity_shared`, `affinity/affinity.go:36`: the context "keeps track of information
   pertinent to the request" (`ctx/context.go:2`), but there is one for all requests:
   captains are assigned to the issue of another delivery.
4. `affinity_author`, `affinity/handler.go:78`: `SetAuthor` comes before `SetIssue`, which
   replaces the struct, so that the author is never excluded ("team captains other than
   issue author").
5. `stale_silent`, `stale/stale.go:139`: the label is put on before the comment; when the
   comment fails, later sweeps close the issue without having told anybody.

## What is not modelled

- **Rendering and parsing** of the changelog (package `changelog`, a library), of semantic
  versions, of templates and log lines: data that no property tells apart.
- **UserIsOrgOwner** and `ownersForOrg`, `selectSectionLabel`, `containsChangeLabel`,
  `askForAffinityTeam`: no caller.
- **Dry runs** of the commands change nothing. (The `Makefile` runs the sweep without `-f`,
  which is one; cron has to add it.)
- **Issues named on the command line** of `freeze-ancient-issues` (main.go:116-134): they are
  built without an `HTMLURL` and rejected before any call. Its `-repos` keeps only what it
  cannot parse (main.go:43-48), and that of the nudge is not read (main.go:61-64): the lists in the
  code are what works.
- **Commits of a branch**: `DeleteRef` names a branch, and the model has branches by name.
- **Several repositories** in `MergeAndLabel`, `Auth`, `Lgtm` and `StaleIssues`: caches,
  statuses and sweeps are keyed by repository and share nothing across them. `Affinity`
  has two, because the context is shared across them.
- **A default branch other than master** in `Releases` and `Nudge`: when it cannot be looked up,
  the code takes `master` (merge_and_label.go:322, releases.go:46). `MergeAndLabel` has the
  repository where this is another file; in these two it is the same branch.
- **Error reporting** (`sentry/`) sends what it is given to a service and changes nothing;
  that it does not recover the panics of handler goroutines is why a panic stops the
  process in `Dispatch`, `Auth` and `MergeAndLabel`. **Utilities** (`common`, `jekyll/repos`,
  `unearth`) are constant tables, an error conversion and a read-only listing.
- **The rest of the context**: HTTP clients, statsd, logging, the RubyGems client's requests.

## Plan

Done, in this order: `ChangelogCategories`, `MergeLog`, `MergeAndLabel` (the bot's main
business), `Lgtm`, `Affinity`, `StaleIssues`, `Auth`, each with its proofs; then the jobs
that file issues, the other commands and handlers, and their composition `Jekyllbot`,
with proofs of all their safety properties. What is left:

1. Composition of `Auth` with `MergeAndLabel` in place of the step `CheckAccess`: the
   grant of a merge would then be traced to an answer of GitHub.
2. `Releases` over the history file of `MergeAndLabel` in place of its abstract file: a line
   that a merge lost would then be missing in the release.
3. An abstract specification of approvals (a set per commit that only grows while
   handlers run in turn), which `Lgtm` implements by `OrderInv`, in the manner of `MergeLog`.
